--------------------------- MODULE IngressProofs ---------------------------
(***************************************************************************)
(* Proofs about Ingress, for every set of hosts, upstreams and API threads *)
(* and for both answers of Caddy to a repeated @id.                        *)
(***************************************************************************)
EXTENDS Ingress, TLAPS

-----------------------------------------------------------------------------
(* Types *)

\* What the typing of a step rests on: a POST that is about to be sent has
\* its arguments, and a host that is about to be pushed, which there are only
\* while a pass pushes, has an upstream.
Ready ==
    /\ \A a \in Actors : pc[a] = "insert" => job[a] \in [host : Hosts, dial : Upstreams]
    /\ \A w \in Workers : \A h \in todo[w] : snap[w][h] # None
    /\ \A w \in Workers : todo[w] # {} => pc[w] \in {"push", "insert"}

Typed == TypeOK /\ Ready

\* delete_route and the DELETE of upsert_route take a route away: lists of
\* dials remain lists of dials.
LEMMA DeletedType ==
    ASSUME NEW t \in Tables, NEW h \in Hosts
    PROVE  Deleted(t, h) \in Tables
<1>1. t[h] \in Seq(Upstreams)
    BY DEF Tables
<1>2. t[h] # <<>> => SubSeq(t[h], 1, Len(t[h]) - 1) \in Seq(Upstreams)
    BY <1>1
<1> QED
    BY <1>1, <1>2 DEF Tables, Deleted

\* The POST of upsert_route adds a route.
LEMMA InsertedType ==
    ASSUME NEW t \in Tables, NEW h \in Hosts, NEW d \in Upstreams
    PROVE  Inserted(t, h, d) \in Tables
<1>1. <<d>> \o t[h] \in Seq(Upstreams)
    BY DEF Tables
<1> QED
    BY <1>1 DEF Tables, Inserted

\* fetch_panel_state and the filter of reconcile_once: what is left of an
\* answer maps hosts to upstreams.
LEMMA PanelMapType ==
    ASSUME NEW answer \in Entries
    PROVE  PanelMap(answer) \in Maps
BY IngressAssumption DEF PanelMap, Entries, Maps

LEMMA InitTyped == Init => Typed
<1> SUFFICES ASSUME Init PROVE Typed
    OBVIOUS
<1> USE DEF Init
<1>1. table \in Tables
    <2>1. \A d \in Upstreams : <<d>> \in Seq(Upstreams)
        OBVIOUS
    <2>2. <<>> \in Seq(Upstreams)
        OBVIOUS
    <2>3. {<<>>} \cup {<<d>> : d \in Upstreams} \subseteq Seq(Upstreams)
        BY <2>1, <2>2
    <2>4. table \in [Hosts -> {<<>>} \cup {<<d>> : d \in Upstreams}]
        BY DEF Init
    <2> HIDE DEF Init
    <2> QED
        BY <2>3, <2>4 DEF Tables
<1>2. NoRoutes \in Tables
    BY DEF NoRoutes, Tables
<1>3. NoEntries \in Maps
    BY DEF NoEntries, Maps
<1>4. pc \in [Actors -> Labels]
    BY DEF Labels
<1>5. job \in [Actors -> Jobs]
    BY DEF Jobs
<1>6. misses \in [Hosts -> 0..2]
    OBVIOUS
<1>7. pending \in SUBSET Hosts /\ {} \in SUBSET Hosts
    OBVIOUS
<1>8. TypeOK
    BY <1>1, <1>2, <1>3, <1>4, <1>5, <1>6, <1>7 DEF TypeOK
<1> QED
    BY <1>8 DEF Typed, Ready, Actors

-----------------------------------------------------------------------------
(* The typing of a step, one lemma for each group of actions *)

\* A pass up to the comparison.
LEMMA ReadTyped ==
    ASSUME Typed, NEW w \in Workers,
           Fetch(w) \/ ReadForPrune(w) \/ WritePruned(w) \/ List(w)
    PROVE  Typed'
<1> USE DEF Typed, TypeOK, Ready, GoTo, caddy
<1>a. w \in Actors /\ Workers \subseteq Actors
    BY DEF Actors
<1>1. CASE Fetch(w)
    <2>1. NoEntries \in Entries
        BY DEF NoEntries, Entries
    <2>2. PICK answer \in {panel} \cup (IF calm THEN {} ELSE {NoEntries}) :
              /\ snap' = [snap EXCEPT ![w] = PanelMap(answer)]
              /\ misses' = [h \in Hosts |->
                              IF PanelMap(answer)[h] = None /\ misses[h] < 2
                              THEN misses[h] + 1
                              ELSE misses[h]]
        BY <1>1 DEF Fetch
    <2>3. snap' \in [Workers -> Maps]
        BY <2>1, <2>2, PanelMapType
    <2>4. misses' \in [Hosts -> 0..2]
        BY <2>2
    <2>5. todo[w] = {}
        BY <1>1 DEF Fetch
    <2>6. TypeOK'
        BY <1>1, <1>a, <2>3, <2>4 DEF Fetch, Labels
    <2> QED
        BY <1>1, <1>a, <2>2, <2>5, <2>6 DEF Fetch
<1>2. CASE ReadForPrune(w)
    <2>1. TypeOK'
        BY <1>2, <1>a DEF ReadForPrune, Labels
    <2> QED
        BY <1>2, <1>a, <2>1 DEF ReadForPrune
<1>3. CASE WritePruned(w)
    <2>1. NoRoutes \in Tables
        BY DEF NoRoutes, Tables
    <2>2. table' \in Tables /\ stray' \in BOOLEAN
        <3>1. kept[w] \in Tables
            OBVIOUS
        <3>2. CASE table' = kept[w] /\ stray' = FALSE
            BY <3>1, <3>2
        <3>3. CASE UNCHANGED <<table, stray>>
            BY <3>3
        <3> QED
            BY <1>3, <3>2, <3>3 DEF WritePruned
    <2>3. kept' \in [Workers -> Tables] /\ pc' \in [Actors -> Labels]
        BY <1>3, <1>a, <2>1 DEF WritePruned, Labels
    <2>4. TypeOK'
        BY <1>3, <2>2, <2>3 DEF WritePruned
    <2> QED
        BY <1>3, <1>a, <2>4 DEF WritePruned
<1>4. CASE List(w)
    <2>1. PICK cur \in {[h \in Hosts |-> Listed(h)]} \cup {NoEntries} :
              /\ todo' = [todo EXCEPT ![w] = Missing(w, cur)]
              /\ extra' = [extra EXCEPT ![w] = Extra(w, cur)]
        BY <1>4 DEF List
    <2>2. TypeOK'
        BY <1>4, <1>a, <2>1 DEF List, Missing, Extra, Labels
    <2> QED
        BY <1>4, <1>a, <2>1, <2>2 DEF List, Missing, Extra
<1> QED
    BY <1>1, <1>2, <1>3, <1>4

\* A pass that writes to Caddy.
LEMMA WriteTyped ==
    ASSUME Typed, NEW w \in Workers,
           PushDelete(w) \/ PushInsert(w) \/ Confirm(w) \/ Collect(w)
    PROVE  Typed'
<1> USE DEF Typed, TypeOK, Ready, GoTo, caddy, passVars
<1>a. w \in Actors /\ Workers \subseteq Actors
    BY DEF Actors
<1>1. CASE PushDelete(w)
    <2>1. PICK h \in todo[w] :
              /\ todo' = [todo EXCEPT ![w] = @ \ {h}]
              /\ \/ /\ table' = Deleted(table, h)
                    /\ job' = [job EXCEPT ![w] = [host |-> h, dial |-> snap[w][h]]]
                    /\ GoTo(w, "insert")
                 \/ UNCHANGED <<table, job, pc>>
        BY <1>1 DEF PushDelete
    <2>2. h \in Hosts /\ snap[w][h] \in Upstreams
        BY DEF Maps
    <2>3. Deleted(table, h) \in Tables
        BY <2>2, DeletedType
    <2>4. [host |-> h, dial |-> snap[w][h]] \in [host : Hosts, dial : Upstreams]
        BY <2>2
    <2>5. TypeOK'
        BY <1>1, <1>a, <2>1, <2>3, <2>4 DEF PushDelete, Jobs, Labels
    <2> QED
        BY <1>1, <1>a, <2>1, <2>4, <2>5 DEF PushDelete
<1>2. CASE PushInsert(w)
    <2>1. job[w].host \in Hosts /\ job[w].dial \in Upstreams
        BY <1>2, <1>a DEF PushInsert
    <2>2. table' \in Tables
        BY <1>2, <2>1, InsertedType DEF PushInsert
    <2>3. TypeOK'
        BY <1>2, <1>a, <2>2 DEF PushInsert, Jobs, Labels
    <2> QED
        BY <1>2, <1>a, <2>3 DEF PushInsert
<1>3. CASE Confirm(w)
    <2>1. TypeOK'
        BY <1>3, <1>a DEF Confirm, Labels
    <2> QED
        BY <1>3, <1>a, <2>1 DEF Confirm
<1>4. CASE Collect(w)
    <2>1. PICK h \in doomed[w] :
              /\ doomed' = [doomed EXCEPT ![w] = @ \ {h}]
              /\ table' = Deleted(table, h) \/ UNCHANGED table
        BY <1>4 DEF Collect
    <2>2. table' \in Tables
        BY <2>1, DeletedType
    <2> QED
        BY <1>4, <2>1, <2>2 DEF Collect
<1> QED
    BY <1>1, <1>2, <1>3, <1>4

\* The end of a pass, however it comes about.
LEMMA EndPassTyped ==
    ASSUME Typed, NEW w \in Workers, EndPass(w),
           table' \in Tables, stray' \in BOOLEAN, pending' \subseteq Hosts,
           UNCHANGED <<panel, calm, misses>>
    PROVE  Typed'
<1> USE DEF Typed, EndPass, GoTo
<1>a. w \in Actors /\ Workers \subseteq Actors
    BY DEF Actors
<1>1. NoRoutes \in Tables /\ NoEntries \in Maps /\ NoJob \in Jobs
    BY DEF NoRoutes, Tables, NoEntries, Maps, Jobs
<1>2. pc' \in [Actors -> Labels]
    BY <1>a DEF TypeOK, Labels
<1>3. TypeOK'
    BY <1>a, <1>1, <1>2 DEF TypeOK
<1>4. Ready'
    BY <1>a DEF TypeOK, Ready
<1> QED
    BY <1>3, <1>4

\* A request that is lost has been carried out or has not.
LEMMA LostTyped ==
    ASSUME Typed, NEW w \in Workers, Lost(w)
    PROVE  Typed'
<1> USE DEF Typed, caddy
<1>1. EndPass(w) /\ UNCHANGED <<panel, calm, pending, misses>>
    BY DEF Lost, Abandon
<1>2. table' \in Tables /\ stray' \in BOOLEAN
    <2>1. CASE pc[w] \in {"mode", "list"} /\ UNCHANGED caddy
        BY <2>1 DEF TypeOK
    <2>2. CASE UNCHANGED caddy \/ (table' = kept[w] /\ stray' = FALSE)
        BY <2>2 DEF TypeOK
    <2>3. CASE /\ \E h \in todo[w] : table' \in {table, Deleted(table, h)}
               /\ UNCHANGED stray
        BY <2>3, DeletedType DEF TypeOK
    <2>4. CASE /\ pc[w] = "insert"
               /\ table' \in {table, Inserted(table, job[w].host, job[w].dial)}
               /\ UNCHANGED stray
        <3>1. job[w].host \in Hosts /\ job[w].dial \in Upstreams
            BY <2>4 DEF Ready, Actors
        <3> QED
            BY <2>4, <3>1, InsertedType DEF TypeOK
    <2>5. CASE /\ \E h \in doomed[w] : table' \in {table, Deleted(table, h)}
               /\ UNCHANGED stray
        BY <2>5, DeletedType DEF TypeOK
    <2> QED
        BY <2>1, <2>2, <2>3, <2>4, <2>5 DEF Lost
<1> QED
    BY <1>1, <1>2, EndPassTyped DEF TypeOK

\* The ingress API.
LEMMA ApiTyped ==
    ASSUME Typed, NEW c \in Callers, ApiUpsert(c) \/ ApiInsert(c) \/ ApiDelete(c)
    PROVE  Typed'
<1> USE DEF Typed, GoTo, passVars
<1>a. c \in Actors /\ c \notin Workers
    BY IngressAssumption DEF Actors, Workers
<1>1. CASE ApiUpsert(c)
    <2>1. PICK h \in Listable, d \in Upstreams :
              /\ table' = Deleted(table, h)
              /\ job' = [job EXCEPT ![c] = [host |-> h, dial |-> d]]
        BY <1>1 DEF ApiUpsert
    <2>2. h \in Hosts
        BY IngressAssumption
    <2>3. table' \in Tables
        BY <2>1, <2>2, DeletedType DEF TypeOK
    <2>4. job' \in [Actors -> Jobs] /\ pc' \in [Actors -> Labels]
        BY <1>1, <2>1, <2>2 DEF ApiUpsert, TypeOK, Jobs, Labels
    <2>5. TypeOK'
        BY <1>1, <2>3, <2>4 DEF ApiUpsert, TypeOK
    <2> QED
        BY <1>1, <1>a, <2>1, <2>2, <2>5 DEF ApiUpsert, TypeOK, Ready, Actors
<1>2. CASE ApiInsert(c)
    <2>1. job[c].host \in Hosts /\ job[c].dial \in Upstreams
        BY <1>2, <1>a DEF ApiInsert, Ready
    <2>2. table' \in Tables
        BY <1>2, <2>1, InsertedType DEF ApiInsert, TypeOK
    <2>3. job' \in [Actors -> Jobs] /\ pc' \in [Actors -> Labels]
        BY <1>2 DEF ApiInsert, TypeOK, Jobs, Labels
    <2>4. TypeOK'
        BY <1>2, <2>2, <2>3 DEF ApiInsert, TypeOK
    <2> QED
        BY <1>2, <1>a, <2>4 DEF ApiInsert, TypeOK, Ready, Actors
<1>3. CASE ApiDelete(c)
    <2>1. table' \in Tables
        BY <1>3, DeletedType, IngressAssumption DEF ApiDelete, TypeOK
    <2> QED
        BY <1>3, <2>1 DEF ApiDelete, TypeOK, Ready
<1> QED
    BY <1>1, <1>2, <1>3

\* The outside world.
LEMMA WorldTyped ==
    ASSUME Typed, PanelChange \/ CaddyReload \/ AgentRestart \/ Settle
    PROVE  Typed'
<1> USE DEF Typed, passVars, caddy
<1>0. NoRoutes \in Tables /\ NoEntries \in Maps /\ NoJob \in Jobs
    BY DEF NoRoutes, Tables, NoEntries, Maps, Jobs
<1>1. CASE PanelChange
    <2>1. panel' \in Entries
        BY <1>1 DEF PanelChange, TypeOK, Entries
    <2> QED
        BY <1>1, <2>1 DEF PanelChange, TypeOK, Ready
<1>2. CASE CaddyReload
    BY <1>2, <1>0 DEF CaddyReload, TypeOK, Ready
<1>3. CASE AgentRestart
    <2>1. pc' \in [Actors -> Labels] /\ misses' \in [Hosts -> 0..2]
        BY <1>3 DEF AgentRestart, Labels
    <2>2. TypeOK'
        BY <1>3, <1>0, <2>1 DEF AgentRestart, TypeOK
    <2> QED
        BY <1>3, <2>2 DEF AgentRestart, Ready
<1>4. CASE Settle
    BY <1>4 DEF Settle, TypeOK, Ready
<1> QED
    BY <1>1, <1>2, <1>3, <1>4

LEMMA StepTyped == Typed /\ [Next]_vars => Typed'
<1> SUFFICES ASSUME Typed, [Next]_vars PROVE Typed'
    OBVIOUS
<1>1. ASSUME NEW w \in Workers, FetchFails(w) \/ Finish(w) PROVE Typed'
    BY <1>1, EndPassTyped
       DEF FetchFails, Abandon, Finish, caddy, Typed, TypeOK
<1>2. ASSUME NEW w \in Workers, Pass(w) PROVE Typed'
    BY <1>1, <1>2, ReadTyped, WriteTyped, LostTyped DEF Pass
<1>3. CASE UNCHANGED vars
    BY <1>3 DEF vars, Typed, TypeOK, Ready
<1> QED
    BY <1>2, <1>3, ApiTyped, WorldTyped DEF Next

\* Every behaviour is well typed: whatever the panel answers and however the
\* requests interleave, only dials the panel or the API gave reach Caddy.
THEOREM TypeCorrect == Spec => []TypeOK
<1>1. Typed => TypeOK
    BY DEF Typed
<1> QED
    BY <1>1, InitTyped, StepTyped, PTL DEF Spec

-----------------------------------------------------------------------------
(* Two answers before a deletion *)

Busy(w)     == pc[w] \notin {"idle", "off"}
Lacks(w, h) == Busy(w) /\ snap[w][h] = None

\* Why a confirmed host was missed twice.  A busy pass whose panel_map lacks
\* the host has seen one answer without it; so has whoever put the host into
\* _pending_extra; and these answers were different ones.
Evidence ==
    /\ \A w \in Workers : \A h \in extra[w] : Lacks(w, h)
    /\ \A h \in pending : misses[h] >= 1
    /\ \A w \in Workers, h \in Hosts : Lacks(w, h) => misses[h] >= 1
    /\ \A w \in Workers : \A h \in pending : Lacks(w, h) => misses[h] = 2
    /\ \A v, w \in Workers, h \in Hosts :
          v # w /\ Lacks(v, h) /\ Lacks(w, h) => misses[h] = 2

IInv == Typed /\ Evidence /\ CollectConfirmed

LEMMA InitEvidence == Init => Evidence /\ CollectConfirmed
BY DEF Init, Evidence, CollectConfirmed, Lacks, Busy, Actors

\* A step that starts no pass and leaves _pending_extra and what the passes
\* know alone, but for those that end.
LEMMA EvidenceKept ==
    ASSUME IInv, Typed',
           UNCHANGED <<pending, misses>>,
           \A w \in Workers :
              /\ Busy(w)' => Busy(w) /\ snap'[w] = snap[w]
              /\ extra'[w] = {} \/ (Busy(w)' /\ extra'[w] = extra[w])
              /\ doomed'[w] \subseteq doomed[w]
    PROVE  IInv'
BY DEF IInv, Evidence, CollectConfirmed, Lacks

\* Another answer of the panel.
LEMMA FetchEvidence ==
    ASSUME IInv, NEW w \in Workers, Fetch(w)
    PROVE  Evidence' /\ CollectConfirmed'
<1> USE DEF IInv, Typed, TypeOK
<1>1. PICK answer \in {panel} \cup (IF calm THEN {} ELSE {NoEntries}) :
          /\ snap' = [snap EXCEPT ![w] = PanelMap(answer)]
          /\ misses' = [h \in Hosts |->
                          IF PanelMap(answer)[h] = None /\ misses[h] < 2
                          THEN misses[h] + 1
                          ELSE misses[h]]
    BY DEF Fetch
<1>2. \A h \in Hosts :
          /\ misses[h] \in 0..2 /\ misses'[h] \in 0..2
          /\ misses'[h] >= misses[h]
          /\ snap'[w][h] = None => misses'[h] = 2 \/ misses'[h] = misses[h] + 1
    BY <1>1
<1>3. \A v \in Workers \ {w}, h \in Hosts : Lacks(v, h)' <=> Lacks(v, h)
    BY <1>1 DEF Fetch, GoTo, Lacks, Busy, Actors
<1>4. ~Busy(w) /\ extra[w] = {}
    BY DEF Fetch, Busy, Evidence, Lacks
<1>5. UNCHANGED <<pending, extra, doomed>>
    BY DEF Fetch
<1>6. \A h \in Hosts : Lacks(w, h)' => misses'[h] >= 1
    BY <1>2 DEF Lacks
<1>7. Evidence'
    <2>1. \A v \in Workers : \A h \in extra'[v] : Lacks(v, h)'
        BY <1>3, <1>4, <1>5 DEF Evidence
    <2>2. \A h \in pending' : misses'[h] >= 1
        BY <1>2, <1>5 DEF Evidence
    <2>3. \A v \in Workers, h \in Hosts : Lacks(v, h)' => misses'[h] >= 1
        BY <1>2, <1>3, <1>6 DEF Evidence
    <2>4. \A v \in Workers : \A h \in pending' : Lacks(v, h)' => misses'[h] = 2
        BY <1>2, <1>3, <1>5 DEF Evidence, Lacks
    <2>5. \A u, v \in Workers, h \in Hosts :
              u # v /\ Lacks(u, h)' /\ Lacks(v, h)' => misses'[h] = 2
        BY <1>2, <1>3 DEF Evidence, Lacks
    <2> QED
        BY <2>1, <2>2, <2>3, <2>4, <2>5 DEF Evidence
<1>8. CollectConfirmed'
    BY <1>2, <1>5 DEF CollectConfirmed
<1> QED
    BY <1>7, <1>8

\* The comparison with Caddy's routes, and the choice of what to delete.
LEMMA CompareEvidence ==
    ASSUME IInv, NEW w \in Workers, List(w) \/ Confirm(w)
    PROVE  Evidence' /\ CollectConfirmed'
<1> USE DEF IInv, Typed, TypeOK
<1>1. \A v \in Workers, h \in Hosts : Lacks(v, h)' <=> Lacks(v, h)
    BY DEF List, Confirm, GoTo, Lacks, Busy, Actors
<1>2. CASE List(w)
    <2>1. extra' \in [Workers -> SUBSET Hosts]
        BY <1>2 DEF List, Extra
    <2>2. \A h \in extra'[w] : Lacks(w, h)
        BY <1>2 DEF List, Extra, Lacks, Busy
    <2>3. \A v \in Workers \ {w} : extra'[v] = extra[v]
        BY <1>2 DEF List
    <2> QED
        BY <1>1, <1>2, <2>1, <2>2, <2>3 DEF List, Evidence, CollectConfirmed
<1>3. CASE Confirm(w)
    <2>1. Evidence'
        BY <1>1, <1>3 DEF Confirm, Evidence
    <2>2. \A h \in doomed'[w] : misses[h] = 2
        BY <1>3 DEF Confirm, Evidence
    <2> QED
        BY <1>3, <2>1, <2>2 DEF Confirm, CollectConfirmed
<1> QED
    BY <1>2, <1>3

\* _pending_extra = set(extra)
LEMMA FinishEvidence ==
    ASSUME IInv, NEW w \in Workers, Finish(w)
    PROVE  Evidence' /\ CollectConfirmed'
<1> USE DEF IInv, Typed, TypeOK, Finish
<1>1. ~Busy(w)'
    BY DEF EndPass, GoTo, Busy, Actors
<1>2. \A v \in Workers \ {w} : /\ Busy(v)' <=> Busy(v)
                               /\ snap'[v] = snap[v]
                               /\ extra'[v] = extra[v]
                               /\ doomed'[v] = doomed[v]
    BY DEF EndPass, GoTo, Busy, Actors
<1>3. extra'[w] = {} /\ doomed'[w] = {}
    BY DEF EndPass
<1>4. \A h \in pending' : Lacks(w, h) /\ h \in Hosts
    BY DEF Evidence
<1>5. Evidence'
    BY <1>1, <1>2, <1>3, <1>4 DEF Evidence, Lacks
<1>6. CollectConfirmed'
    BY <1>2, <1>3 DEF CollectConfirmed
<1> QED
    BY <1>5, <1>6

\* Every other step of a pass.
LEMMA PassEvidence ==
    ASSUME IInv, Typed', NEW w \in Workers, Pass(w)
    PROVE  IInv'
<1> USE DEF Typed, TypeOK, Busy, Actors
<1>1. CASE FetchFails(w) \/ Lost(w)
    <2>1. EndPass(w) /\ UNCHANGED <<pending, misses>>
        BY <1>1 DEF FetchFails, Lost, Abandon
    <2>2. \A v \in Workers :
              /\ Busy(v)' => Busy(v) /\ snap'[v] = snap[v]
              /\ extra'[v] = {} \/ (v # w /\ extra'[v] = extra[v])
              /\ doomed'[v] \subseteq doomed[v]
        BY <2>1 DEF EndPass, GoTo, IInv
    <2>3. \A v \in Workers \ {w} : extra[v] = {} \/ Busy(v)'
        BY <2>1 DEF EndPass, GoTo, IInv, Evidence, Lacks
    <2> QED
        BY <2>1, <2>2, <2>3, EvidenceKept
<1>2. CASE ReadForPrune(w) \/ WritePruned(w) \/ PushDelete(w) \/ PushInsert(w) \/ Collect(w)
    <2>1. UNCHANGED <<snap, pending, extra, misses>>
        BY <1>2 DEF ReadForPrune, WritePruned, PushDelete, PushInsert, Collect, passVars
    <2>2. \A v \in Workers : Busy(v)' <=> Busy(v)
        BY <1>2 DEF ReadForPrune, WritePruned, PushDelete, PushInsert, Collect, GoTo, IInv
    <2>3. \A v \in Workers : doomed'[v] \subseteq doomed[v]
        BY <1>2 DEF ReadForPrune, WritePruned, PushDelete, PushInsert, Collect, passVars, IInv
    <2>4. \A v \in Workers : extra[v] = {} \/ Busy(v)
        BY DEF IInv, Evidence, Lacks
    <2> QED
        BY <2>1, <2>2, <2>3, <2>4, EvidenceKept
<1>3. CASE Fetch(w) \/ List(w) \/ Confirm(w) \/ Finish(w)
    BY <1>3, FetchEvidence, CompareEvidence, FinishEvidence DEF IInv
<1> QED
    BY <1>1, <1>2, <1>3 DEF Pass

\* A step of an API thread or of the outside world.
LEMMA OtherEvidence ==
    ASSUME IInv, Typed',
           \/ \E c \in Callers : ApiUpsert(c) \/ ApiInsert(c) \/ ApiDelete(c)
           \/ PanelChange \/ CaddyReload \/ AgentRestart \/ Settle
           \/ UNCHANGED vars
    PROVE  IInv'
<1>1. CASE AgentRestart
    <2>1. Evidence' /\ CollectConfirmed'
        BY <1>1 DEF AgentRestart, Evidence, CollectConfirmed, Lacks, Busy, Actors
    <2> QED
        BY <2>1 DEF IInv
<1>2. CASE \/ \E c \in Callers : ApiUpsert(c) \/ ApiInsert(c) \/ ApiDelete(c)
           \/ PanelChange \/ CaddyReload \/ Settle \/ UNCHANGED vars
    <2>1. UNCHANGED <<snap, pending, extra, doomed, misses>>
        BY <1>2 DEF ApiUpsert, ApiInsert, ApiDelete, PanelChange, CaddyReload, Settle,
                    vars, passVars
    <2>2. \A v \in Workers : UNCHANGED pc[v]
        BY <1>2, IngressAssumption
           DEF ApiUpsert, ApiInsert, ApiDelete, PanelChange, CaddyReload, Settle,
               vars, GoTo, Workers, Actors, IInv, Typed, TypeOK
    <2>3. \A v \in Workers : extra[v] = {} \/ Busy(v)
        BY DEF IInv, Evidence, Lacks
    <2> QED
        BY <2>1, <2>2, <2>3, EvidenceKept DEF Busy
<1> QED
    BY <1>1, <1>2

\* reconcile_once deletes a route only after two answers without its host,
\* whatever passes overlap and whichever of them fail.
THEOREM ConfirmedDeletions == Spec => []CollectConfirmed
<1>1. Init => IInv
    BY InitTyped, InitEvidence DEF IInv
<1>2. IInv /\ [Next]_vars => IInv'
    <2> SUFFICES ASSUME IInv, [Next]_vars PROVE IInv'
        OBVIOUS
    <2>1. Typed'
        BY StepTyped DEF IInv
    <2> QED
        BY <2>1, PassEvidence, OtherEvidence DEF Next
<1>3. IInv => CollectConfirmed
    BY DEF IInv
<1> QED
    BY <1>1, <1>2, <1>3, PTL DEF Spec
=============================================================================
