------------------------------ MODULE Ingress ------------------------------
(***************************************************************************)
(* The route plane of the ingress: the panel's list of hostnames, the      *)
(* routes Caddy holds, and everybody who writes them through Caddy's admin *)
(* API on localhost:                                                       *)
(*                                                                         *)
(*   - the drift-check loop (reconcile_loop), which runs reconcile_once    *)
(*     for ever;                                                           *)
(*   - the start-up pass (startup_reconcile), which runs reconcile_once    *)
(*     once, at the same time as the loop's first passes;                  *)
(*   - the threads that serve POST /v1/ingress/upsert and .../delete.      *)
(*                                                                         *)
(* One action is one request to Caddy or to the panel, with the local      *)
(* computation that follows it: there is no lock between these threads,    *)
(* so any two requests interleave.  A request can be refused (a CaddyError *)
(* is raised: unreachable, or an unexpected status) or be lost (another    *)
(* exception, such as a read time-out: the request may or may not have     *)
(* been carried out).                                                      *)
(*                                                                         *)
(* Hostnames are compared in lower case everywhere in the code, so a host  *)
(* stands for all its spellings.  Routes of different hosts never match    *)
(* the same request, so the list of routes is kept per host, in the order  *)
(* of Caddy's list.                                                        *)
(***************************************************************************)
EXTENDS Naturals, Sequences

CONSTANTS
    Hosts,       \* hostnames the panel may list
    Listable,    \* those whose route id matches ROUTE_ID_RE
    Upstreams,   \* values of upstream_dial
    None,        \* no upstream
    Incomplete,  \* entries of the panel without upstream_dial
    Callers,     \* threads that serve the ingress API
    UniqueIds    \* TRUE: Caddy refuses a configuration with an @id twice

ASSUME IngressAssumption ==
    /\ Listable \subseteq Hosts
    /\ None \notin Upstreams
    /\ Incomplete \cap (Upstreams \cup {None}) = {}
    /\ UniqueIds \in BOOLEAN
    /\ Callers \cap {"startup", "loop"} = {}

Workers == {"startup", "loop"}   \* the two threads that run reconcile_once
Actors  == Workers \cup Callers

VARIABLES
    panel,    \* what GET /api/agents/ingress-state would list now
    calm,     \* the outside world has stopped disturbing the agent
    table,    \* Caddy: per host, the upstreams of its routes, in list order
    stray,    \* Caddy: srv0 holds a route without the shproject- prefix
    pending,  \* _pending_extra
    pc,       \* where each actor is
    snap,     \* panel_map of each pass
    todo,     \* hosts a pass has still to upsert
    extra,    \* hosts a pass found in Caddy and not in panel_map
    doomed,   \* hosts a pass has still to delete
    job,      \* arguments of the upsert_route call an actor is inside of
    kept,     \* the routes _prune_stray_routes is about to write back
    misses    \* history: answers without the host in this process, up to 2

caddy    == <<table, stray>>
passVars == <<snap, todo, extra, doomed, kept>>
vars     == <<panel, calm, table, stray, pending, pc, snap, todo, extra,
              doomed, job, kept, misses>>

-----------------------------------------------------------------------------
(* Values *)

Entries   == [Hosts -> Upstreams \cup {None} \cup Incomplete]
Maps      == [Hosts -> Upstreams \cup {None}]
Tables    == [Hosts -> Seq(Upstreams)]
NoEntries == [h \in Hosts |-> None]
NoRoutes  == [h \in Hosts |-> <<>>]
NoJob     == [host |-> None, dial |-> None]
Jobs      == [host : Hosts, dial : Upstreams] \cup {NoJob}

\* Mutant of PanelMap: incomplete entries are kept.
PanelMapUnfiltered(answer) == answer

\* panel_map: entries that lack one of their two fields are dropped.
PanelMap(answer) ==
    [h \in Hosts |-> IF answer[h] \in Incomplete THEN None ELSE answer[h]]

\* The upstream that traffic for h reaches: Caddy takes the first match.
Served(h) == IF table[h] = <<>> THEN None ELSE Head(table[h])

\* list_managed_routes: ids that do not match ROUTE_ID_RE are skipped, and a
\* later route of a host overwrites an earlier one in the dictionary.
Listed(h) == IF h \notin Listable \/ table[h] = <<>>
             THEN None
             ELSE table[h][Len(table[h])]

\* DELETE /id/<id>: Caddy's index keeps the last object that has the id.
Deleted(t, h) ==
    [t EXCEPT ![h] = IF @ = <<>> THEN @ ELSE SubSeq(@, 1, Len(@) - 1)]

\* POST .../routes/0
Refused(t, h)     == UniqueIds /\ t[h] # <<>>
Inserted(t, h, d) == [t EXCEPT ![h] = <<d>> \o @]

-----------------------------------------------------------------------------
Init ==
    /\ panel \in Entries
    /\ calm = FALSE
    /\ table \in [Hosts -> {<<>>} \cup {<<d>> : d \in Upstreams}]
    /\ stray \in BOOLEAN
    /\ pending = {}
    /\ pc = [a \in Actors |-> "idle"]
    /\ snap = [w \in Workers |-> NoEntries]
    /\ todo = [w \in Workers |-> {}]
    /\ extra = [w \in Workers |-> {}]
    /\ doomed = [w \in Workers |-> {}]
    /\ job = [a \in Actors |-> NoJob]
    /\ kept = [w \in Workers |-> NoRoutes]
    /\ misses = [h \in Hosts |-> 0]

GoTo(a, label) == pc' = [pc EXCEPT ![a] = label]

-----------------------------------------------------------------------------
(* reconcile_once, as run by worker w *)

\* Return to the loop, or end the start-up task.  The locals are gone.
EndPass(w) ==
    /\ GoTo(w, IF w = "loop" THEN "idle" ELSE "off")
    /\ snap' = [snap EXCEPT ![w] = NoEntries]
    /\ todo' = [todo EXCEPT ![w] = {}]
    /\ extra' = [extra EXCEPT ![w] = {}]
    /\ doomed' = [doomed EXCEPT ![w] = {}]
    /\ kept' = [kept EXCEPT ![w] = NoRoutes]
    /\ job' = [job EXCEPT ![w] = NoJob]

\* An exception that reconcile_once does not catch, or an early return: the
\* pass ends and _pending_extra stays as it was.
Abandon(w) ==
    /\ ~calm
    /\ EndPass(w)
    /\ UNCHANGED <<panel, calm, pending, misses>>

\* fetch_panel_state: an answer that is not a JSON object, or that has no
\* entries, reads as an empty list.
Fetch(w) ==
    /\ pc[w] = "idle"
    /\ \E answer \in {panel} \cup (IF calm THEN {} ELSE {NoEntries}) :
         /\ snap' = [snap EXCEPT ![w] = PanelMap(answer)]
         /\ misses' = [h \in Hosts |->
                         IF PanelMap(answer)[h] = None /\ misses[h] < 2
                         THEN misses[h] + 1
                         ELSE misses[h]]
    /\ GoTo(w, "mode")
    /\ UNCHANGED <<panel, calm, caddy, pending, todo, extra, doomed, job, kept>>

\* No token, HTTP error or unreachable panel.  The loop tries again later;
\* the start-up pass is not repeated.
FetchFails(w) ==
    /\ pc[w] = "idle"
    /\ Abandon(w)
    /\ UNCHANGED caddy

\* configure_caddy_mode ends in _prune_stray_routes, which reads all routes.
\* When an earlier request of configure_caddy_mode fails it is not reached.
ReadForPrune(w) ==
    /\ pc[w] = "mode"
    /\ \/ /\ stray
          /\ kept' = [kept EXCEPT ![w] = table]
          /\ GoTo(w, "patch")
       \/ /\ ~stray \/ ~calm
          /\ GoTo(w, "list")
          /\ UNCHANGED kept
    /\ UNCHANGED <<panel, calm, caddy, pending, snap, todo, extra, doomed,
                   job, misses>>

\* The PATCH writes back the managed routes that were read before, whatever
\* the list holds by now.  Its status is not looked at.
WritePruned(w) ==
    /\ pc[w] = "patch"
    /\ \/ table' = kept[w] /\ stray' = FALSE
       \/ ~calm /\ UNCHANGED caddy
    /\ kept' = [kept EXCEPT ![w] = NoRoutes]
    /\ GoTo(w, "list")
    /\ UNCHANGED <<panel, calm, pending, snap, todo, extra, doomed, job, misses>>

\* Mutant of Missing: a host that is routed anywhere is not looked at again.
MissingUnrouted(w, cur) == {h \in Hosts : snap[w][h] # None /\ cur[h] = None}

\* What the comparison of panel_map with the listed routes finds.
Missing(w, cur) == {h \in Hosts : snap[w][h] # None /\ cur[h] # snap[w][h]}
Extra(w, cur)   == {h \in Hosts : snap[w][h] = None /\ cur[h] # None}

\* list_managed_routes and the comparison with panel_map.  A status other
\* than 200 or an unreadable body counts as no routes at all.
List(w) ==
    /\ pc[w] = "list"
    /\ \E cur \in {[h \in Hosts |-> Listed(h)]} \cup
                  (IF calm THEN {} ELSE {NoEntries}) :
         /\ todo' = [todo EXCEPT ![w] = Missing(w, cur)]
         /\ extra' = [extra EXCEPT ![w] = Extra(w, cur)]
    /\ GoTo(w, "push")
    /\ UNCHANGED <<panel, calm, caddy, pending, snap, doomed, job, kept, misses>>

\* upsert_route for one missing host, first half: DELETE the old route.
PushDelete(w) ==
    /\ pc[w] = "push"
    /\ \E h \in todo[w] :
         /\ todo' = [todo EXCEPT ![w] = @ \ {h}]
         /\ \/ /\ table' = Deleted(table, h)
               /\ job' = [job EXCEPT ![w] = [host |-> h, dial |-> snap[w][h]]]
               /\ GoTo(w, "insert")
            \/ /\ ~calm                       \* CaddyError: next host
               /\ UNCHANGED <<table, job, pc>>
    /\ UNCHANGED <<panel, calm, stray, pending, snap, extra, doomed, kept,
                   misses>>

\* upsert_route, second half: POST the new route.  A CaddyError is noted in
\* errors and the pass goes on with the next host.
PushInsert(w) ==
    /\ pc[w] = "insert"
    /\ \/ /\ ~Refused(table, job[w].host)
          /\ table' = Inserted(table, job[w].host, job[w].dial)
       \/ /\ Refused(table, job[w].host) \/ ~calm
          /\ UNCHANGED table
    /\ job' = [job EXCEPT ![w] = NoJob]
    /\ GoTo(w, "push")
    /\ UNCHANGED <<panel, calm, stray, pending, passVars, misses>>

\* Mutant of Confirm: every extra is deleted at once.
ConfirmAtOnce(w) ==
    /\ pc[w] = "push"
    /\ todo[w] = {}
    /\ doomed' = [doomed EXCEPT ![w] = extra[w]]
    /\ GoTo(w, "collect")
    /\ UNCHANGED <<panel, calm, caddy, pending, snap, todo, extra, job, kept,
                   misses>>

\* All upserts done: the extras that _pending_extra already holds are
\* confirmed and will be deleted, the others are deferred.
Confirm(w) ==
    /\ pc[w] = "push"
    /\ todo[w] = {}
    /\ doomed' = [doomed EXCEPT ![w] = extra[w] \cap pending]
    /\ GoTo(w, "collect")
    /\ UNCHANGED <<panel, calm, caddy, pending, snap, todo, extra, job, kept,
                   misses>>

\* delete_route for one confirmed host.
Collect(w) ==
    /\ pc[w] = "collect"
    /\ \E h \in doomed[w] :
         /\ doomed' = [doomed EXCEPT ![w] = @ \ {h}]
         /\ \/ table' = Deleted(table, h)
            \/ ~calm /\ UNCHANGED table       \* CaddyError: next host
    /\ UNCHANGED <<panel, calm, stray, pending, pc, snap, todo, extra, job,
                   kept, misses>>

\* _pending_extra = set(extra), then the drift report and the return.
Finish(w) ==
    /\ pc[w] = "collect"
    /\ doomed[w] = {}
    /\ pending' = extra[w]
    /\ EndPass(w)
    /\ UNCHANGED <<panel, calm, caddy, misses>>

\* A request of the pass is lost: an exception other than CaddyError leaves
\* reconcile_once, and Caddy may have carried the request out.
Lost(w) ==
    /\ Abandon(w)
    /\ \/ /\ pc[w] \in {"mode", "list"}
          /\ UNCHANGED caddy
       \/ /\ pc[w] = "patch"
          /\ \/ UNCHANGED caddy
             \/ table' = kept[w] /\ stray' = FALSE
       \/ /\ pc[w] = "push"
          /\ \E h \in todo[w] : table' \in {table, Deleted(table, h)}
          /\ UNCHANGED stray
       \/ /\ pc[w] = "insert"
          /\ \/ UNCHANGED table
             \/ /\ ~Refused(table, job[w].host)
                /\ table' = Inserted(table, job[w].host, job[w].dial)
          /\ UNCHANGED stray
       \/ /\ pc[w] = "collect"
          /\ \E h \in doomed[w] : table' \in {table, Deleted(table, h)}
          /\ UNCHANGED stray

Pass(w) ==
    \/ Fetch(w) \/ FetchFails(w) \/ ReadForPrune(w) \/ WritePruned(w)
    \/ List(w) \/ PushDelete(w) \/ PushInsert(w) \/ Confirm(w) \/ Collect(w)
    \/ Finish(w) \/ Lost(w)

-----------------------------------------------------------------------------
(* The ingress API, as served by thread c *)

\* POST /v1/ingress/upsert up to upsert_route's DELETE.  HOSTNAME_RE accepts
\* only hosts whose id ROUTE_ID_RE matches too.
ApiUpsert(c) ==
    /\ ~calm
    /\ pc[c] = "idle"
    /\ \E h \in Listable, d \in Upstreams :
         /\ table' = Deleted(table, h)
         /\ job' = [job EXCEPT ![c] = [host |-> h, dial |-> d]]
    /\ GoTo(c, "insert")
    /\ UNCHANGED <<panel, calm, stray, pending, passVars, misses>>

\* upsert_route's POST and the answer, whether it is 200 or 502.
ApiInsert(c) ==
    /\ pc[c] = "insert"
    /\ \/ /\ ~Refused(table, job[c].host)
          /\ table' = Inserted(table, job[c].host, job[c].dial)
       \/ /\ Refused(table, job[c].host) \/ ~calm
          /\ UNCHANGED table
    /\ job' = [job EXCEPT ![c] = NoJob]
    /\ GoTo(c, "idle")
    /\ UNCHANGED <<panel, calm, stray, pending, passVars, misses>>

\* POST /v1/ingress/delete: one request.  It also stands for an upsert whose
\* DELETE was carried out but whose answer was lost.
ApiDelete(c) ==
    /\ ~calm
    /\ pc[c] = "idle"
    /\ \E h \in Listable : table' = Deleted(table, h)
    /\ UNCHANGED <<panel, calm, stray, pending, pc, passVars, job, misses>>

-----------------------------------------------------------------------------
(* The outside world *)

\* A project is published, moved or withdrawn in the panel.
PanelChange ==
    /\ ~calm
    /\ \E h \in Hosts, e \in Upstreams \cup {None} \cup Incomplete :
         panel' = [panel EXCEPT ![h] = e]
    /\ UNCHANGED <<calm, caddy, pending, pc, passVars, job, misses>>

\* Caddy comes back with the configuration of its file: routes that were
\* added through the admin API are gone, the file's own routes are back.
CaddyReload ==
    /\ ~calm
    /\ table' = NoRoutes
    /\ stray' = TRUE
    /\ UNCHANGED <<panel, calm, pending, pc, passVars, job, misses>>

\* The agent is killed and started again (systemd, self-update).  All its
\* threads and _pending_extra are lost.  The start-up hook calls
\* configure_caddy_mode(False) before it starts the two reconcile tasks, so
\* nobody else writes while that call prunes.
AgentRestart ==
    /\ ~calm
    /\ pc' = [a \in Actors |-> "idle"]
    /\ snap' = [w \in Workers |-> NoEntries]
    /\ todo' = [w \in Workers |-> {}]
    /\ extra' = [w \in Workers |-> {}]
    /\ doomed' = [w \in Workers |-> {}]
    /\ kept' = [w \in Workers |-> NoRoutes]
    /\ job' = [a \in Actors |-> NoJob]
    /\ pending' = {}
    /\ misses' = [h \in Hosts |-> 0]
    /\ stray' \in {stray, FALSE}
    /\ UNCHANGED <<panel, calm, table>>

\* From here on the panel's list is fixed, requests are answered and the
\* API is not called.
Settle ==
    /\ calm' = TRUE
    /\ UNCHANGED <<panel, caddy, pending, pc, passVars, job, misses>>

-----------------------------------------------------------------------------
Next ==
    \/ \E w \in Workers : Pass(w)
    \/ \E c \in Callers : ApiUpsert(c) \/ ApiInsert(c) \/ ApiDelete(c)
    \/ PanelChange \/ CaddyReload \/ AgentRestart \/ Settle

Spec == Init /\ [][Next]_vars

\* The threads of the agent keep running: every request has a time-out, the
\* loop sleeps for two minutes at most, and a handler that was started ends.
Fairness ==
    /\ \A w \in Workers : WF_vars(Pass(w))
    /\ \A c \in Callers : WF_vars(ApiInsert(c))

FairSpec == Spec /\ Fairness

-----------------------------------------------------------------------------
(* Properties *)

Labels == {"idle", "off", "mode", "patch", "list", "push", "insert", "collect"}

\* Every variable has its type.  In particular only dials the panel or the
\* API named reach Caddy: an entry of the panel without upstream_dial never
\* becomes a route.
TypeOK ==
    /\ panel \in Entries
    /\ calm \in BOOLEAN
    /\ table \in Tables
    /\ stray \in BOOLEAN
    /\ pending \subseteq Hosts
    /\ pc \in [Actors -> Labels]
    /\ snap \in [Workers -> Maps]
    /\ todo \in [Workers -> SUBSET Hosts]
    /\ extra \in [Workers -> SUBSET Hosts]
    /\ doomed \in [Workers -> SUBSET Hosts]
    /\ job \in [Actors -> Jobs]
    /\ kept \in [Workers -> Tables]
    /\ misses \in [Hosts -> 0..2]

\* reconcile_once deletes a route only after two answers of the panel to
\* this process did not list its host: one empty or garbled answer never
\* takes a route down, although the start-up pass and the loop share
\* _pending_extra and overlap freely.
CollectConfirmed ==
    \A w \in Workers : \A h \in doomed[w] : misses[h] = 2

\* Caddy serves exactly what the panel lists.
InSync == \A h \in Hosts : Served(h) = PanelMap(panel)[h]

\* Once the outside world is quiet the routes end up as the panel lists them,
\* and stay so ("reflect the ingress state the panel expects onto Caddy"),
\* whatever races, failures and restarts went before.
Converges == <>[]calm => <>[]InSync

\* _prune_stray_routes removes stray routes and no managed one: a hostname that
\* is routed when the pruned list is written back is routed afterwards.
PruneKeepsManaged ==
    [][\A w \in Workers : WritePruned(w) =>
         \A h \in Hosts : table[h] # <<>> => table'[h] # <<>>]_vars

=============================================================================
