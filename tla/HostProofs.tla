----------------------------- MODULE HostProofs -----------------------------
(***************************************************************************)
(* Proofs about Host, for any number of threads and VMs.                   *)
(***************************************************************************)
EXTENDS Host, TLAPS

-----------------------------------------------------------------------------
(* What the commands make of the VMs *)

VmMaps == [Vmids -> VMs \cup {None}]
Makers == Threads \cup {"done", None}

\* The VM v is the one that t has made, and ms of it are in place.
Has(t, v, ms) ==
    vm[v] # None /\ vm[v].made["clone"] = t /\ \A m \in ms : vm[v].made[m] # None

LEMMA Apart == None \notin VMs /\ None \notin Threads /\ None # "done" /\ "done" \notin Threads
BY ProxmoxAssumption

LEMMA FreshTyped ==
    ASSUME NEW t \in Threads, NEW l \in BOOLEAN
    PROVE  /\ Fresh(t) \in VMs /\ Fresh(t).made["clone"] = t
           /\ ~Fresh(t).locked /\ ~Fresh(t).running
           /\ \A m \in Makings : Fresh(t).made[m] \in {t, None}
           /\ [Fresh(t) EXCEPT !.locked = l] \in VMs /\ ~[Fresh(t) EXCEPT !.locked = l].running
           /\ [Fresh(t) EXCEPT !.locked = l].made = Fresh(t).made
<1>1. /\ Fresh(t) \in VMs /\ Fresh(t).made["clone"] = t /\ ~Fresh(t).locked /\ ~Fresh(t).running
      /\ \A m \in Makings : Fresh(t).made[m] \in {t, None}
    BY DEF Fresh, VMs, Makings
<1> QED
    BY <1>1 DEF VMs

LEMMA CompleteTyped == Complete \in VMs /\ [Complete EXCEPT !.running = TRUE] \in VMs
<1>1. Complete \in VMs
    BY DEF Complete, VMs
<1> QED
    BY <1>1 DEF VMs

LEMMA MadeTyped ==
    ASSUME vm \in VmMaps, NEW v \in Vmids, vm[v] # None, NEW m \in Makings, NEW t \in Threads
    PROVE  /\ Made(v, m, t) \in VmMaps
           /\ \A w \in Vmids : w # v => Made(v, m, t)[w] = vm[w]
           /\ Made(v, m, t)[v] # None
           /\ Made(v, m, t)[v].made = [vm[v].made EXCEPT ![m] = t]
           /\ Made(v, m, t)[v].locked = vm[v].locked
<1>1. vm[v] \in VMs
    BY DEF VmMaps
<1>2. [vm[v].made EXCEPT ![m] = t] \in [Makings -> Makers]
    BY <1>1 DEF VMs, Makers
<1>3. [vm[v] EXCEPT !.made = [vm[v].made EXCEPT ![m] = t]] \in VMs
    BY <1>1, <1>2 DEF VMs, Makers
<1>4. Made(v, m, t) = [vm EXCEPT ![v] = [vm[v] EXCEPT !.made = [vm[v].made EXCEPT ![m] = t]]]
    BY DEF Made
<1>5. /\ [vm[v] EXCEPT !.made = [vm[v].made EXCEPT ![m] = t]].made = [vm[v].made EXCEPT ![m] = t]
      /\ [vm[v] EXCEPT !.made = [vm[v].made EXCEPT ![m] = t]].locked = vm[v].locked
    BY <1>1 DEF VMs
<1> QED
    BY <1>3, <1>4, <1>5, Apart DEF VmMaps

LEMMA RunTyped ==
    ASSUME vm \in VmMaps, NEW v \in Vmids, vm[v] # None, NEW b \in BOOLEAN
    PROVE  /\ [vm EXCEPT ![v].running = b] \in VmMaps
           /\ \A w \in Vmids : w # v => [vm EXCEPT ![v].running = b][w] = vm[w]
           /\ [vm EXCEPT ![v].running = b][v] # None
           /\ [vm EXCEPT ![v].running = b][v].made = vm[v].made
           /\ [vm EXCEPT ![v].running = b][v].locked = vm[v].locked
<1>1. vm[v] \in VMs
    BY DEF VmMaps
<1>2. /\ [vm[v] EXCEPT !.running = b] \in VMs
      /\ [vm[v] EXCEPT !.running = b].made = vm[v].made
      /\ [vm[v] EXCEPT !.running = b].locked = vm[v].locked
    BY <1>1 DEF VMs
<1> QED
    BY <1>2, Apart DEF VmMaps

\* How the VMs are when the requests of ts are over.
Frees(ts, vms) ==
    \A v \in Vmids :
        /\ vms[v] = None <=> vm'[v] = None
        /\ vms[v] # None =>
             /\ vm'[v].locked = vms[v].locked /\ vm'[v].running = vms[v].running
             /\ \A m \in Makings :
                  /\ vm'[v].made[m] = None <=> vms[v].made[m] = None
                  /\ vms[v].made[m] \notin ts => vm'[v].made[m] = vms[v].made[m]
                  /\ vm'[v].made[m] \notin ts
                  /\ vm'[v].made[m] \in {"done", vms[v].made[m]}

LEMMA ReleasedTyped ==
    ASSUME NEW ts \in SUBSET Threads, NEW vms \in VmMaps, Released(ts, vms)
    PROVE  vm' \in VmMaps /\ Frees(ts, vms)
<1> DEFINE rel(v) == [m \in Makings |-> IF vms[v].made[m] \in ts THEN "done" ELSE vms[v].made[m]]
<1>1. \A v \in Vmids : vms[v] # None =>
          /\ vms[v] \in VMs
          /\ rel(v) \in [Makings -> Makers]
          /\ [vms[v] EXCEPT !.made = rel(v)] \in VMs
          /\ [vms[v] EXCEPT !.made = rel(v)].made = rel(v)
          /\ [vms[v] EXCEPT !.made = rel(v)].locked = vms[v].locked
          /\ [vms[v] EXCEPT !.made = rel(v)].running = vms[v].running
    BY DEF VmMaps, VMs, Makers
<1>2. \A v \in Vmids : vm'[v] = IF vms[v] = None THEN None ELSE [vms[v] EXCEPT !.made = rel(v)]
    BY DEF Released
<1>3. vm' \in VmMaps
    <2>1. vm' = [v \in Vmids |-> IF vms[v] = None THEN None ELSE [vms[v] EXCEPT !.made = rel(v)]]
        BY DEF Released
    <2> QED
        BY <1>1, <2>1 DEF VmMaps
<1>4. \A v \in Vmids : vms[v] = None <=> vm'[v] = None
    <2>1. \A v \in Vmids : vms[v] # None => [vms[v] EXCEPT !.made = rel(v)] \in VMs
        BY <1>1
    <2> HIDE DEF rel
    <2> QED
        BY <1>2, <2>1, Apart
<1>5. ASSUME NEW v \in Vmids, vms[v] # None, NEW m \in Makings
      PROVE  /\ vm'[v].made[m] = None <=> vms[v].made[m] = None
             /\ vms[v].made[m] \notin ts => vm'[v].made[m] = vms[v].made[m]
             /\ vm'[v].made[m] \notin ts
             /\ vm'[v].made[m] \in {"done", vms[v].made[m]}
    <2>1. vm'[v].made = rel(v)
        BY <1>1, <1>2, <1>5
    <2> QED
        BY <2>1, Apart
<1>6. \A v \in Vmids : vms[v] # None =>
         vm'[v].locked = vms[v].locked /\ vm'[v].running = vms[v].running
    BY <1>1, <1>2
<1> QED
    BY <1>3, <1>4, <1>5, <1>6 DEF Frees

-----------------------------------------------------------------------------
(* What one thread may do to the VMs *)

\* What a command of u makes of a VM that it finds usable, or absent.
Changes(u, vms) ==
    \/ vms = vm
    \/ \E v \in Vmids :
         \/ /\ vm[v] = None
            /\ \/ vms = [vm EXCEPT ![v] = Fresh(u)]
               \/ \E l \in BOOLEAN : vms = [vm EXCEPT ![v] = [Fresh(u) EXCEPT !.locked = l]]
         \/ /\ Usable(v)
            /\ \/ vms = Started(v) \/ vms = Stopped(v)
               \/ \E m \in Makings \ {"clone"} : vms = Made(v, m, u)

\* A command that changes a VM, that ends its request, or that takes a VM away.
Effect(u) ==
    \/ Changes(u, vm') /\ robbed' = robbed
    \/ \E vms : Changes(u, vms) /\ Released({u}, vms)
    \/ \E v \in Vmids, new \in {None, [Fresh(u) EXCEPT !.locked = TRUE]} :
         (vm[v] # None => ~vm[v].locked /\ ~vm[v].running) /\ Taken(v, new)
    \/ \E v \in Vmids, new \in {None, Fresh(u), R!Filled(u)} :
         /\ vm[v] # None /\ vm[v].made["clone"] = u /\ ~vm[v].running
         /\ vm' = [vm EXCEPT ![v] = new] /\ robbed' = robbed

\* It leaves to the others what they have made, and locked VMs as they are.
Spares(u, vms) ==
    /\ vms \in VmMaps
    /\ \A v \in Vmids : vm[v] # None =>
         /\ vms[v] # None
         /\ vm[v].locked => vms[v] = vm[v]
         /\ vms[v].made["clone"] = vm[v].made["clone"]
         /\ vms[v].locked = vm[v].locked
         /\ \A m \in Makings :
              /\ vm[v].made[m] # None => vms[v].made[m] # None
              /\ vms[v].made[m] \in {u, vm[v].made[m]}
    /\ \A v \in Vmids : vm[v] = None /\ vms[v] # None =>
         ~vms[v].running /\ \A m \in Makings : vms[v].made[m] \in {u, None}

LEMMA FilledTyped ==
    ASSUME NEW t \in Threads
    PROVE  /\ R!Filled(t) \in VMs /\ R!Filled(t).made["clone"] = t
           /\ R!Filled(t).made["sshkey"] = t /\ R!Filled(t).made["resize"] = t
           /\ ~R!Filled(t).locked
           /\ \A m \in Makings : R!Filled(t).made[m] \in {t, None}
<1>1. R!Fresh(t) = Fresh(t)
    BY DEF R!Fresh, Fresh, R!Makings, Makings
<1>2. /\ Fresh(t) \in VMs /\ Fresh(t).made \in [Makings -> Makers]
      /\ Fresh(t).made["clone"] = t /\ ~Fresh(t).locked
      /\ \A m \in Makings : Fresh(t).made[m] \in {t, None}
    BY FreshTyped DEF VMs, Makers
<1>3. R!Filled(t) = [Fresh(t) EXCEPT !.made = [Fresh(t).made EXCEPT !["sshkey"] = t, !["resize"] = t]]
    BY <1>1, <1>2 DEF R!Filled, VMs
<1>4. [Fresh(t).made EXCEPT !["sshkey"] = t, !["resize"] = t] \in [Makings -> Makers]
    BY <1>2 DEF Makers
<1> QED
    BY <1>2, <1>3, <1>4 DEF VMs, Makers, Makings

LEMMA ChangesSpare ==
    ASSUME vm \in VmMaps, NEW u \in Threads, NEW vms, Changes(u, vms)
    PROVE  Spares(u, vms)
<1> USE Apart
<1>1. CASE vms = vm
    BY <1>1 DEF Spares
<1>2. ASSUME NEW v \in Vmids, vm[v] = None, NEW new \in VMs, ~new.running,
             \A m \in Makings : new.made[m] \in {u, None},
             vms = [vm EXCEPT ![v] = new]
      PROVE  Spares(u, vms)
    BY <1>2 DEF Spares, VmMaps
<1>3. ASSUME NEW v \in Vmids, Usable(v), NEW b \in BOOLEAN, vms = [vm EXCEPT ![v].running = b]
      PROVE  Spares(u, vms)
    <2>1. vm[v] # None /\ ~vm[v].locked
        BY <1>3 DEF Usable
    <2>2. /\ vms \in VmMaps
          /\ \A w \in Vmids : w # v => vms[w] = vm[w]
          /\ vms[v] # None /\ vms[v].made = vm[v].made /\ vms[v].locked = vm[v].locked
        <3>1. /\ [vm EXCEPT ![v].running = b] \in VmMaps
              /\ \A w \in Vmids : w # v => [vm EXCEPT ![v].running = b][w] = vm[w]
              /\ [vm EXCEPT ![v].running = b][v] # None
              /\ [vm EXCEPT ![v].running = b][v].made = vm[v].made
              /\ [vm EXCEPT ![v].running = b][v].locked = vm[v].locked
            BY <2>1, RunTyped, Zenon
        <3> QED
            BY <1>3, <3>1
    <2> QED
        BY <2>1, <2>2 DEF Spares
<1>4. ASSUME NEW v \in Vmids, Usable(v), NEW m \in Makings \ {"clone"}, vms = Made(v, m, u)
      PROVE  Spares(u, vms)
    <2>1. vm[v] # None /\ ~vm[v].locked /\ vm[v] \in VMs
        BY <1>4 DEF Usable, VmMaps
    <2>2. /\ vms \in VmMaps
          /\ \A w \in Vmids : w # v => vms[w] = vm[w]
          /\ vms[v] # None /\ vms[v].made = [vm[v].made EXCEPT ![m] = u]
          /\ vms[v].locked = vm[v].locked
        <3>1. vm[v] # None /\ m \in Makings
            BY <1>4, <2>1
        <3>2. /\ Made(v, m, u) \in VmMaps
              /\ \A w \in Vmids : w # v => Made(v, m, u)[w] = vm[w]
              /\ Made(v, m, u)[v] # None
              /\ Made(v, m, u)[v].made = [vm[v].made EXCEPT ![m] = u]
              /\ Made(v, m, u)[v].locked = vm[v].locked
            BY <3>1, MadeTyped, Zenon
        <3> QED
            BY <1>4, <3>2
    <2>3. vm[v].made \in [Makings -> Makers]
        BY <2>1 DEF VMs, Makers
    <2>4. \A k \in Makings : vms[v].made[k] = IF k = m THEN u ELSE vm[v].made[k]
        BY <2>2, <2>3
    <2> QED
        BY <2>1, <2>2, <2>4 DEF Spares, Makings
<1>5. /\ Fresh(u) \in VMs /\ ~Fresh(u).running
      /\ \A l \in BOOLEAN :
           [Fresh(u) EXCEPT !.locked = l] \in VMs /\ ~[Fresh(u) EXCEPT !.locked = l].running
    BY FreshTyped
<1>6. \A l \in BOOLEAN, m \in Makings :
         Fresh(u).made[m] \in {u, None} /\ [Fresh(u) EXCEPT !.locked = l].made[m] \in {u, None}
    BY FreshTyped
<1> QED
    BY <1>1, <1>2, <1>3, <1>4, <1>5, <1>6 DEF Changes, Started, Stopped

-----------------------------------------------------------------------------
(* What the others find afterwards *)

\* A VM that t has made is as it was, or more so, unless t is robbed of it.
Kept(t, v) ==
    vm[v] # None /\ vm[v].made["clone"] = t /\ t \notin robbed' =>
        /\ vm'[v] # None /\ vm'[v].made["clone"] = t
        /\ \A m \in Makings : vm[v].made[m] # None => vm'[v].made[m] # None

\* Only t does anything to a VM in the name of t, and nothing else locks what
\* t has done something to.
Named(t, v) ==
    \A m \in Makings :
        vm'[v] # None /\ vm'[v].made[m] = t =>
            vm[v] # None /\ vm[v].made[m] = t /\ (vm'[v].locked => vm[v].locked)

\* A locked VM in which the thread u has made nothing stays as it is.
Locked(u, v) ==
    vm[v] # None /\ vm[v].locked /\ (\A m \in Makings : vm[v].made[m] # u) => vm'[v] = vm[v]

\* A VM that is being cloned or restored does not run.
Asleep == \A v \in Vmids : vm[v] # None /\ vm[v].locked => ~vm[v].running

LEMMA EffectKeeps ==
    ASSUME vm \in VmMaps, Asleep, robbed \subseteq Threads, NEW u \in Threads, Effect(u)
    PROVE  /\ vm' \in VmMaps /\ Asleep'
           /\ robbed' \subseteq Threads
           /\ \A t \in Threads \ {u} : t \in robbed => t \in robbed'
           /\ \A t \in Threads \ {u}, v \in Vmids : Kept(t, v) /\ Named(t, v)
           /\ \A v \in Vmids : Locked(u, v)
<1> USE Apart
<1>1. CASE Changes(u, vm') /\ robbed' = robbed
    BY <1>1, ChangesSpare DEF Spares, Kept, Named, Locked, Asleep
<1>2. ASSUME NEW vms, Changes(u, vms), Released({u}, vms)
      PROVE  /\ vm' \in VmMaps /\ Asleep'
             /\ robbed' \subseteq Threads
             /\ \A t \in Threads \ {u} : t \in robbed => t \in robbed'
             /\ \A t \in Threads \ {u}, v \in Vmids : Kept(t, v) /\ Named(t, v)
             /\ \A v \in Vmids : Locked(u, v)
    <2>1. Spares(u, vms)
        BY <1>2, ChangesSpare
    <2>2. vms \in VmMaps
        BY <2>1 DEF Spares
    <2>3. vm' \in VmMaps /\ Frees({u}, vms)
        BY <1>2, <2>2, ReleasedTyped, Zenon
    <2>4. robbed' = robbed \ {u}
        BY <1>2 DEF Released
    <2>5. \A t \in Threads \ {u}, v \in Vmids : Kept(t, v) /\ Named(t, v)
        <3> SUFFICES ASSUME NEW t \in Threads \ {u}, NEW v \in Vmids
            PROVE  Kept(t, v) /\ Named(t, v)
            OBVIOUS
        <3>1. Kept(t, v)
            BY <2>1, <2>3 DEF Spares, Frees, Kept, Makings
        <3>2. ASSUME NEW m \in Makings, vm'[v] # None, vm'[v].made[m] = t
              PROVE  vm[v] # None /\ vm[v].made[m] = t /\ (vm'[v].locked => vm[v].locked)
            <4>1. vms[v] # None
                BY <2>3, <3>2 DEF Frees
            <4>2. vms[v].made[m] = t /\ vm'[v].locked = vms[v].locked
                BY <2>3, <3>2, <4>1 DEF Frees
            <4> QED
                BY <2>1, <4>1, <4>2 DEF Spares
        <3> QED
            BY <3>1, <3>2 DEF Named
    <2>6. ASSUME NEW v \in Vmids PROVE Locked(u, v)
        <3> SUFFICES ASSUME vm[v] # None, vm[v].locked, \A m \in Makings : vm[v].made[m] # u
            PROVE  vm'[v] = vm[v]
            BY DEF Locked
        <3>1. vms[v] = vm[v] /\ vm[v] \in VMs
            BY <2>1 DEF Spares, VmMaps
        <3>2. vm'[v] = [vm[v] EXCEPT !.made =
                           [m \in Makings |-> IF vm[v].made[m] \in {u} THEN "done" ELSE vm[v].made[m]]]
            BY <1>2, <3>1 DEF Released
        <3>3. [m \in Makings |-> IF vm[v].made[m] \in {u} THEN "done" ELSE vm[v].made[m]] = vm[v].made
            BY <3>1 DEF VMs
        <3> QED
            BY <3>1, <3>2, <3>3 DEF VMs
    <2>7. Asleep'
        BY <2>1, <2>3 DEF Asleep, Spares, Frees
    <2> QED
        BY <2>3, <2>4, <2>5, <2>6, <2>7
<1>3. ASSUME NEW v \in Vmids, NEW new \in {None, [Fresh(u) EXCEPT !.locked = TRUE]},
             vm[v] # None => ~vm[v].locked /\ ~vm[v].running, Taken(v, new)
      PROVE  /\ vm' \in VmMaps /\ Asleep'
             /\ robbed' \subseteq Threads
             /\ \A t \in Threads \ {u} : t \in robbed => t \in robbed'
             /\ \A t \in Threads \ {u}, w \in Vmids : Kept(t, w) /\ Named(t, w)
             /\ \A w \in Vmids : Locked(u, w)
    <2>1. new = None \/ (new \in VMs /\ ~new.running /\ \A m \in Makings : new.made[m] \in {u, None})
        <3>1. CASE new = [Fresh(u) EXCEPT !.locked = TRUE]
            <4>1. TRUE \in BOOLEAN
                OBVIOUS
            <4>2. new \in VMs /\ ~new.running /\ new.made = Fresh(u).made
                BY <3>1, <4>1, FreshTyped, Zenon
            <4> QED
                BY <4>2, FreshTyped, TRUE \in BOOLEAN
        <3> QED
            BY <1>3, <3>1
    <2>2. /\ vm' = [vm EXCEPT ![v] = new]
          /\ robbed' = robbed \cup ({MakerOf(v)} \cap Threads)
        BY <1>3 DEF Taken
    <2>3. \A w \in Vmids : vm'[w] = IF w = v THEN new ELSE vm[w]
        BY <2>2 DEF VmMaps
    <2>4. vm' \in VmMaps
        BY <2>1, <2>2 DEF VmMaps
    <2>5. \A t \in Threads : vm[v] # None /\ vm[v].made["clone"] = t => t \in robbed'
        BY <2>2 DEF MakerOf
    <2>6. \A t \in Threads \ {u}, w \in Vmids : Kept(t, w) /\ Named(t, w)
        BY <2>1, <2>3, <2>5 DEF Kept, Named
    <2>7. \A w \in Vmids : Locked(u, w)
        BY <1>3, <2>3 DEF Locked
    <2>8. Asleep'
        BY <2>1, <2>3 DEF Asleep
    <2> QED
        BY <2>2, <2>4, <2>6, <2>7, <2>8
<1>4. ASSUME NEW v \in Vmids, NEW new \in {None, Fresh(u), R!Filled(u)},
             vm[v] # None, vm[v].made["clone"] = u, ~vm[v].running,
             vm' = [vm EXCEPT ![v] = new], robbed' = robbed
      PROVE  /\ vm' \in VmMaps /\ Asleep'
             /\ \A t \in Threads \ {u}, w \in Vmids : Kept(t, w) /\ Named(t, w)
             /\ \A w \in Vmids : Locked(u, w)
    <2>1. \/ new = None
          \/ new \in VMs /\ ~new.locked /\ \A m \in Makings : new.made[m] \in {u, None}
        <3>1. CASE new = Fresh(u)
            BY <3>1, FreshTyped
        <3>2. CASE new = R!Filled(u)
            BY <3>2, FilledTyped
        <3> QED
            BY <1>4, <3>1, <3>2
    <2>2. \A w \in Vmids : vm'[w] = IF w = v THEN new ELSE vm[w]
        BY <1>4 DEF VmMaps
    <2>3. vm' \in VmMaps
        BY <1>4, <2>1 DEF VmMaps
    <2> QED
        BY <1>4, <2>1, <2>2, <2>3 DEF Kept, Named, Locked, Makings, Asleep
<1> QED
    BY <1>1, <1>2, <1>3, <1>4 DEF Effect

-----------------------------------------------------------------------------
(* The invariant *)

Earlier(label) ==
    CASE label = "set" -> {} [] label = "sshkey" -> {"set"}
      [] label = "resize" -> {"set", "sshkey"} [] OTHER -> {"set", "sshkey", "resize"}

Making == {"set", "sshkey", "resize", "start"}

Provides(t) ==
    t \notin robbed /\ pc[t] \in Making => Has(t, vmid[t], Earlier(pc[t]))

Restores(t) ==
    /\ phase[t] = "write" => vm[target[t]] = [Fresh(t) EXCEPT !.locked = TRUE]
    /\ t \notin robbed /\ phase[t] \in {"whole", "set", "start"} =>
         Has(t, target[t], {"sshkey", "resize"} \cup (IF phase[t] = "start" THEN {"set"} ELSE {}))

\* What is locked is not the work of a thread outside a restore.
Unlocked(t) ==
    phase[t] = "out" =>
        \A v \in Vmids, m \in Makings : vm[v] # None /\ vm[v].locked => vm[v].made[m] # t

Served == HostTypeOK /\ \A t \in Threads : Provides(t) /\ Restores(t) /\ Unlocked(t)

LEMMA OthersServed ==
    ASSUME Served, NEW u \in Threads, Effect(u), NEW t \in Threads \ {u},
           pc'[t] = pc[t], vmid'[t] = vmid[t], phase'[t] = phase[t], target'[t] = target[t]
    PROVE  Provides(t)' /\ Restores(t)' /\ Unlocked(t)'
<1> USE Apart
<1>1. vm \in VmMaps /\ Asleep /\ robbed \subseteq Threads
    BY DEF Served, HostTypeOK, TypeOK, VmMaps, Asleep
<1>2. /\ t \in robbed => t \in robbed'
      /\ \A v \in Vmids : Kept(t, v) /\ Named(t, v) /\ Locked(u, v)
    BY <1>1, EffectKeeps
<1>3. /\ pc[t] \in Making => vmid[t] \in Vmids
      /\ phase[t] # "out" => target[t] \in Vmids
    BY DEF Served, HostTypeOK, TypeOK, R!Types, Making
<1>4. Provides(t)'
    <2>1. Earlier(pc[t]) \subseteq Makings
        BY DEF Earlier, Makings
    <2> QED
        BY <1>2, <1>3, <2>1 DEF Served, Provides, Has, Kept
<1>5. Restores(t)'
    <2>1. ASSUME phase[t] = "write" PROVE vm'[target[t]] = [Fresh(t) EXCEPT !.locked = TRUE]
        <3> DEFINE locked == [Fresh(t) EXCEPT !.locked = TRUE]
        <3>1. vm[target[t]] = locked
            BY <2>1 DEF Served, Restores
        <3>2. locked \in VMs /\ locked.locked /\ \A m \in Makings : locked.made[m] \in {t, None}
            BY FreshTyped DEF VMs
        <3> HIDE DEF locked
        <3>3. vm'[target[t]] = vm[target[t]]
            BY <1>2, <1>3, <2>1, <3>1, <3>2 DEF Locked
        <3> QED
            BY <3>1, <3>3 DEF locked
    <2>2. ASSUME t \notin robbed', phase[t] \in {"whole", "set", "start"}
          PROVE  Has(t, target[t], {"sshkey", "resize"} \cup (IF phase[t] = "start" THEN {"set"} ELSE {}))'
        <3>1. Has(t, target[t], {"sshkey", "resize"} \cup (IF phase[t] = "start" THEN {"set"} ELSE {}))
            BY <1>2, <2>2 DEF Served, Restores
        <3> QED
            BY <1>2, <1>3, <2>2, <3>1 DEF Has, Kept, Makings
    <2> QED
        BY <2>1, <2>2 DEF Restores
<1>6. Unlocked(t)'
    BY <1>2 DEF Served, Unlocked, Named
<1> QED
    BY <1>4, <1>5, <1>6

-----------------------------------------------------------------------------
(* A step of provision, start, stop or destroy *)

Labels == {"idle", "clone", "set", "sshkey", "resize", "start", "startOnly", "stopOnly", "stop", "destroy"}

\* The thread goes to label with the VMID v.
Goes(u, label, v) ==
    pc' = [pc EXCEPT ![u] = label] /\ vmid' = [vmid EXCEPT ![u] = v]

\* Where u goes, its part of the invariant, and what it does to the VMs.
Serves(u) ==
    /\ \E label \in Labels, v \in Vmids \cup {None} :
         Goes(u, label, v) /\ (label = "idle" <=> v = None)
    /\ Effect(u)
    /\ Provides(u)'
    /\ \A v \in Vmids, m \in Makings : vm'[v] # None /\ vm'[v].locked => vm'[v].made[m] # u

LEMMA GoToGoes ==
    ASSUME vmid \in [Threads -> Vmids \cup {None}], NEW u \in Threads, NEW label, GoTo(u, label)
    PROVE  Goes(u, label, vmid[u])
BY DEF GoTo, Goes

LEMMA AnswerServes ==
    ASSUME Served, NEW u \in Threads, NEW vms, Changes(u, vms), Answer(u, vms)
    PROVE  Serves(u)
<1>1. vm \in VmMaps /\ pc \in [Threads -> Labels]
    BY DEF Served, HostTypeOK, TypeOK, VmMaps, Labels
<1>2. Goes(u, "idle", None) /\ Released({u}, vms) /\ pc'[u] = "idle"
    BY <1>1 DEF Answer, Goes
<1>3. vms \in VmMaps
    BY <1>1, ChangesSpare DEF Spares
<1>4. Frees({u}, vms)
    BY <1>2, <1>3, ReleasedTyped, Zenon
<1>5. Effect(u)
    BY <1>2 DEF Effect
<1>6. Provides(u)'
    BY <1>2 DEF Provides, Making
<1>7. \A v \in Vmids, m \in Makings : vm'[v] # None => vm'[v].made[m] # u
    BY <1>4 DEF Frees
<1> QED
    BY <1>2, <1>5, <1>6, <1>7 DEF Serves, Labels

LEMMA RequestServes ==
    ASSUME Served, NEW u \in Threads, phase[u] = "out", Request(u)
    PROVE  Serves(u)
<1>1. /\ vm \in VmMaps /\ pc \in [Threads -> Labels] /\ vmid \in [Threads -> Vmids \cup {None}]
      /\ Unlocked(u)
    BY DEF Served, HostTypeOK, TypeOK, VmMaps, Labels
<1>2. PICK v \in Vmids, first \in {"clone", "startOnly", "stopOnly", "stop"} : Asks(u, v, first)
    BY DEF Request
<1>3. Goes(u, first, v) /\ vm' = vm /\ robbed' = robbed /\ pc'[u] = first
    BY <1>1, <1>2 DEF Asks, Goes
<1>4. Effect(u)
    BY <1>3 DEF Effect, Changes
<1>5. Provides(u)'
    BY <1>3 DEF Provides, Making
<1>6. \A w \in Vmids, m \in Makings : vm'[w] # None /\ vm'[w].locked => vm'[w].made[m] # u
    BY <1>1, <1>3 DEF Unlocked
<1>7. v # None
    BY ProxmoxAssumption
<1> QED
    BY <1>3, <1>4, <1>5, <1>6, <1>7 DEF Serves, Labels

LEMMA CloneServes ==
    ASSUME Served, NEW u \in Threads, phase[u] = "out", Clone(u)
    PROVE  Serves(u)
<1>1. /\ vm \in VmMaps /\ pc \in [Threads -> Labels] /\ vmid \in [Threads -> Vmids \cup {None}]
      /\ Unlocked(u) /\ vmid[u] \in Vmids
    BY DEF Served, HostTypeOK, TypeOK, VmMaps, Labels, Clone
<1>2. /\ Goes(u, "set", vmid[u]) /\ pc'[u] = "set" /\ vmid'[u] = vmid[u]
      /\ vm[vmid[u]] = None
      /\ vm' = [vm EXCEPT ![vmid[u]] = Fresh(u)] /\ robbed' = robbed
    BY <1>1, GoToGoes DEF Clone, Mine, Goes
<1>3. Effect(u)
    BY <1>1, <1>2 DEF Effect, Changes
<1>4. \A w \in Vmids : vm'[w] = IF w = vmid[u] THEN Fresh(u) ELSE vm[w]
    BY <1>1, <1>2 DEF VmMaps
<1>8. Fresh(u) \in VMs /\ Fresh(u).made["clone"] = u /\ ~Fresh(u).locked
    BY FreshTyped
<1>5. Provides(u)'
    <2>1. Earlier("set") = {}
        BY DEF Earlier
    <2>2. Has(u, vmid[u], {})'
        BY <1>1, <1>2, <1>4, <1>8, Apart DEF Has
    <2> QED
        BY <1>2, <2>1, <2>2 DEF Provides, Has
<1>6. \A w \in Vmids, m \in Makings : vm'[w] # None /\ vm'[w].locked => vm'[w].made[m] # u
    BY <1>1, <1>4, <1>8 DEF Unlocked
<1>7. vmid[u] # None
    BY <1>1, ProxmoxAssumption
<1> QED
    BY <1>1, <1>2, <1>3, <1>5, <1>6, <1>7 DEF Serves, Labels

LEMMA CloneFailsServes ==
    ASSUME Served, NEW u \in Threads, CloneFails(u)
    PROVE  Serves(u)
<1>1. vmid[u] \in Vmids
    BY DEF Served, HostTypeOK, TypeOK, CloneFails
<1>2. CASE Answer(u, vm)
    BY <1>2, AnswerServes DEF Changes
<1>3. ASSUME Mine(u) = None, NEW l \in BOOLEAN,
             Answer(u, [vm EXCEPT ![vmid[u]] = [Fresh(u) EXCEPT !.locked = l]])
      PROVE  Serves(u)
    <2>1. Changes(u, [vm EXCEPT ![vmid[u]] = [Fresh(u) EXCEPT !.locked = l]])
        BY <1>1, <1>3, Zenon DEF Changes, Mine
    <2> QED
        BY <1>3, <2>1, AnswerServes, Zenon
<1> QED
    BY <1>2, <1>3, Zenon DEF CloneFails

LEMMA ConfigureServes ==
    ASSUME Served, NEW u \in Threads, phase[u] = "out", Configure(u)
    PROVE  Serves(u)
<1> SUFFICES ASSUME NEW m, NEW v, m = pc[u], v = vmid[u] PROVE Serves(u)
    OBVIOUS
<1>1. /\ vm \in VmMaps /\ pc \in [Threads -> Labels] /\ vmid \in [Threads -> Vmids \cup {None}]
      /\ Unlocked(u) /\ Provides(u) /\ v \in Vmids /\ m \in {"set", "sshkey", "resize"}
    BY DEF Served, HostTypeOK, TypeOK, VmMaps, Labels, Configure
<1>2. /\ Goes(u, After(m), v) /\ pc'[u] = After(m) /\ vmid'[u] = v
      /\ vm[v] # None /\ ~vm[v].locked
      /\ vm' = Made(v, m, u) /\ robbed' = robbed
    BY <1>1, GoToGoes DEF Configure, Usable, Staged, Goes
<1>3. m \in Makings /\ m # "clone" /\ v # None
    BY <1>1, ProxmoxAssumption DEF Makings
<1>4. Effect(u)
    <2>1. Changes(u, vm')
        BY <1>1, <1>2, <1>3 DEF Changes, Usable
    <2> QED
        BY <1>2, <2>1 DEF Effect
<1>5. /\ \A w \in Vmids : w # v => vm'[w] = vm[w]
      /\ vm'[v] # None
      /\ vm'[v].made = [vm[v].made EXCEPT ![m] = u]
      /\ vm'[v].locked = vm[v].locked
    <2>1. vm \in VmMaps /\ v \in Vmids /\ vm[v] # None /\ m \in Makings /\ u \in Threads
        BY <1>1, <1>2, <1>3
    <2>2. /\ Made(v, m, u) \in VmMaps
          /\ \A w \in Vmids : w # v => Made(v, m, u)[w] = vm[w]
          /\ Made(v, m, u)[v] # None
          /\ Made(v, m, u)[v].made = [vm[v].made EXCEPT ![m] = u]
          /\ Made(v, m, u)[v].locked = vm[v].locked
        BY ONLY <2>1, MadeTyped, Zenon
    <2> QED
        BY <1>2, <2>2
<1>6. Provides(u)'
    <2>1. vm[v].made \in [Makings -> Makers]
        BY <1>1, <1>2 DEF VmMaps, VMs, Makers
    <2>2. \A k \in Makings : vm'[v].made[k] = IF k = m THEN u ELSE vm[v].made[k]
        BY <1>5, <2>1
    <2>3. Earlier(After(m)) = Earlier(m) \cup {m} /\ Earlier(m) \subseteq Makings /\ m \in Making
        BY <1>1 DEF Earlier, After, Makings, Making
    <2>4. u \notin robbed => Has(u, v, Earlier(m))
        BY <1>1, <2>3 DEF Provides
    <2>5. u \notin robbed => Has(u, v, Earlier(m) \cup {m})'
        BY <1>2, <1>3, <1>5, <2>2, <2>3, <2>4, Apart DEF Has, Makings
    <2> QED
        BY <1>2, <2>3, <2>5 DEF Provides
<1>7. \A w \in Vmids, k \in Makings : vm'[w] # None /\ vm'[w].locked => vm'[w].made[k] # u
    BY <1>1, <1>2, <1>5 DEF Unlocked
<1>8. After(m) \in Labels /\ After(m) # "idle"
    BY <1>1 DEF After, Labels
<1> QED
    BY <1>1, <1>2, <1>3, <1>4, <1>6, <1>7, <1>8 DEF Serves

LEMMA ConfigureFailsServes ==
    ASSUME Served, NEW u \in Threads, ConfigureFails(u)
    PROVE  Serves(u)
<1>1. vmid[u] \in Vmids /\ pc[u] \in Makings \ {"clone"}
    BY DEF Served, HostTypeOK, TypeOK, ConfigureFails, Makings
<1>2. Usable(vmid[u]) => Changes(u, Staged(u))
    BY <1>1, Zenon DEF Changes, Staged
<1> QED
    BY <1>2, AnswerServes, Zenon DEF ConfigureFails, Changes

\* qm start and qm stop that end their request, and the requests that end
\* without a change.
LEMMA RunServes ==
    ASSUME Served, NEW u \in Threads,
           Start(u) \/ StartFails(u) \/ Stop(u) \/ StopTimesOut(u) \/ DestroyFails(u)
    PROVE  Serves(u)
<1>1. vmid[u] \in Vmids
    BY DEF Served, HostTypeOK, TypeOK, Start, StartFails, Stop, StopTimesOut, DestroyFails
<1>2. Changes(u, vm) /\ (Usable(vmid[u]) => Changes(u, Started(vmid[u])) /\ Changes(u, Stopped(vmid[u])))
    BY <1>1, Zenon DEF Changes
<1> QED
    BY <1>2, AnswerServes, Zenon DEF Start, StartFails, Stop, StopTimesOut, DestroyFails

LEMMA StopFirstServes ==
    ASSUME Served, NEW u \in Threads, phase[u] = "out", StopFirst(u)
    PROVE  Serves(u)
<1> DEFINE v == vmid[u]
<1>1. /\ vm \in VmMaps /\ pc \in [Threads -> Labels] /\ vmid \in [Threads -> Vmids \cup {None}]
      /\ Unlocked(u) /\ v \in Vmids
    BY DEF Served, HostTypeOK, TypeOK, VmMaps, Labels, StopFirst
<1>2. Goes(u, "destroy", v) /\ pc'[u] = "destroy" /\ robbed' = robbed
    BY <1>1, GoToGoes DEF StopFirst, Goes
<1>3. vm' = vm \/ (vm[v] # None /\ ~vm[v].locked /\ vm' = [vm EXCEPT ![v].running = FALSE])
    BY DEF StopFirst, Usable, Stopped
<1>4. Effect(u)
    <2>1. Changes(u, vm')
        BY <1>1, Zenon DEF StopFirst, Changes
    <2> QED
        BY <1>2, <2>1 DEF Effect
<1>5. Provides(u)'
    BY <1>2 DEF Provides, Making
<1>6. \A w \in Vmids, k \in Makings : vm'[w] # None /\ vm'[w].locked => vm'[w].made[k] # u
    <2>1. CASE vm' = vm
        BY <1>1, <2>1 DEF Unlocked
    <2>2. CASE vm[v] # None /\ ~vm[v].locked /\ vm' = [vm EXCEPT ![v].running = FALSE]
        <3>1. /\ \A w \in Vmids : w # v => [vm EXCEPT ![v].running = FALSE][w] = vm[w]
              /\ [vm EXCEPT ![v].running = FALSE][v].locked = vm[v].locked
            BY <1>1, <2>2, RunTyped, Zenon
        <3> QED
            BY <1>1, <2>2, <3>1 DEF Unlocked
    <2> QED
        BY <1>3, <2>1, <2>2
<1>7. v # None
    BY <1>1, ProxmoxAssumption
<1> QED
    BY <1>1, <1>2, <1>4, <1>5, <1>6, <1>7 DEF Serves, Labels

LEMMA DestroyServes ==
    ASSUME Served, NEW u \in Threads, phase[u] = "out", Destroy(u)
    PROVE  Serves(u)
<1> DEFINE v == vmid[u]
<1>1. /\ vm \in VmMaps /\ pc \in [Threads -> Labels] /\ Unlocked(u) /\ v \in Vmids
    BY DEF Served, HostTypeOK, TypeOK, VmMaps, Labels, Destroy
<1>2. /\ Goes(u, "idle", None) /\ pc'[u] = "idle"
      /\ vm[v] # None => ~vm[v].locked /\ ~vm[v].running
      /\ Taken(v, None)
    BY <1>1 DEF Destroy, Goes, Mine
<1>3. Effect(u)
    BY <1>1, <1>2, Zenon DEF Effect
<1>4. Provides(u)'
    BY <1>2 DEF Provides, Making
<1>5. \A w \in Vmids, k \in Makings : vm'[w] # None /\ vm'[w].locked => vm'[w].made[k] # u
    BY <1>1, <1>2 DEF Unlocked, Taken, VmMaps
<1> QED
    BY <1>2, <1>3, <1>4, <1>5 DEF Serves, Labels

LEMMA StepServes ==
    ASSUME Served, NEW u \in Threads, phase[u] = "out", Request(u) \/ Step(u)
    PROVE  Serves(u)
BY RequestServes, CloneServes, CloneFailsServes, ConfigureServes, ConfigureFailsServes, RunServes,
   StopFirstServes, DestroyServes, Zenon DEF Step

-----------------------------------------------------------------------------
(* A step of a restore *)

\* RestoreJob reads Proxmox as Host does.
LEMMA SameProxmox ==
    /\ \A t : R!Fresh(t) = Fresh(t)
    /\ \A v : R!Usable(v) = Usable(v) /\ R!Started(v) = Started(v) /\ R!MakerOf(v) = MakerOf(v)
    /\ \A v, m, t : R!Made(v, m, t) = Made(v, m, t)
    /\ \A v, new : R!Taken(v, new) <=> Taken(v, new)
    /\ \A ts, vms : R!Released(ts, vms) <=> Released(ts, vms)
    /\ R!Makings = Makings
BY DEF R!Fresh, Fresh, R!Usable, Usable, R!Started, Started, R!MakerOf, MakerOf, R!Made, Made,
       R!Taken, Taken, R!Released, Released, R!Makings, Makings

Phases == {"out", "fetch", "write", "failed", "whole", "cut", "set", "start"}

\* The restore of u goes to label with the VMID v.
Reaches(u, label, v) ==
    phase' = [phase EXCEPT ![u] = label] /\ target' = [target EXCEPT ![u] = v]

Carries(u) ==
    /\ \E label \in Phases, v \in Vmids \cup {None} :
         Reaches(u, label, v) /\ (label = "out" <=> v = None)
    /\ left' \subseteq left \cup {u} /\ (u \in left' => phase'[u] \in R!Undecided)
    /\ Effect(u)
    /\ Restores(u)'
    /\ Unlocked(u)'

LEMMA EnterReaches ==
    ASSUME Served, NEW u \in Threads, NEW label, R!Enter(u, label)
    PROVE  /\ Reaches(u, label, target[u]) /\ phase'[u] = label /\ target'[u] = target[u]
           /\ left' = left
BY DEF R!Enter, Reaches, Served, HostTypeOK, R!Types

LEMMA OverCarries ==
    ASSUME Served, NEW u \in Threads, NEW vms, Changes(u, vms), R!Over(u, vms)
    PROVE  Carries(u)
<1>1. vm \in VmMaps /\ phase \in [Threads -> Phases]
    BY DEF Served, HostTypeOK, TypeOK, VmMaps, R!Types, Phases
<1>2. Reaches(u, "out", None) /\ Released({u}, vms) /\ phase'[u] = "out" /\ left' = left \ {u}
    <2>1. R!Released({u}, vms) => Released({u}, vms)
        BY SameProxmox, Zenon
    <2> QED
        BY <1>1, <2>1 DEF R!Over, Reaches
<1>3. vms \in VmMaps
    BY <1>1, ChangesSpare DEF Spares
<1>4. Frees({u}, vms)
    BY <1>2, <1>3, ReleasedTyped, Zenon
<1>5. Effect(u)
    BY <1>2 DEF Effect
<1>6. Restores(u)'
    BY <1>2 DEF Restores
<1>7. Unlocked(u)'
    BY <1>4 DEF Frees, Unlocked
<1> QED
    BY <1>2, <1>5, <1>6, <1>7 DEF Carries, Phases, R!Undecided

LEMMA BeginCarries ==
    ASSUME Served, NEW u \in Threads, NEW v \in Vmids, R!Begin(u, v)
    PROVE  Carries(u)
<1>1. phase \in [Threads -> Phases] /\ v # None
    BY ProxmoxAssumption DEF Served, HostTypeOK, R!Types, Phases
<1>2. Reaches(u, "fetch", v) /\ phase'[u] = "fetch" /\ left' = left /\ vm' = vm /\ robbed' = robbed
    BY <1>1 DEF R!Begin, Reaches
<1>3. Effect(u)
    BY <1>2 DEF Effect, Changes
<1> QED
    BY <1>1, <1>2, <1>3 DEF Carries, Phases, Restores, Unlocked, R!Undecided

LEMMA ReplaceCarries ==
    ASSUME Served, NEW u \in Threads, R!Replace(u)
    PROVE  Carries(u)
<1> SUFFICES ASSUME NEW v, v = target[u] PROVE Carries(u)
    OBVIOUS
<1>1. vm \in VmMaps /\ v \in Vmids /\ v # None
    BY ProxmoxAssumption DEF Served, HostTypeOK, TypeOK, R!Types, VmMaps, R!Replace
<1>2. /\ Reaches(u, "write", v) /\ phase'[u] = "write" /\ target'[u] = v /\ left' = left
      /\ vm[v] # None => ~vm[v].locked /\ ~vm[v].running
    BY EnterReaches DEF R!Replace, R!Replaceable
<1>3. R!Replacement(u) = [Fresh(u) EXCEPT !.locked = TRUE]
    BY SameProxmox DEF R!Replacement
<1>4. Taken(v, [Fresh(u) EXCEPT !.locked = TRUE])
    BY <1>3, SameProxmox DEF R!Replace
<1>5. Effect(u)
    BY <1>1, <1>2, <1>4, Zenon DEF Effect
<1>6. Restores(u)'
    <2>1. vm'[v] = [Fresh(u) EXCEPT !.locked = TRUE]
        BY <1>1, <1>4, Zenon DEF Taken, VmMaps
    <2> QED
        BY <1>2, <2>1 DEF Restores
<1> QED
    BY <1>1, <1>2, <1>5, <1>6 DEF Carries, Phases, Unlocked, R!Undecided

LEMMA WriteCarries ==
    ASSUME Served, NEW u \in Threads, R!Written(u) \/ R!WriteFails(u)
    PROVE  Carries(u)
<1> SUFFICES ASSUME NEW v, v = target[u] PROVE Carries(u)
    OBVIOUS
<1>1. vm \in VmMaps /\ v \in Vmids /\ v # None /\ robbed' = robbed
    BY ProxmoxAssumption
    DEF Served, HostTypeOK, TypeOK, R!Types, VmMaps, R!Written, R!WriteFails
<1>2. vm[v] # None /\ vm[v].made["clone"] = u /\ ~vm[v].running
    <2>1. vm[v] = [Fresh(u) EXCEPT !.locked = TRUE]
        BY DEF Served, Restores, R!Written, R!WriteFails
    <2> DEFINE new == [Fresh(u) EXCEPT !.locked = TRUE]
    <2>2. new \in VMs /\ new.made["clone"] = u /\ ~new.running
        BY FreshTyped DEF Fresh
    <2> HIDE DEF new
    <2>3. vm[v] = new
        BY <2>1 DEF new
    <2> QED
        BY <2>2, <2>3, Apart
<1>3. CASE R!WriteFails(u)
    <2>1. Reaches(u, "failed", v) /\ phase'[u] = "failed" /\ target'[u] = v /\ left' = left
        BY <1>3, EnterReaches DEF R!WriteFails
    <2>2. vm' = vm \/ vm' = [vm EXCEPT ![v] = None]
        BY <1>3 DEF R!WriteFails
    <2>3. Effect(u)
        BY <1>1, <1>2, <2>2, Zenon DEF Effect, Changes
    <2> QED
        BY <1>1, <2>1, <2>3 DEF Carries, Phases, Unlocked, Restores, R!Undecided
<1>4. CASE R!Enter(u, "cut") /\ vm' = [vm EXCEPT ![v] = R!Fresh(u)]
    <2>1. Reaches(u, "cut", v) /\ phase'[u] = "cut" /\ target'[u] = v /\ left' = left
        BY <1>4, EnterReaches
    <2>2. vm' = [vm EXCEPT ![v] = Fresh(u)]
        BY <1>4, SameProxmox
    <2>3. Effect(u)
        BY <1>1, <1>2, <2>2, Zenon DEF Effect
    <2> QED
        BY <1>1, <2>1, <2>3 DEF Carries, Phases, Unlocked, Restores, R!Undecided
<1>5. CASE R!Enter(u, "whole") /\ vm' = [vm EXCEPT ![v] = R!Filled(u)]
    <2>1. Reaches(u, "whole", v) /\ phase'[u] = "whole" /\ target'[u] = v /\ left' = left
        BY <1>5, EnterReaches
    <2>2. Effect(u)
        BY <1>1, <1>2, <1>5, Zenon DEF Effect
    <2>3. vm'[v] = R!Filled(u)
        BY <1>1, <1>5 DEF VmMaps
    <2>4. Has(u, v, {"sshkey", "resize"})'
        BY <2>1, <2>3, FilledTyped, Apart DEF Has
    <2>5. Restores(u)'
        BY <2>1, <2>4 DEF Restores, Has
    <2> QED
        BY <1>1, <2>1, <2>2, <2>5 DEF Carries, Phases, Unlocked, R!Undecided
<1> QED
    BY <1>3, <1>4, <1>5 DEF R!Written

LEMMA AcceptCarries ==
    ASSUME Served, NEW u \in Threads, R!Accept(u)
    PROVE  Carries(u)
<1> SUFFICES ASSUME NEW v, v = target[u] PROVE Carries(u)
    OBVIOUS
<1>1. v \in Vmids /\ v # None /\ Restores(u) /\ phase[u] = "whole" /\ u \notin left
    BY ProxmoxAssumption DEF Served, HostTypeOK, R!Types, R!Accept
<1>2. /\ Reaches(u, "set", v) /\ phase'[u] = "set" /\ target'[u] = v /\ left' = left
      /\ vm' = vm /\ robbed' = robbed
    BY EnterReaches DEF R!Accept
<1>3. Effect(u)
    BY <1>2 DEF Effect, Changes
<1>4. Restores(u)'
    BY <1>1, <1>2 DEF Restores, Has
<1> QED
    BY <1>1, <1>2, <1>3, <1>4 DEF Carries, Phases, Unlocked

\* The steps with which a restore is over.
LEMMA EndCarries ==
    ASSUME Served, NEW u \in Threads, phase[u] # "out",
           \/ R!Fail(u) \/ R!SetFails(u) \/ R!Start(u)
           \/ R!Usable(target[u]) /\ R!Over(u, R!Named(u))
    PROVE  Carries(u)
<1>1. target[u] \in Vmids
    BY DEF Served, HostTypeOK, R!Types
<1>2. Changes(u, vm)
    BY DEF Changes
<1>3. R!Usable(target[u]) => Changes(u, R!Named(u)) /\ Changes(u, R!Started(target[u]))
    <2>1. R!Named(u) = Made(target[u], "set", u) /\ R!Started(target[u]) = Started(target[u])
        BY SameProxmox, Zenon DEF R!Named
    <2>2. "set" \in Makings \ {"clone"}
        BY DEF Makings
    <2>3. R!Usable(target[u]) = Usable(target[u])
        BY SameProxmox, Zenon
    <2> QED
        BY <1>1, <2>1, <2>2, <2>3, Zenon DEF Changes
<1> QED
    BY <1>2, <1>3, OverCarries, Zenon DEF R!Fail, R!SetFails, R!Start

LEMMA SetCarries ==
    ASSUME Served, NEW u \in Threads, R!Set(u)
    PROVE  Carries(u)
<1> SUFFICES ASSUME NEW v, v = target[u] PROVE Carries(u)
    OBVIOUS
<1>1. /\ vm \in VmMaps /\ v \in Vmids /\ v # None /\ Restores(u) /\ phase[u] = "set"
      /\ u \notin left
    BY ProxmoxAssumption DEF Served, HostTypeOK, TypeOK, R!Types, R!Undecided, VmMaps, R!Set
<1>2. Usable(v) /\ vm[v] # None
    BY SameProxmox DEF R!Set, Usable
<1>3. CASE R!Over(u, R!Named(u))
    BY <1>1, <1>3, EndCarries DEF R!Set
<1>4. CASE R!Enter(u, "start") /\ vm' = R!Named(u) /\ robbed' = robbed
    <2>1. Reaches(u, "start", v) /\ phase'[u] = "start" /\ target'[u] = v /\ left' = left
        BY <1>4, EnterReaches
    <2>2. vm' = Made(v, "set", u)
        BY <1>4, SameProxmox DEF R!Named
    <2>3. Effect(u)
        <3>1. Changes(u, vm')
            <4>1. "set" \in Makings \ {"clone"}
                BY DEF Makings
            <4> QED
                BY <1>1, <1>2, <2>2, <4>1, Zenon DEF Changes
        <3> QED
            BY <1>4, <3>1 DEF Effect
    <2>4. vm'[v] # None /\ vm'[v].made = [vm[v].made EXCEPT !["set"] = u]
        <3>1. "set" \in Makings
            BY DEF Makings
        <3>2. /\ Made(v, "set", u) \in VmMaps
              /\ \A w \in Vmids : w # v => Made(v, "set", u)[w] = vm[w]
              /\ Made(v, "set", u)[v] # None
              /\ Made(v, "set", u)[v].made = [vm[v].made EXCEPT !["set"] = u]
              /\ Made(v, "set", u)[v].locked = vm[v].locked
            BY <1>1, <1>2, <3>1, MadeTyped, Zenon
        <3> QED
            BY <2>2, <3>2
    <2>5. vm[v].made \in [Makings -> Makers]
        BY <1>1, <1>2 DEF VmMaps, VMs, Makers
    <2>6. Restores(u)'
        BY <1>1, <1>4, <2>1, <2>4, <2>5, Apart DEF Restores, Has, Makings
    <2> QED
        BY <1>1, <2>1, <2>3, <2>6 DEF Carries, Phases, Unlocked
<1> QED
    BY <1>3, <1>4 DEF R!Set

LEMMA LeaveCarries ==
    ASSUME Served, NEW u \in Threads, R!Leave(u)
    PROVE  Carries(u)
<1> SUFFICES ASSUME NEW label, NEW v, label = phase[u], v = target[u] PROVE Carries(u)
    OBVIOUS
<1>1. /\ label \in Phases /\ label \in R!Undecided /\ v \in Vmids \cup {None}
      /\ (label = "out" <=> v = None) /\ Restores(u) /\ Unlocked(u)
    BY DEF Served, HostTypeOK, R!Types, Phases, R!Leave
<1>2. /\ Reaches(u, label, v) /\ phase'[u] = label /\ left' = left \cup {u}
      /\ phase' = phase /\ target' = target /\ vm' = vm /\ robbed' = robbed
    BY DEF R!Leave, Reaches, Served, HostTypeOK, R!Types
<1>3. Effect(u)
    BY <1>2 DEF Effect, Changes
<1> QED
    BY <1>1, <1>2, <1>3 DEF Carries, Restores, Unlocked, Has

LEMMA RestoreCarries ==
    ASSUME Served, NEW u \in Threads, R!Step(u)
    PROVE  Carries(u)
<1>1. R!Fail(u) \/ R!SetFails(u) \/ R!Start(u) => phase[u] # "out"
    BY DEF R!Fail, R!SetFails, R!Start, R!Undecided
<1> QED
    BY <1>1, BeginCarries, ReplaceCarries, WriteCarries, LeaveCarries, AcceptCarries,
       EndCarries, SetCarries, Zenon
    DEF R!Step

-----------------------------------------------------------------------------
(* The invariant holds *)

LEMMA InitServed == HostInit => Served
<1> SUFFICES ASSUME HostInit PROVE Served
    OBVIOUS
<1>1. /\ pc = [t \in Threads |-> "idle"] /\ vmid = [t \in Threads |-> None]
      /\ phase = [t \in Threads |-> "out"] /\ target = [t \in Threads |-> None] /\ left = {}
      /\ vm \in [Vmids -> {None, Complete, [Complete EXCEPT !.running = TRUE]}] /\ robbed = {}
    BY DEF HostInit, Init, R!Init, InitVMs
<1>2. vm \in VmMaps
    BY <1>1, CompleteTyped DEF VmMaps
<1>3. \A v \in Vmids : vm[v] # None => ~vm[v].locked
    <2>1. ~Complete.locked /\ ~[Complete EXCEPT !.running = TRUE].locked
        BY DEF Complete
    <2> QED
        BY <1>1, <2>1
<1>6. HostTypeOK
    BY <1>1, <1>2, <1>3 DEF HostTypeOK, TypeOK, R!Types, VmMaps
<1>4. \A t \in Threads : Provides(t) /\ Restores(t)
    BY <1>1 DEF Provides, Restores, Making
<1>5. \A t \in Threads : Unlocked(t)
    BY <1>3 DEF Unlocked
<1> QED
    BY <1>4, <1>5, <1>6 DEF Served

\* A step of the other handlers.
LEMMA ServesServed ==
    ASSUME Served, NEW u \in Threads, phase[u] = "out", Serves(u), UNCHANGED <<phase, target, left>>
    PROVE  Served'
<1>1. /\ vm \in VmMaps /\ Asleep /\ robbed \subseteq Threads
      /\ pc \in [Threads -> Labels] /\ vmid \in [Threads -> Vmids \cup {None}]
    BY DEF Served, HostTypeOK, TypeOK, VmMaps, Labels, Asleep
<1>2. PICK label \in Labels, v \in Vmids \cup {None} :
          Goes(u, label, v) /\ (label = "idle" <=> v = None)
    BY DEF Serves
<1>3. /\ pc' \in [Threads -> Labels] /\ vmid' \in [Threads -> Vmids \cup {None}]
      /\ pc'[u] = "idle" <=> vmid'[u] = None
      /\ \A t \in Threads \ {u} : pc'[t] = pc[t] /\ vmid'[t] = vmid[t]
    BY <1>1, <1>2 DEF Goes
<1>4. vm' \in VmMaps /\ Asleep' /\ robbed' \subseteq Threads
    BY <1>1, EffectKeeps DEF Serves
<1>5. HostTypeOK'
    <2>1. TypeOK'
        BY <1>3, <1>4 DEF Served, HostTypeOK, TypeOK, VmMaps, Labels, Asleep
    <2>2. R!Types' /\ \A t \in Threads : pc'[t] = "idle" \/ phase'[t] = "out"
        BY <1>3 DEF Served, HostTypeOK, R!Types, R!Undecided
    <2> QED
        BY <2>1, <2>2 DEF HostTypeOK
<1>6. Provides(u)' /\ Restores(u)' /\ Unlocked(u)'
    BY DEF Serves, Restores, Unlocked
<1>7. \A t \in Threads \ {u} : Provides(t)' /\ Restores(t)' /\ Unlocked(t)'
    BY <1>3, OthersServed DEF Serves
<1> QED
    BY <1>5, <1>6, <1>7 DEF Served

\* A step of a restore.
LEMMA CarriesServed ==
    ASSUME Served, NEW u \in Threads, pc[u] = "idle", Carries(u), UNCHANGED <<pc, vmid>>
    PROVE  Served'
<1>1. /\ vm \in VmMaps /\ Asleep /\ robbed \subseteq Threads
      /\ phase \in [Threads -> Phases] /\ target \in [Threads -> Vmids \cup {None}]
    BY DEF Served, HostTypeOK, TypeOK, R!Types, VmMaps, Phases, Asleep
<1>2. PICK label \in Phases, v \in Vmids \cup {None} :
          Reaches(u, label, v) /\ (label = "out" <=> v = None)
    BY DEF Carries
<1>3. /\ phase' \in [Threads -> Phases] /\ target' \in [Threads -> Vmids \cup {None}]
      /\ phase'[u] = "out" <=> target'[u] = None
      /\ \A t \in Threads \ {u} : phase'[t] = phase[t] /\ target'[t] = target[t]
    BY <1>1, <1>2 DEF Reaches
<1>4. vm' \in VmMaps /\ Asleep' /\ robbed' \subseteq Threads
    BY <1>1, EffectKeeps DEF Carries
<1>5. HostTypeOK'
    <2>1. TypeOK'
        BY <1>4 DEF Served, HostTypeOK, TypeOK, VmMaps, Asleep
    <2>2. left' \subseteq {t \in Threads : phase'[t] \in R!Undecided}
        BY <1>3 DEF Served, HostTypeOK, R!Types, Carries
    <2>3. R!Types' /\ \A t \in Threads : pc'[t] = "idle" \/ phase'[t] = "out"
        BY <1>3, <2>2 DEF Served, HostTypeOK, R!Types, Phases, R!Undecided
    <2> QED
        BY <2>1, <2>3 DEF HostTypeOK
<1>6. Provides(u)' /\ Restores(u)' /\ Unlocked(u)'
    BY DEF Carries, Provides, Making
<1>7. \A t \in Threads \ {u} : Provides(t)' /\ Restores(t)' /\ Unlocked(t)'
    BY <1>3, OthersServed DEF Carries
<1> QED
    BY <1>5, <1>6, <1>7 DEF Served

LEMMA CrashServed == ASSUME Served, AgentCrash, R!Crash PROVE Served'
<1>1. vm \in VmMaps
    BY DEF Served, HostTypeOK, TypeOK, VmMaps
<1>2. /\ pc' = [t \in Threads |-> "idle"] /\ vmid' = [t \in Threads |-> None]
      /\ phase' = [t \in Threads |-> "out"] /\ target' = [t \in Threads |-> None] /\ left' = {}
      /\ Released(Threads, vm) /\ robbed' = robbed \ Threads
    BY DEF AgentCrash, R!Crash, Released
<1>3. vm' \in VmMaps /\ Frees(Threads, vm)
    BY <1>1, <1>2, ReleasedTyped
<1>4. HostTypeOK'
    <2>1. \A v \in Vmids : vm'[v] # None /\ vm'[v].locked => ~vm'[v].running
        BY <1>3 DEF Served, HostTypeOK, TypeOK, Frees
    <2>2. robbed' \subseteq Threads
        BY <1>2 DEF Served, HostTypeOK, TypeOK
    <2>3. TypeOK'
        BY <1>2, <1>3, <2>1, <2>2 DEF TypeOK, VmMaps
    <2>4. R!Types' /\ \A t \in Threads : pc'[t] = "idle"
        BY <1>2 DEF R!Types
    <2> QED
        BY <2>3, <2>4 DEF HostTypeOK
<1>5. \A t \in Threads : Provides(t)' /\ Restores(t)'
    BY <1>2 DEF Provides, Restores, Making
<1>6. \A t \in Threads : Unlocked(t)'
    BY <1>3 DEF Frees, Unlocked
<1> QED
    BY <1>4, <1>5, <1>6 DEF Served

LEMMA NextServed == Served /\ [HostNext]_hostVars => Served'
<1> SUFFICES ASSUME Served, [HostNext]_hostVars PROVE Served'
    OBVIOUS
<1>1. ASSUME NEW t \in Threads, phase[t] = "out", Request(t) \/ Step(t), UNCHANGED <<phase, target, left>>
      PROVE  Served'
    BY <1>1, StepServes, ServesServed
<1>2. ASSUME NEW t \in Threads, pc[t] = "idle", R!Step(t), UNCHANGED <<pc, vmid>>
      PROVE  Served'
    BY <1>2, RestoreCarries, CarriesServed
<1>3. CASE AgentCrash /\ R!Crash
    BY <1>3, CrashServed
<1>4. CASE UNCHANGED hostVars
    BY <1>4 DEF Served, HostTypeOK, TypeOK, R!Types, Provides, Restores, Unlocked, Has, hostVars
<1> QED
    BY <1>1, <1>2, <1>3, <1>4 DEF HostNext

LEMMA AlwaysServed == HostSpec => []Served
BY InitServed, NextServed, PTL DEF HostSpec

-----------------------------------------------------------------------------
(* Theorems *)

\* Every variable keeps its type, no thread ever serves two requests, and a VM
\* that is being cloned or restored never runs.
THEOREM TypeCorrect == HostSpec => []HostTypeOK
<1>1. Served => HostTypeOK
    BY DEF Served
<1> QED
    BY <1>1, AlwaysServed, PTL

\* Provisions configure and start the VM they have cloned, whatever requests for
\* the same VMID do meanwhile, unless one of them destroys or replaces that VM:
\* about a provision that was robbed so the theorem says nothing.
THEOREM ProvisionsKeepApart == HostSpec => []ProvisionsOwn
<1>1. Served => ProvisionsOwn
    BY DEF Served, Provides, Has, ProvisionsOwn, MakerOf, Making
<1> QED
    BY <1>1, AlwaysServed, PTL

\* No provision comes to its qm start with a VM that lacks its cores, address,
\* key or disk, unless the VM was destroyed or replaced under it.
THEOREM ProvisionsAreComplete == HostSpec => []StartsReady
<1>1. Served => StartsReady
    <2> SUFFICES ASSUME Served, NEW t \in Threads \ robbed, pc[t] = "start"
        PROVE  Mine(t) # None /\ \A m \in Makings : Mine(t).made[m] # None
        BY DEF StartsReady
    <2>1. Earlier("start") = {"set", "sshkey", "resize"}
        BY DEF Earlier
    <2>2. Has(t, vmid[t], {"set", "sshkey", "resize"})
        BY <2>1 DEF Served, Provides, Making
    <2> QED
        BY <2>2, Apart DEF Has, Mine, Makings
<1> QED
    BY <1>1, AlwaysServed, PTL

\* qmrestore has its VM to itself while it writes, against every request and
\* every qmrestore that was left behind; and a restore configures and starts its
\* own VM, with the whole object on its disk, unless that was destroyed or
\* replaced after qmrestore had ended.
THEOREM RestoresKeepApart == HostSpec => []RestoresOwn
<1>1. Served => RestoresOwn
    <2> SUFFICES ASSUME Served, NEW t \in Threads
        PROVE  /\ phase[t] = "write" => vm[target[t]] = R!Replacement(t)
               /\ phase[t] \in {"set", "start"} /\ t \notin robbed =>
                    /\ MakerOf(target[t]) = t
                    /\ \A m \in Makings \ {"set"} : vm[target[t]].made[m] # None
                    /\ phase[t] = "start" => vm[target[t]].made["set"] # None
        BY SameProxmox DEF RestoresOwn, R!RestoresOwn
    <2>1. R!Replacement(t) = [Fresh(t) EXCEPT !.locked = TRUE]
        BY SameProxmox DEF R!Replacement
    <2>2. Restores(t)
        BY DEF Served
    <2> QED
        BY <2>1, <2>2, Apart DEF Restores, Has, MakerOf, Makings
<1> QED
    BY <1>1, AlwaysServed, PTL

\* A step of provision, start, stop or destroy is a step of the rest of the
\* host to every restore.
LEMMA ServesElsewhere ==
    ASSUME Served, NEW u \in Threads, phase[u] = "out", Serves(u), UNCHANGED <<phase, target, left>>
    PROVE  R!Elsewhere
<1>1. /\ vm \in VmMaps /\ Asleep /\ robbed \subseteq Threads /\ Effect(u)
      /\ \A t \in Threads : phase[t] # "out" => target[t] \in Vmids
    BY DEF Served, HostTypeOK, TypeOK, R!Types, VmMaps, Serves, Asleep
<1>2. /\ \A v \in Vmids : Locked(u, v)
      /\ \A t \in Threads \ {u} :
           (t \in robbed => t \in robbed') /\ \A v \in Vmids : Kept(t, v) /\ Named(t, v)
    BY <1>1, EffectKeeps
<1>3. \A v \in Vmids : vm[v] # None /\ vm[v].locked => vm'[v] = vm[v]
    BY <1>2 DEF Served, Unlocked, Locked
<1>4. ASSUME NEW t \in R!Busy
      PROVE  /\ \A v \in Vmids : MakerOf(v)' = t => MakerOf(v) = t
             /\ MakerOf(target[t]) = t => MakerOf(target[t])' = t \/ t \in robbed'
             /\ t \in robbed => t \in robbed'
    <2>1. t \in Threads \ {u} /\ target[t] \in Vmids /\ target'[t] = target[t]
        BY <1>1 DEF R!Busy
    <2>2. "clone" \in Makings
        BY DEF Makings
    <2> QED
        BY <1>2, <2>1, <2>2, Apart DEF MakerOf, Kept, Named
<1> QED
    BY <1>3, <1>4 DEF R!Elsewhere, R!restore, R!MakerOf, MakerOf

\* Provision, start, stop and destroy, and the restores beside them, are to a
\* restore what RestoreJob allows the rest of the host to do.
THEOREM HostSparesRestores == HostSpec => SparesRestores
<1>1. HostInit => R!Init
    BY DEF HostInit
<1>2. Served /\ [HostNext]_hostVars => [R!Next]_(R!jobVars)
    <2> SUFFICES ASSUME Served, [HostNext]_hostVars PROVE [R!Next]_(R!jobVars)
        OBVIOUS
    <2>1. ASSUME NEW t \in Threads, phase[t] = "out", Request(t) \/ Step(t), UNCHANGED <<phase, target, left>>
          PROVE  R!Next
        BY <2>1, StepServes, ServesElsewhere DEF R!Next
    <2>2. ASSUME NEW t \in Threads, R!Step(t) PROVE R!Next
        BY <2>2 DEF R!Next
    <2>3. CASE R!Crash
        BY <2>3 DEF R!Next
    <2>4. CASE UNCHANGED hostVars
        BY <2>4 DEF hostVars, R!jobVars
    <2> QED
        BY <2>1, <2>2, <2>3, <2>4 DEF HostNext
<1> QED
    BY <1>1, <1>2, AlwaysServed, PTL DEF HostSpec, SparesRestores, R!Spec
=============================================================================
