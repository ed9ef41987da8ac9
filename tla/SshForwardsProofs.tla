------------------------- MODULE SshForwardsProofs -------------------------
(***************************************************************************)
(* Proofs about SshForwards, for any finite set of threads, any set of     *)
(* rules and any bound on the checks that fail.                            *)
(***************************************************************************)
EXTENDS SshForwards, FiniteSetTheorems, TLAPS

-----------------------------------------------------------------------------
(* Types *)

\* A thread that is about to run -A or -D has its request.
Asked == \A t \in Threads : pc[t] \in {"append", "delete"} => op[t] \in Requests

Typed == TypeOK /\ Asked

LEMMA FileTypes ==
    /\ \A s \in Counts : Whole(s) \in Files
    /\ NoRules \in Counts /\ Empty \in Files /\ Torn \in Files
BY DEF Whole, Empty, Torn, NoRules, Counts, Files

LEMMA InitTyped == Init => Typed
BY FileTypes, ForwardsAssumption DEF Init, Typed, TypeOK, Asked

\* A step in which all threads are idle or one of them becomes so.
LEMMA AnswerTyped ==
    ASSUME Typed, NEW t \in Threads, Answer(t) \/ NoThreads,
           nat' \in Counts, file' \in Files, UNCHANGED faults
    PROVE  Typed'
<1> USE DEF Typed, TypeOK, Asked
<1>1. CASE Answer(t)
    BY <1>1, FileTypes DEF Answer, GoTo
<1>2. CASE NoThreads
    BY <1>2, FileTypes DEF NoThreads
<1> QED
    BY <1>1, <1>2

LEMMA CommandTyped ==
    ASSUME Typed, NEW t \in Threads,
           Check(t) \/ Append(t) \/ Delete(t) \/ Open(t) \/ Save(t)
    PROVE  Typed'
<1> USE ForwardsAssumption DEF Typed, TypeOK, Asked, GoTo
<1>1. CASE Check(t)
    <2>1. PICK o \in Requests, found \in BOOLEAN :
              /\ op' = [op EXCEPT ![t] = o]
              /\ IF ~found /\ nat[o.rule] > 0
                 THEN faults < MaxFaults /\ faults' = faults + 1
                 ELSE UNCHANGED faults
              /\ GoTo(t, CASE o.kind = "add"    /\ ~found -> "append"
                           [] o.kind = "remove" /\ found  -> "delete"
                           [] OTHER                       -> "open")
        BY <1>1 DEF Check
    <2>2. faults' \in 0..MaxFaults
        BY <2>1
    <2>3. pc' \in [Threads -> {"idle", "append", "delete", "open", "save", "write"}]
        BY <2>1
    <2>4. alone' \in [Threads -> BOOLEAN]
        BY <1>1 DEF Check
    <2>5. TypeOK'
        BY <1>1, <2>1, <2>2, <2>3, <2>4 DEF Check
    <2> QED
        BY <1>1, <2>1, <2>5 DEF Check
<1>2. CASE Append(t)
    <2>1. op[t].rule \in Rules
        BY <1>2 DEF Append, Requests
    <2>2. nat' \in Counts
        BY <1>2, <2>1 DEF Append, Counts
    <2> QED
        BY <1>2, <2>2 DEF Append
<1>3. CASE Delete(t)
    <2>1. op[t].rule \in Rules /\ nat[op[t].rule] \in Nat /\ nat[op[t].rule] > 0
        BY <1>3 DEF Delete, Requests, Counts
    <2>2. nat' \in Counts
        BY <1>3, <2>1 DEF Delete, Counts
    <2> QED
        BY <1>3, <2>2 DEF Delete
<1>4. CASE Open(t)
    BY <1>4, FileTypes DEF Open
<1>5. CASE Save(t)
    BY <1>5 DEF Save
<1> QED
    BY <1>1, <1>2, <1>3, <1>4, <1>5

LEMMA StepTyped == Typed /\ [Next]_vars => Typed'
<1> SUFFICES ASSUME Typed, [Next]_vars PROVE Typed'
    OBVIOUS
<1>1. ASSUME NEW t \in Threads, Write(t) PROVE Typed'
    <2>1. saved[t] \in Counts
        BY DEF Typed, TypeOK
    <2>2. file' \in Files
        BY <1>1, <2>1, FileTypes DEF Write, Overwritten
    <2> QED
        BY <1>1, <2>2, AnswerTyped DEF Write, Typed, TypeOK
<1>2. ASSUME NEW t \in Threads, Fail(t) PROVE Typed'
    BY <1>2, AnswerTyped, FileTypes DEF Fail, Typed, TypeOK
<1>3. CASE AgentCrash \/ Reboot
    <2>1. nat' \in Counts /\ file' \in Files
        BY <1>3, FileTypes DEF AgentCrash, Reboot, Restored, Typed, TypeOK, Files
    <2>2. CASE Threads = {}
        BY <1>3, <2>1, <2>2 DEF AgentCrash, Reboot, NoThreads, Typed, TypeOK, Asked
    <2>3. CASE Threads # {}
        BY <1>3, <2>1, <2>3, AnswerTyped DEF AgentCrash, Reboot
    <2> QED
        BY <2>2, <2>3
<1>4. CASE UNCHANGED vars
    BY <1>4 DEF vars, Typed, TypeOK, Asked
<1> QED
    BY <1>1, <1>2, <1>3, <1>4, CommandTyped DEF Next

\* No interleaving of requests, failures and reboots takes the state out of
\* its types: the kernel never holds a negative number of copies, and only an add
\* comes to an append, only a remove to a delete.
THEOREM TypeCorrect == Spec => []TypeOK
<1>1. Typed => TypeOK
    BY DEF Typed
<1> QED
    BY <1>1, InitTyped, StepTyped, PTL DEF Spec

-----------------------------------------------------------------------------
(* How many copies of a rule there can be *)

\* The most copies of a rule that the history so far allows.
Limit == Cardinality(Threads) + faults

\* What the file, or the output of iptables-save, says was once the kernel's
\* state: a reboot brings no more copies back than the limit.
SnapshotsBounded ==
    /\ \A r \in Rules : file.rules[r] <= Limit
    /\ \A t \in Threads, r \in Rules : saved[t][r] <= Limit

IInv == Typed /\ DuplicatesBounded /\ SnapshotsBounded

LEMMA AddersFinite ==
    ASSUME NEW r \in Rules
    PROVE  /\ IsFiniteSet(Adders(r))
           /\ Cardinality(Adders(r)) \in Nat
           /\ Cardinality(Threads) \in Nat
           /\ Cardinality(Adders(r)) <= Cardinality(Threads)
<1>1. Adders(r) \subseteq Threads
    BY DEF Adders
<1> QED
    BY <1>1, ForwardsAssumption, FS_Subset, FS_CardinalityType

LEMMA InitBounded == Init => DuplicatesBounded /\ SnapshotsBounded
<1> SUFFICES ASSUME Init PROVE DuplicatesBounded /\ SnapshotsBounded
    OBVIOUS
<1>1. \A r \in Rules : Adders(r) = {}
    BY DEF Init, Adders
<1>2. Cardinality({}) = 0 /\ Cardinality(Threads) \in Nat
    BY ForwardsAssumption, FS_EmptySet, FS_CardinalityType
<1>3. DuplicatesBounded
    <2> SUFFICES ASSUME NEW r \in Rules
                 PROVE  nat[r] + Cardinality(Adders(r)) <= Cardinality(Threads) + faults
        BY DEF DuplicatesBounded
    <2>1. Cardinality(Adders(r)) = 0
        BY <1>1, <1>2
    <2> QED
        BY <1>2, <2>1 DEF Init, NoRules
<1>4. SnapshotsBounded
    BY <1>2 DEF Init, SnapshotsBounded, Limit, NoRules, Whole
<1> QED
    BY <1>3, <1>4

\* iptables-save and the file: what is written was once in the kernel.
LEMMA SnapshotStep ==
    ASSUME IInv, Typed', [Next]_vars
    PROVE  SnapshotsBounded'
<1> USE DEF IInv, Typed, TypeOK
<1>1. Limit \in Nat /\ Limit' \in Nat
    BY ForwardsAssumption, FS_CardinalityType DEF Limit
<1>2. \A r \in Rules : NoRules[r] <= Limit'
    BY <1>1 DEF NoRules
<1>3. \A r \in Rules : nat[r] <= Limit
    <2> SUFFICES ASSUME NEW r \in Rules PROVE nat[r] <= Limit
        OBVIOUS
    <2>1. nat[r] \in Nat
        BY DEF Counts
    <2> QED
        BY <1>1, <2>1, AddersFinite DEF DuplicatesBounded, Limit
<1>4. ASSUME NEW t \in Threads, Check(t) PROVE SnapshotsBounded'
    <2>1. faults' >= faults /\ UNCHANGED <<file, saved>>
        BY <1>4, ForwardsAssumption DEF Check
    <2>2. Limit' >= Limit
        BY <2>1, ForwardsAssumption, FS_CardinalityType DEF Limit
    <2>3. \A r \in Rules : file.rules[r] \in Nat
        BY DEF Files, Counts
    <2>4. \A u \in Threads, r \in Rules : saved[u][r] \in Nat
        BY DEF Counts
    <2> QED
        BY <1>1, <2>1, <2>2, <2>3, <2>4 DEF SnapshotsBounded
<1>5. ASSUME UNCHANGED faults PROVE Limit' = Limit
    BY <1>5 DEF Limit
<1>6. ASSUME NEW t \in Threads, Append(t) \/ Delete(t) PROVE SnapshotsBounded'
    BY <1>5, <1>6 DEF Append, Delete, SnapshotsBounded
<1>7. ASSUME NEW t \in Threads, Open(t) PROVE SnapshotsBounded'
    BY <1>2, <1>5, <1>7 DEF Open, Empty, SnapshotsBounded
<1>8. ASSUME NEW t \in Threads, Save(t) PROVE SnapshotsBounded'
    BY <1>3, <1>5, <1>8 DEF Save, SnapshotsBounded
<1>9. ASSUME NEW t \in Threads, Answer(t) \/ NoThreads
      PROVE  \A u \in Threads, r \in Rules : saved'[u][r] = saved[u][r] \/ saved'[u] = NoRules
    BY <1>9 DEF Answer, NoThreads
<1>10. ASSUME NEW t \in Threads, Write(t) \/ Fail(t) PROVE SnapshotsBounded'
    <2>1. (Write(t) \/ Fail(t)) => Answer(t) /\ UNCHANGED faults
        BY DEF Write, Fail
    <2>2. file' = file \/ file'.rules = NoRules \/ file'.rules = saved[t]
        BY <1>10 DEF Write, Fail, Overwritten, Whole, Torn
    <2> QED
        BY <1>2, <1>5, <1>9, <1>10, <2>1, <2>2 DEF SnapshotsBounded
<1>11. CASE AgentCrash \/ Reboot
    <2>1. UNCHANGED <<file, faults>> /\ saved' = [t \in Threads |-> NoRules]
        BY <1>11 DEF AgentCrash, Reboot, NoThreads
    <2> QED
        BY <1>2, <1>5, <2>1 DEF SnapshotsBounded
<1>12. CASE UNCHANGED vars
    BY <1>5, <1>12 DEF vars, SnapshotsBounded
<1> QED
    BY <1>4, <1>6, <1>7, <1>8, <1>10, <1>11, <1>12 DEF Next

\* One rule in one step.
LEMMA CopiesStep ==
    ASSUME IInv, Typed', [Next]_vars, NEW r \in Rules
    PROVE  nat'[r] + Cardinality(Adders(r)') <= Cardinality(Threads) + faults'
<1> USE DEF IInv, Typed, TypeOK
<1> DEFINE n == Cardinality(Adders(r))
           m == Cardinality(Adders(r)')
<1>1. n \in Nat /\ Cardinality(Threads) \in Nat /\ n <= Cardinality(Threads)
    BY AddersFinite
<1>2. m \in Nat /\ m <= Cardinality(Threads)
    <2>1. Adders(r)' \subseteq Threads
        BY DEF Adders
    <2> QED
        BY <2>1, ForwardsAssumption, FS_Subset, FS_CardinalityType
<1>3. nat[r] \in Nat /\ nat'[r] \in Nat /\ faults \in Nat /\ faults' \in Nat
    BY ForwardsAssumption DEF Counts
<1>4. nat[r] + n <= Cardinality(Threads) + faults
    BY DEF DuplicatesBounded
<1>5. Adders(r)' \subseteq Adders(r) => m <= n
    BY AddersFinite, FS_Subset
<1> HIDE DEF n, m
<1>6. ASSUME nat'[r] <= nat[r], Adders(r)' \subseteq Adders(r), UNCHANGED faults
      PROVE  nat'[r] + m <= Cardinality(Threads) + faults'
    BY <1>1, <1>2, <1>3, <1>4, <1>5, <1>6
<1>7. ASSUME NEW t \in Threads, Check(t)
      PROVE  nat'[r] + m <= Cardinality(Threads) + faults'
    <2>1. UNCHANGED nat /\ faults' \in {faults, faults + 1}
        BY <1>7 DEF Check
    <2>2. CASE Adders(r)' \subseteq Adders(r)
        BY <1>1, <1>2, <1>3, <1>4, <1>5, <2>1, <2>2
    <2>3. CASE ~(Adders(r)' \subseteq Adders(r))
        <3>1. Adders(r)' = Adders(r) \cup {t} /\ t \notin Adders(r)
            BY <1>7, <2>3 DEF Check, GoTo, Busy, Adders
        <3>2. m = n + 1
            BY <3>1, AddersFinite, FS_AddElement DEF n, m
        <3>3. nat[r] = 0 \/ faults' = faults + 1
            BY <1>7, <2>3, <1>3 DEF Check, GoTo, Busy, Adders
        <3> QED
            BY <1>1, <1>2, <1>3, <1>4, <2>1, <3>2, <3>3
    <2> QED
        BY <2>2, <2>3
<1>8. ASSUME NEW t \in Threads, Append(t)
      PROVE  nat'[r] + m <= Cardinality(Threads) + faults'
    <2>1. CASE op[t].rule = r
        <3>1. Adders(r)' = Adders(r) \ {t} /\ t \in Adders(r)
            BY <1>8, <2>1 DEF Append, GoTo, Adders
        <3>2. m = n - 1
            BY <3>1, AddersFinite, FS_RemoveElement DEF n, m
        <3>3. nat'[r] = nat[r] + 1 /\ UNCHANGED faults
            BY <1>8, <2>1 DEF Append, Counts
        <3> QED
            BY <1>1, <1>2, <1>3, <1>4, <3>2, <3>3
    <2>2. CASE op[t].rule # r
        <3>1. nat'[r] = nat[r] /\ UNCHANGED faults
            BY <1>8, <2>2 DEF Append, Counts
        <3>2. Adders(r)' \subseteq Adders(r)
            BY <1>8 DEF Append, GoTo, Adders
        <3> QED
            BY <1>3, <1>6, <3>1, <3>2
    <2> QED
        BY <2>1, <2>2
<1>9. ASSUME NEW t \in Threads,
             Delete(t) \/ Open(t) \/ Save(t) \/ Write(t) \/ Fail(t)
      PROVE  nat'[r] + m <= Cardinality(Threads) + faults'
    <2>1. nat'[r] <= nat[r]
        BY <1>3, <1>9 DEF Delete, Open, Save, Write, Fail, Counts
    <2>2. Adders(r)' \subseteq Adders(r)
        BY <1>9 DEF Delete, Open, Save, Write, Fail, Answer, GoTo, Adders
    <2>3. UNCHANGED faults
        BY <1>9 DEF Delete, Open, Save, Write, Fail
    <2> QED
        BY <1>6, <2>1, <2>2, <2>3
<1>10. CASE AgentCrash \/ Reboot
    <2>1. Adders(r)' = {}
        BY <1>10 DEF AgentCrash, Reboot, NoThreads, Adders
    <2>2. m = 0
        BY <2>1, FS_EmptySet DEF m
    <2>3. nat'[r] <= Limit /\ UNCHANGED faults
        <3>1. nat[r] <= Limit
            BY <1>1, <1>3, <1>4 DEF Limit
        <3>2. 0 <= Limit
            BY <1>1, <1>3 DEF Limit
        <3> QED
            BY <1>10, <3>1, <3>2
               DEF AgentCrash, Reboot, Restored, NoRules, SnapshotsBounded
    <2> QED
        BY <1>1, <1>3, <2>2, <2>3 DEF Limit, m
<1>11. CASE UNCHANGED vars
    <2>1. nat'[r] <= nat[r] /\ Adders(r)' \subseteq Adders(r) /\ UNCHANGED faults
        BY <1>3, <1>11 DEF vars, Adders
    <2> QED
        BY <1>6, <2>1 DEF m
<1> QED
    BY <1>7, <1>8, <1>9, <1>10, <1>11 DEF Next, m

\* Concurrent requests can append a rule twice, but never more often than
\* there are threads, one more for each check that failed.
THEOREM BoundedDuplicates == Spec => []DuplicatesBounded
<1>1. Init => IInv
    BY InitTyped, InitBounded DEF IInv
<1>2. IInv /\ [Next]_vars => IInv'
    <2> SUFFICES ASSUME IInv, [Next]_vars PROVE IInv'
        OBVIOUS
    <2>1. Typed'
        BY StepTyped DEF IInv
    <2>2. DuplicatesBounded'
        BY <2>1, CopiesStep DEF DuplicatesBounded
    <2> QED
        BY <2>1, <2>2, SnapshotStep DEF IInv
<1>3. IInv => DuplicatesBounded
    BY DEF IInv
<1> QED
    BY <1>1, <1>2, <1>3, PTL DEF Spec

-----------------------------------------------------------------------------
(* What a request that is served alone leaves in the file *)

\* While a request is alone nobody else is at work, the file that it has
\* truncated stays empty, and what it saves is what the kernel has.
Undisturbed ==
    \A t \in Threads : alone[t] =>
        /\ \A u \in Threads \ {t} : ~Busy(u)
        /\ pc[t] \in {"save", "write"} => file = Empty
        /\ pc[t] = "write" => saved[t] = nat

LEMMA UndisturbedStep ==
    ASSUME Typed, Undisturbed, [Next]_vars
    PROVE  Undisturbed'
<1> USE DEF Typed, TypeOK, Undisturbed, Busy, GoTo
<1>1. ASSUME NEW t \in Threads, Check(t) PROVE Undisturbed'
    <2>1. /\ \A u \in Threads : alone'[u] => u = t /\ \A v \in Threads : pc[v] = "idle"
          /\ pc'[t] \notin {"save", "write"} /\ \A u \in Threads \ {t} : pc'[u] = pc[u]
        BY <1>1 DEF Check
    <2> QED
        BY <2>1
<1>2. ASSUME NEW t \in Threads, Append(t) \/ Delete(t) PROVE Undisturbed'
    BY <1>2 DEF Append, Delete
<1>3. ASSUME NEW t \in Threads, Open(t) PROVE Undisturbed'
    BY <1>3 DEF Open
<1>4. ASSUME NEW t \in Threads, Save(t) PROVE Undisturbed'
    BY <1>4 DEF Save
<1>5. ASSUME NEW t \in Threads, Write(t) \/ Fail(t) PROVE Undisturbed'
    BY <1>5 DEF Write, Fail, Answer
<1>6. CASE AgentCrash \/ Reboot
    BY <1>6 DEF AgentCrash, Reboot, NoThreads
<1>7. CASE UNCHANGED vars
    BY <1>7 DEF vars
<1> QED
    BY <1>1, <1>2, <1>3, <1>4, <1>5, <1>6, <1>7 DEF Next

\* What is answered ok to a request that was served alone survives a reboot:
\* the file has the kernel's rules, as a whole.
THEOREM PersistedAlone == Spec => AlonePersists
<1>1. Init => Undisturbed
    BY DEF Init, Undisturbed
<1>2. Typed /\ Undisturbed /\ [Next]_vars => Typed' /\ Undisturbed'
    BY StepTyped, UndisturbedStep
<1>3. Undisturbed => [\A t \in Threads : Write(t) /\ alone[t] => file' = Whole(nat)]_vars
    <2> SUFFICES ASSUME Undisturbed, NEW t \in Threads, Write(t), alone[t]
                 PROVE  file' = Whole(nat)
        OBVIOUS
    <2>1. file = Empty /\ saved[t] = nat
        BY DEF Undisturbed, Write
    <2> QED
        BY <2>1 DEF Write, Overwritten, Empty
<1> QED
    BY <1>1, <1>2, <1>3, InitTyped, PTL DEF Spec, AlonePersists
=============================================================================
