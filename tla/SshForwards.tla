---------------------------- MODULE SshForwards ----------------------------
(***************************************************************************)
(* SSH port forwards: the handlers of POST and DELETE /v1/ssh-forwards,    *)
(* the NAT rules of the kernel and the file the rules are restored from at *)
(* boot.  Handlers run in threads without a lock; every iptables command   *)
(* and every use of the file is a step of its own.                         *)
(*                                                                         *)
(* A rule is one triple of host port, address and VM port.  The kernel     *)
(* keeps as many copies of a rule as were appended; their order does not   *)
(* matter to what is checked here.  iptables-save writes all tables, so    *)
(* the file of a host without forwards is not empty.                       *)
(***************************************************************************)
EXTENDS Integers, FiniteSets

CONSTANTS
    Threads,    \* threads that serve the two handlers
    Rules,      \* the forwards that are asked for
    MaxFaults   \* bound: checks that fail although iptables has the rule

ASSUME ForwardsAssumption ==
    /\ IsFiniteSet(Threads)
    /\ MaxFaults \in Nat

VARIABLES
    nat,      \* kernel: copies of each rule in PREROUTING
    file,     \* /etc/iptables/rules.v4
    pc,       \* where each thread is in its handler
    op,       \* the request each thread serves
    saved,    \* the output of iptables-save each thread holds
    faults,   \* history: checks that failed on a rule that is there
    alone     \* history: no other request overlapped this thread's so far

vars == <<nat, file, pc, op, saved, faults, alone>>

-----------------------------------------------------------------------------
NoRules  == [r \in Rules |-> 0]
Whole(s) == [state |-> "whole", rules |-> s]
Empty    == [state |-> "empty", rules |-> NoRules]
Torn     == [state |-> "torn",  rules |-> NoRules]

Requests == [kind : {"add", "remove"}, rule : Rules]
NoRequest == [kind |-> "none"]
Busy(t)  == pc[t] # "idle"

\* What the file can hold after new is written from offset 0 over old.  A
\* thread truncates when it opens the file; if others have written since, the
\* end of a longer text shows behind a shorter one.
Overwritten(old, new) ==
    {Whole(new)} \cup
    (IF \/ old.state = "empty"
        \/ old.state = "whole" /\ \A r \in Rules : old.rules[r] <= new[r]
     THEN {} ELSE {Torn})

\* What a boot makes of the file: iptables-restore takes all of it or nothing.
Restored(f) == IF f.state = "whole" THEN f.rules ELSE NoRules

Init ==
    /\ nat = NoRules
    /\ file = Whole(NoRules)
    /\ pc = [t \in Threads |-> "idle"]
    /\ op = [t \in Threads |-> NoRequest]
    /\ saved = [t \in Threads |-> NoRules]
    /\ faults = 0
    /\ alone = [t \in Threads |-> FALSE]

GoTo(t, label) == pc' = [pc EXCEPT ![t] = label]

\* The handler answers.
Answer(t) ==
    /\ GoTo(t, "idle")
    /\ op' = [op EXCEPT ![t] = NoRequest]
    /\ saved' = [saved EXCEPT ![t] = NoRules]
    /\ alone' = [alone EXCEPT ![t] = FALSE]

\* All threads are gone, as after the start of the agent.
NoThreads ==
    /\ pc' = [t \in Threads |-> "idle"]
    /\ op' = [t \in Threads |-> NoRequest]
    /\ saved' = [t \in Threads |-> NoRules]
    /\ alone' = [t \in Threads |-> FALSE]

-----------------------------------------------------------------------------
(* add_ssh_forward and remove_ssh_forward *)

\* Mutant of Check: add_ssh_forward appends without looking.
CheckRemoveOnly(t) ==
    /\ ~Busy(t)
    /\ \E o \in Requests, found \in BOOLEAN :
         /\ op' = [op EXCEPT ![t] = o]
         /\ found <=> nat[o.rule] > 0
         /\ GoTo(t, CASE o.kind = "add"              -> "append"
                      [] o.kind = "remove" /\ found  -> "delete"
                      [] OTHER                       -> "open")
    /\ alone' = [u \in Threads |-> u = t /\ \A v \in Threads : ~Busy(v)]
    /\ UNCHANGED <<nat, file, saved, faults>>

\* Mutant of Check: remove_ssh_forward is a copy of add_ssh_forward in which
\* the -A of the rule was left.
CheckCopied(t) ==
    /\ ~Busy(t)
    /\ \E o \in Requests, found \in BOOLEAN :
         /\ op' = [op EXCEPT ![t] = o]
         /\ found <=> nat[o.rule] > 0
         /\ GoTo(t, IF found <=> o.kind = "remove" THEN "append" ELSE "open")
    /\ alone' = [u \in Threads |-> u = t /\ \A v \in Threads : ~Busy(v)]
    /\ UNCHANGED <<nat, file, saved, faults>>

\* A request comes in and iptables -C is run.  Every exit status but 0 reads
\* as "not there", also that of a check that failed for another reason.
Check(t) ==
    /\ ~Busy(t)
    /\ \E o \in Requests, found \in BOOLEAN :
         /\ op' = [op EXCEPT ![t] = o]
         /\ found => nat[o.rule] > 0
         /\ IF ~found /\ nat[o.rule] > 0
            THEN faults < MaxFaults /\ faults' = faults + 1
            ELSE UNCHANGED faults
         /\ GoTo(t, CASE o.kind = "add"    /\ ~found -> "append"
                      [] o.kind = "remove" /\ found  -> "delete"
                      [] OTHER                       -> "open")
    /\ alone' = [u \in Threads |-> u = t /\ \A v \in Threads : ~Busy(v)]
    /\ UNCHANGED <<nat, file, saved>>

\* iptables -A
Append(t) ==
    /\ pc[t] = "append"
    /\ nat' = [nat EXCEPT ![op[t].rule] = @ + 1]
    /\ GoTo(t, "open")
    /\ UNCHANGED <<file, op, saved, faults, alone>>

\* iptables -D takes one copy of the rule away.
Delete(t) ==
    /\ pc[t] = "delete"
    /\ nat[op[t].rule] > 0
    /\ nat' = [nat EXCEPT ![op[t].rule] = @ - 1]
    /\ GoTo(t, "open")
    /\ UNCHANGED <<file, op, saved, faults, alone>>

\* Mutant of Open: the file is opened without truncating it.
OpenKeeping(t) ==
    /\ pc[t] = "open"
    /\ GoTo(t, "save")
    /\ UNCHANGED <<nat, file, op, saved, faults, alone>>

\* persist: open(PERSIST_PATH, 'w') truncates the file.
Open(t) ==
    /\ pc[t] = "open"
    /\ file' = Empty
    /\ GoTo(t, "save")
    /\ UNCHANGED <<nat, op, saved, faults, alone>>

\* persist: iptables-save
Save(t) ==
    /\ pc[t] = "save"
    /\ saved' = [saved EXCEPT ![t] = nat]
    /\ GoTo(t, "write")
    /\ UNCHANGED <<nat, file, op, faults, alone>>

\* persist: write and close, then the handler's answer: ok, and removed.
Write(t) ==
    /\ pc[t] = "write"
    /\ file' \in Overwritten(file, saved[t])
    /\ Answer(t)
    /\ UNCHANGED <<nat, faults>>

\* A command or a use of the file fails, or -D does not find the rule any
\* more: the handler answers with an error and the rest is not done.  A write
\* that runs out of disk leaves a part of its text.
Fail(t) ==
    /\ Busy(t)
    /\ IF pc[t] = "write" THEN file' = Torn ELSE UNCHANGED file
    /\ Answer(t)
    /\ UNCHANGED <<nat, faults>>

\* The agent dies; the kernel's rules and the file stay.
AgentCrash ==
    /\ NoThreads
    /\ UNCHANGED <<nat, file, faults>>

\* The host boots and restores its rules from the file.
Reboot ==
    /\ nat' = Restored(file)
    /\ NoThreads
    /\ UNCHANGED <<file, faults>>

Next ==
    \/ \E t \in Threads : \/ Check(t) \/ Append(t) \/ Delete(t) \/ Open(t)
                          \/ Save(t) \/ Write(t) \/ Fail(t)
    \/ AgentCrash \/ Reboot

Spec == Init /\ [][Next]_vars

-----------------------------------------------------------------------------
(* Properties *)

Counts == [Rules -> Nat]
Files  == [state : {"whole", "empty", "torn"}, rules : Counts]

\* Every variable has its type, and iptables -A is run for an add only and -D
\* for a remove only.
TypeOK ==
    /\ nat \in Counts
    /\ file \in Files
    /\ pc \in [Threads -> {"idle", "append", "delete", "open", "save", "write"}]
    /\ op \in [Threads -> Requests \cup {NoRequest}]
    /\ \A t \in Threads : /\ pc[t] = "append" => op[t].kind = "add"
                          /\ pc[t] = "delete" => op[t].kind = "remove"
    /\ saved \in [Threads -> Counts]
    /\ faults \in 0..MaxFaults
    /\ alone \in [Threads -> BOOLEAN]

\* Threads between their check of rule r and their iptables -A.
Adders(r) == {t \in Threads : pc[t] = "append" /\ op[t].rule = r}

\* add_ssh_forward checks before it appends, but not in one step: there can
\* be as many copies of a rule as there are threads, and one more for each
\* check that failed, and never more, through any number of requests,
\* crashes and reboots.
DuplicatesBounded ==
    \A r \in Rules : nat[r] + Cardinality(Adders(r)) <= Cardinality(Threads) + faults

\* A request that was served alone and is answered ok leaves the kernel's
\* rules in the file, so that they survive a reboot.
AlonePersists ==
    [][\A t \in Threads : Write(t) /\ alone[t] => file' = Whole(nat)]_vars

\* The answer 'removed': True means that the rule is gone, at the least when
\* no other request came in between.
RemovedIsGone ==
    [][\A t \in Threads :
         Write(t) /\ alone[t] /\ op[t].kind = "remove" => nat[op[t].rule] = 0]_vars

=============================================================================
