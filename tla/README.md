# Steward, in TLA+

Steward (`src/steward/`) is the agent a SharedHubs host runs beside Proxmox and
Caddy.  A panel calls its HTTP API to make, back up and restore virtual
machines, to run scripts inside them, to open SSH forwards and to route
hostnames; a background loop keeps Caddy's routes as the panel lists them.
Handlers are plain functions that FastAPI runs in a pool of threads, so any two
requests overlap, and nearly all state lives outside the process: in Caddy, in
the kernel's NAT table, in Proxmox, in S3 and in the VMs.  Every step of a
handler is a request to, or a command of, one of those, and each can fail, time
out after the fact, or be the last one before the agent is killed.  That is
what the modules here are about: the order of those steps, and what is left
when some of them do not happen.

## Inventory

| part | source | state | operations | interacts with | what makes it correct |
|---|---|---|---|---|---|
| Ingress reconciler | `services/ingress_reconciler.py`, `main.py` | `_pending_extra`, locals of a pass | `reconcile_once`, run by the loop and once by the start-up task | panel (GET), Caddy (admin API) | routes become what the panel lists; a route goes only after two answers without its host |
| Caddy route store | `services/ingress_caddy.py` | none; Caddy's list of routes | upsert, delete, list, prune | Caddy | pruning leaves managed routes alone; an upsert never leaves two routes |
| Caddy mode | `services/ingress_caddy.py`, `main.py` | none; Caddy's listen addresses, `automatic_https`, TLS automation, other servers | `configure_caddy_mode`, run by the start-up hook and by each pass | Caddy | one call sets the whole mode from whatever it finds; racing calls end in the mode of the panel |
| Ingress API | `routers/ingress.py` | none | upsert, delete, list | route store, beside the reconciler | its races with the reconciler heal |
| SSH forwards | `routers/ssh_forwards.py`, `services/iptables.py` | none; NAT rules, `/etc/iptables/rules.v4` | add, remove, persist | iptables, the file, boot | bounded duplicates; what was answered ok survives a reboot |
| Backup | `routers/backup.py` | `_BACKUP_LOCK` | one vzdump into one S3 object | vzdump (two pipes), S3 | one at a time, but for a vzdump that an exception has left behind; ok means a whole object; no partial object stays without a failure that explains it |
| Restore | `routers/restore.py` | `_RESTORE_LOCK` | one S3 object into one VM, configure, start | S3, decompressor, qmrestore, qm; the other requests about that VM | one at a time, but for processes that an exception has left behind; ok means that the whole object, if compressed the whole dump, is on the disk of its own VM |
| VM lifecycle | `routers/vms.py`, `services/proxmox_local.py` | none; the VMs of Proxmox and their locks | provision, start, stop, destroy | qm; restores | a provision works on its own VM while nobody takes that away; a restore is left alone while it writes; every request is answered |
| Projects in a VM | `routers/vms.py`, `vm_guest_exec` | none; `deploy_path`, `.env`, containers | clone, env write, compose up and down | guest agent | `.env` whole or not at all; a clone keeps the work tree; ok means done |
| Guest tools | `routers/vms.py` | none; files, units and packages in the VM | editor: install, configure, stop; git, gh, docker: install | guest agent, systemd in the VM, apt | what an install unpacks is whole; no server runs with another port or token than the last configure gave |
| GitHub device login | `routers/vms.py` | none; device codes, a token on its way, what gh and git store | start, poll, logout | GitHub, guest agent | completed has logged in whoever approved |
| Self-update | `routers/admin.py`, `systemd/steward.service` | files in `/tmp`, the agent's own code, the update unit | download, write the script, start the unit; the script | systemd, bash, tar | the script finds its tarball; code is replaced under a stopped agent; the agent is started again |
| Reading endpoints | `routers/vms.py`, `services/proxmox_local.py` | none | status, resources, discover, env read, compose files / ps / services / logs, gh lists | qm, guest agent, gh | text parsing, no state |
| Health and metrics | `routers/health.py`, `services/system_metrics.py`, `services/code_hash.py` | cached hash | read | /proc, disk, Caddy | no state |
| Configuration | `config.py` | `agent_token` | load, `reload_token` | the YAML file | no state but the token |

The hard behaviours are listed, each at its line, under `hazards` in
`PROJECT.json`.

## Modules

| module | models | proofs |
|---|---|---|
| `Ingress` | reconciler, route store, ingress API | `IngressProofs` |
| `CaddyMode` | Caddy mode | `CaddyModeProofs` |
| `SshForwards` | SSH forwards | `SshForwardsProofs` |
| `Backup` | backup | `BackupProofs` |
| `Proxmox` | what Proxmox keeps of the VMs | |
| `Restore` | restore, in its processes and pipes | `RestoreProofs` |
| `RestoreJob` | what a restore promises (abstract) | |
| `Vms` | VM lifecycle | |
| `Host` | `Vms` and `RestoreJob` together | `HostProofs` |
| `SelfUpdate` | self-update, systemd unit | `SelfUpdateProofs` |
| `GuestExec` | `vm_guest_exec`: scripts in a VM | |
| `Projects` | projects in a VM | |
| `GhAuth` | GitHub device login | |
| `Editor` | the editor of the guest tools | |
| `Guest` | `Projects`, `GhAuth` and `Editor` together | `GuestProofs` |

Who uses whom: `Restore`, `RestoreJob` and `Vms` extend `Proxmox`; `Host`
extends `Vms` and instantiates `RestoreJob`; `Restore` instantiates `RestoreJob`
as the specification that it implements.  `Projects`, `GhAuth` and `Editor`
extend `GuestExec`; `Guest` extends `Projects` and instantiates the other two.
The other modules stand alone.  Theorems about a module are in a module of their
own, `...Proofs`, that extends it.

Each module is parameterised by its threads and by small sets of names; a
configuration gives them values.  An action is one request or command with the
local computation that follows it.  Properties come at the end of a module;
operators whose comment begins with "Mutant of" are deliberate bugs, used only
to confirm that a property notices them.  A variable or field that is marked
`history` is read by properties and guards of bounds only.

### Ingress

`table[h]` is the list of Caddy's routes for one host, in Caddy's order, each
told by its upstream; `stray` stands for all routes without the `shproject-`
prefix.  `panel` is what the panel would list now; `snap[w]` is the `panel_map`
of a pass; `todo`, `extra`, `doomed` are what the two loops of `reconcile_once`
have still to do; `pending` is `_pending_extra`.  `reconcile_once` is
`Fetch, ReadForPrune, WritePruned, List, (PushDelete, PushInsert)*, Confirm,
Collect*, Finish`; it is run by two workers, `startup` (once) and `loop` (for
ever), exactly because `main.py` starts both and the start-up task does not
hold the loop back.  A `CaddyError` inside a pass is the second alternative of
an action and the pass goes on; anything else (`Lost`: a read time-out, a
dropped connection, an unreadable panel) leaves the pass in the middle, with
the request carried out or not.

Assumptions about Caddy, from how the code uses it: `DELETE /id/x` takes away
the last object with that id; with `UniqueIds` a configuration that would hold
an `@id` twice is refused; the first matching route serves.  `Converges` rests
on `UniqueIds = TRUE`.  With `FALSE`, TLC finds two interleaved upserts that
leave two routes for one host: `list_managed_routes` sees the last, which is
what the panel wants, Caddy serves the first, and no pass changes anything any
more.  Whether this can happen is a matter of the Caddy version, so it is not
one of the runs.  `Listable` separates hosts whose route id `ROUTE_ID_RE`
matches; a host it does not match is upserted by every pass and never deleted,
so the runs have `Listable = Hosts`.

### CaddyMode

`configure_caddy_mode` beside the routes.  `listen`, `https` and `onDemand` are
the ports, `automatic_https` and TLS automation of Caddy's configuration,
`other[o]` the ports of each server that is not `srv0`.  Three workers call it:
the start-up hook, always for an edge host, and after it the start-up pass and
the loop, each for the answer of the panel it has (`want[w]`).  `Read` is the
one GET of all servers; `fix[w]` and `blocking[w]` are what it decides about the
ports, and `Free` and `Listen` act on them up to four requests later.  No status
but that of the first read is looked at: `PassedOver` is a request that is
refused, or whose answer reads as nothing, and the call goes on.  `Fail` is an
exception.  `_prune_stray_routes`, which ends the call, is in `Ingress`; the two
modules share no variable of Caddy's, since one is about routes and the other
about everything else.

Assumptions about Caddy, from how the code uses it: it refuses a configuration
in which two servers claim one port (the reason for `_free_listeners`), and a
PUT on a key that exists.  The second means that the `PUT` of
`automatic_https` fails, unnoticed, where the file has an `automatic_https` of
another form (say, `disable_redirects`): an edge host with one never disables it.
With `"custom"` in `Found` TLC shows just that, against `AloneSets` and
`Converges`; whether there are such hosts is not told by the repository, so the
run has `Found = {"absent", "disabled"}`.

`alone[w]` is a history: since `w`'s first read no other worker was in a call, no
request of `w`'s was passed over and Caddy was not reloaded.  `AloneSets` and
`OpensSecured` are about such calls.  Without the condition both are false: two
calls that go by different answers can leave half of each mode.  `Converges`
says that this heals, and so does the edge mode that the hook sets at every
start of the agent, on a public host too.

### SshForwards

`nat[r]` counts the copies of a rule, `file` is the rules file, which is whole,
empty or torn.  `Check` (`iptables -C`) decides what the handler does next;
`Append`, `Delete` change the kernel; `Open`, `Save`, `Write` are `persist`,
which truncates before it asks iptables for the rules.  `Reboot` restores the
file, `AgentCrash` drops all threads.  `faults` bounds checks that fail though
the rule is there.

### Backup

One record `job[t]` holds the locals of a thread and the vzdump it has started.
vzdump writes `Size` parts to standard output and up to `MaxLog` lines to
standard error, whose pipe holds `PipeCap`; it ends well, badly, or by SIGPIPE
once the upload has closed the pipe.  `Upload` reads to the end of the output
however vzdump has ended, which is why an upload that succeeds may be cut.  The
end of the output need not be that of the process: `Silence` is a vzdump that
has closed it and runs on, so that also the wait after an upload that succeeded
may end in the kill.  An object is told by who uploaded it and how much it holds.

`UploadFails` is an upload that raises one of the exceptions of line 89 of
`backup.py`, `UploadRaises` one that raises another.  That one passes through both
`finally`s: the pipe is closed and the lock released, but nobody waits for vzdump,
kills it or cleans up.  The thread is then "left" until its vzdump has ended,
which is a bound: it serves no other backup meanwhile, and other threads do.
`OneAtATime` exempts what is left, since a second backup may begin beside it;
`debris` is a history, of the keys whose clean-up failed or never came.  A kill
of vzdump is taken to end its helpers too.

### SelfUpdate

`at[t]` and `file[t]` are a request: where its thread is and its temporary file.
`tmp[n]` tells what the file of each name holds, `script` which tarball
`/tmp/steward-update.sh` names ("blank" between its truncation and its write).
`unit` is the transient unit `steward-update`, one for all requests, whose first
step, `ReadScript`, comes after the request has been answered; so another
request may have written the script meanwhile.  The steps of `UPDATE_SCRIPT` are
one action each, with a failing twin where `set -e` or `|| true` decides what
comes of it.  `systemctl stop` is two steps: from the first on systemd lets no
new agent run and uvicorn takes no requests, but those it has go on.

`fit` tells whether the venv has the packages that the code under the root needs.
New code may need others (`Unpack`); `pip install` brings them (`Pip`) or fails
(`PipFails`), which the script passes over with `|| true`: it starts the agent all
the same, and without a package that it needs the agent exits (`Boot`).  `Returns`
says so much and no more: the agent is up with the new code, or was started with
it in vain.

`agent` is the service as systemd sees it: "dead" (it will be restarted,
`Restart=on-failure`), "stopped" (it will not).  A tarball may be whole, cut
(`read()` returns what came before the connection was closed) or something that
tar unpacks but that is no agent (the download is not checked against anything).
Two histories: `survived`, a stop has failed and left an agent running, which may
go on serving requests under a replaced tree; `broke`, a command of the running
update has failed.  What the properties promise, they promise without these.  The
mutant of `ReplacedStopped` stands for something outside the unit file that starts
the agent whenever it is down: `Restart=` does not undo a `systemctl stop`.

### Proxmox, Vms, RestoreJob and Host

`vm[v]` is what Proxmox has under a VMID: `made` tells, for each step that makes
a VM usable, which request has done it (its thread, or "done" once that request
is over), so that mixtures are visible; `locked` is the lock of Proxmox, which
qmrestore holds while it writes and a killed clone or restore leaves behind.
Between two commands of one request nothing is held.  `robbed` is a history: the
threads whose VM was destroyed or replaced while they worked on it, the one case
in which the code lets a request go on with another VM than its own.  The
properties about a request's own VM exempt them; they say what mixing requests
cannot do as long as none takes the VM away.

`Vms` has provision, start, stop and destroy, one action per qm command; each
command can fail, and one that is cut off by its time-out may have done its work.
`DestroyFails` covers two answers: an error, and ok for an error that says of
anything that it "does not exist" (line 80 of `proxmox_local.py`).  So no property
says that a destroy which is answered ok has destroyed the VM.

`RestoreJob` is the restore as the rest of the host may think of it: fetch, then
one step that replaces the target by a locked VM, one that finishes the disk as
a whole or cut short, one that accepts only a whole one, then set and start.
"Whole" is the whole object.  A request that ends with an uncaught exception is in
`left` (`Leave`): its qmrestore goes on, another restore may begin, and it is never
accepted.
`Elsewhere` is what it assumes of everybody else: locked VMs stay as they are,
nobody acts in the name of a restore, and whoever takes its VM away makes it
`robbed`.

`Host` puts the four requests of `Vms` beside restores in one pool of threads.
`SparesRestores` is `RestoreJob!Spec` with the other requests as its
environment: every step of theirs is an `Elsewhere` step.  So the assumption
that `RestoreJob` makes of others is a property of the code that serves them,
and not only an assumption.

### Restore

The thread feeds parts into a sink, the decompressor (if the key asks for one)
passes them on, qmrestore puts them on the disk; each pipe holds one part.  An
object may be cut: a backup that was killed leaves such ones, and `compress='0'`
makes uncompressed ones.  Where the key asks for a decompressor, that notices.
Where it does not, nobody need notice: qmrestore need not see that its input ends
early, and a cut object that it takes is restored, started and answered ok.
`OkMeansWhole` therefore promises all of the object, and the whole dump for those
that went through a decompressor.  `WaitQm` ends with the verdict of line 190 of
`restore.py`.

Two exceptions leave `_do_restore` with processes running and the lock released:
one of the second `Popen` (`FetchRaises`, the decompressor is left) and one of the
feeding that lines 132 and 135 do not name (`FeedRaises`, both are left).  The
thread is "left" until its processes have ended (`Gone`), and is not used for
another restore before that, which is a bound.  A decompressor that is left alone
meets the end of its input when its pipe is collected.  A qmrestore that is left
and hangs on an output nobody reads is not distinguished from one that is slow.

`Implements` is `RestoreJob!Spec` under the mapping `Phase`: until the first part
is on the disk a restore is in "fetch", and what it is then depends on its
process qmrestore alone until the thread comes to `qm set`, whether somebody still
waits for that or not; the threads that are "left" are `left`.  Up to six starts
are one `Start` of `RestoreJob`.  The environment of `Restore` is `Others`: VMs
that are made, destroyed, started and stopped in one step each, which is coarser
than `Host` and is there to disturb the restore; that the finer interleavings do
not disturb it either is what `Host` shows of `RestoreJob`.

### GuestExec

The scripts are processes of their own, in `Slots`; a thread only waits for one
(`waits`).  `Reply` and `Lost` end the wait whether the script has ended or not:
an exit code that did not come is -1.  A script that nobody waits for runs on.
`saw` is what its commands have read.  `alone` is a history: since the script was
asked for no other one of `Rivals` was, and the VM was not stopped.

### Projects

`tree` is the directory: `.git`, a head (None while git writes it) and `.env`.
`$$` in the name of the temporary file is the script itself; a slot that is used
again stands for a new process, whose name is unused.  Project names are left
out: one `deploy_path`, since two share nothing but the VM.

### GhAuth

`codes` are the device codes GitHub would still take, `holds[t]` the account
whose token the thread `t` has got from its poll and not yet sent into the VM,
`auth` what gh and git have stored there.  GitHub answers a poll with the token
once; after that the code is used up, whatever becomes of `save_script`, and the
panel has to begin again.  `save_script` is `gh auth login`, `gh auth setup-git`,
three times `gh api user`, two times `git config`; gh answers for whoever is
logged in when it is asked, which a concurrent login can change.

### Editor

`bin` is how much of the tarball is unpacked, `conf` the token file and the unit
on the disk, `server` the process that systemd has, with the port and token it
was started with.  A server that ends is started again by systemd (`Respawn`)
with the port of the unit it knows and the token file of that moment; whether a
start succeeds is open (`Started`), on a whole tree too, since the port may be in
use.  tar takes away a `BIN` that is there before it writes its own (`RemoveBin`,
`UnpackBin`), and from then on `[ -x "$BIN" ]` holds of a tree that is a "part",
up to `Unpack`.  Two tars at a time can spoil each other's files, so `Unpack` has
more outcomes when its script is not `alone`; this is the one place where that
history steers a step.  An install that was cut off after `BIN` leaves a part
that the next one takes for done.  `InstalledWhole` says that an install which
unpacks leaves the whole, and that one which finds a `BIN` leaves what it found:
the answer "installed" promises no more.  The answer of configure also asks systemd
whether the server is active, which changes nothing and is left out, as is what
other units (an older code-server) do.

### Guest

One VM with everything the agent does in it: the threads, `waits`, `script` and
the stop of the VM are common to the three.  What they write is not: no script
of one part writes what another part keeps, and all that one reads of another is
the login, on which the `gh repo clone` of a clone depends and without which it
fails (`Fails` and `CloneFails` of `Projects`, which need no reason).  So a
behaviour has requests of one part (`part \in Parts`), all parts are in the same
run, and the state space is a sum and not a product.

## Runs

| run | bounds | shows |
|---|---|---|
| `ingress_one` | 1 host, 2 upstreams, 1 API thread, both workers, incomplete panel entries | `TypeOK`, `CollectConfirmed`, `Converges` |
| `ingress_prune` | 1 host, 1 upstream | `PruneKeepsManaged` violated |
| `mode` | 1 other server, 3 workers | `TypeOK`, `AloneSets`, `OpensSecured`, `Converges` |
| `forwards` | 2 threads, 2 rules, 1 failing check | `TypeOK`, `DuplicatesBounded`, `AlonePersists` |
| `forwards_removed` | 2 threads, 1 rule, no failing check | `RemovedIsGone` violated |
| `backup` | 2 threads, 1 key, 2 parts, 2 lines into a pipe of 1 | `TypeOK`, `OneAtATime`, `NoDebris`, `OkMeansComplete`, `Finishes` |
| `backup_cleanup` | 1 thread, 1 key | `CleanupHitsPartial` violated |
| `restore` | 2 threads, 1 VM, 2 parts, 6 attempts | `TypeOK`, `OneAtATime`, `OkMeansWhole`, `Implements`, `Finishes` |
| `host` | 3 threads, 1 VM; `Going` 1 thread | `HostTypeOK`, `ProvisionsOwn`, `StartsReady`, `RestoresOwn`, `SparesRestores`, `Answered` |
| `selfupdate` | 2 threads, 2 temporary files | `TypeOK`, `TarballThere`, `ReplacedStopped`, `StartsOwn`, `Returns` |
| `guest` | 2 scripts; projects: 2 threads, 2 branches, 1 content; login: 1 thread, 2 accounts, 1 device code; editor: 1 thread, 2 configurations | `GuestTypeOK`, `EnvWhole`, `CloneKeepsProject`, `OkMeansDone`, `CompletedLogsIn`, `InstalledWhole`, `ConfiguredRuns` |
| `projects_failure` | 1 thread, 1 script | `FailureIsFinal` violated |

Why the bounds are enough to mean something.  Hosts of Caddy's table interact
only through `_prune_stray_routes` (which writes all hosts at once, and is
checked with one) and `_pending_extra` (a set, read per host), so one host shows
every race of three writers; two upstreams tell an old value from a new one;
the two workers and an API thread are three writers, one more than the two that
`upsert_route` needs to go wrong.  One stop of growth, `misses <= 2`, is the
number `CollectConfirmed` asks for.  The mode has two ports, and a server that is
in the way holds :80, :443 or both, which one server shows; the proof covers any
number of them.  Two forwards tell the rule of a request
from the others.  Two backups tell the holder of the lock from the one that is
refused, or from a vzdump that was left behind, one key lets them write over each
other, and `MaxLog > PipeCap` makes vzdump stick.  Two parts and pipes of
one part tell an empty object, a cut one and a whole one from each other, and let
the feeder and the decompressor be a part ahead of the next; six attempts are the
code's own number.  Two restores of one VMID are the one inside, or left behind,
and the other.  Three requests on one
VMID are a provision or a restore, one that disturbs it and one that disturbs
that one.  Two self-updates are one that has its unit and one that writes the
script under it, or is refused.  Two scripts in a VM are one and whatever it
meets.  Login and editor have one thread (`ToolThreads`), which still gives two
scripts at a time, the first of them deserted by a time-out; two accounts, or
two configurations, tell a script's own from the other's.  One device code at a
time is enough, since a code that is used up is free to be given out again.

Deadlock is checked in every passing run.

### Fairness

The liveness properties assume weak fairness of the agent's own steps and
nothing of the outside world, except where noted:

- `Ingress`: `Pass(w)` of both workers and `ApiInsert` of the API threads.
  `caddy_request` and the panel request have time-outs and the loop sleeps two
  minutes at most (`MAX_RETRY_DELAY_SEC`).  `Converges` is conditional: from
  some point on (`calm`) the panel's list stays and requests are answered.
- `CaddyMode`: `Pass(w)` of the three workers, for the same reasons, and
  `Converges` under the same condition.
- `Backup`: the thread's steps, and vzdump's own `Dump`, `Log`, `ExitOk`, so
  that a run of vzdump goes on where it can.  The claim starts at the `wait`:
  the upload before it has no time-out and can wait for ever for a vzdump that
  is blocked on its standard error, which nobody reads yet.
- `Restore`: the thread's steps from the `wait`s on, with `Set` or its failure
  and `Start` or its failure taken together, and nothing of the processes: each
  `wait` has a time-out and a kill.  While the object is fed there is none, so
  the claim starts after it.
- `Host`: the steps of `Vms` by the threads in `Going`; each command has a time-out
  (`_run`).  `Answered` is about those threads and assumes nothing of the others,
  so one of them, which stands for all, asks as much of the run as three would.
- `SelfUpdate`: the steps of the unit, nothing of the agent: systemd runs the
  unit, and each of its commands ends.  `Returns` does not assume that the agent
  answers, or that it comes back by itself.
- `Guest`: none.  That a request is answered follows from the time-out of
  `vm_guest_exec` alone; that a script ends is not for this repository to say.

### What does not hold

Four runs expect a violation; `findings` in `PROJECT.json` has the quotes.

1. `_prune_stray_routes` reads, filters and PATCHes the whole list: a managed
   route that is inserted in between is lost until a later pass.
2. `remove_ssh_forward` removes one copy of a rule and answers
   `'removed': True`; a second copy that two overlapping adds have left still
   forwards.
3. The clean-up of a failed backup deletes whatever is under the key.  If the
   upload itself failed, that can be the complete object of an earlier backup.
4. A script that outlives `vm_guest_exec` has no exit code, is read as `-1`, and
   is reported as `clone failed` or `compose up failed` while it goes on.

Other things fail that nothing in the repository promises, so no run expects them
to hold; the properties next to them say under which condition they do hold:

- that a request finds its VM as it left it, between two of its commands (`robbed`);
- that nothing runs for a backup or a restore once its request is over (`left`);
- that a restore which is answered ok of an uncompressed object had a whole dump;
- that a destroy which is answered ok has destroyed the VM;
- that what an install of the editor finds is whole;
- that the rules file is whole while requests overlap, or after the agent died;
- that two clones of one path leave a work tree, or two logins one account;
- that the agent comes up after a pip install that failed.

## Proofs

`IngressProofs` proves for every set of hosts, upstreams and API threads

- `TypeCorrect`: `Spec => []TypeOK`;
- `ConfirmedDeletions`: `Spec => []CollectConfirmed`.

`CollectConfirmed` speaks of `doomed`, which comes from `extra` and `pending`,
which come from earlier answers of the panel; so it is not inductive.  The
invariant adds `Evidence`: what a pass has in `extra` its own answer lacked; a
host that is in `pending`, or that the answer of a running pass lacks, was
missing from one answer at least; a host for which two of these hold (in
`pending` and lacking in a pass, or lacking in both passes) was missing from
two.  The delicate point is
that the two workers share `pending`: a host can come into it from the other
worker's pass while this one is between its fetch and its comparison, and the
counter must have reached two by then.  `Ready` is the part of the invariant that ties
each program counter to the locals it needs (a pass that is about to insert has
a job).  The strengthened invariant is `IInv`; the lemmas before it go through
the actions one by one.

`SshForwardsProofs` proves for every finite set of threads and every set of
rules

- `TypeCorrect`: `Spec => []TypeOK`, in which a thread comes to an append only
  with an add, and to a delete only with a remove;
- `BoundedDuplicates`: `Spec => []DuplicatesBounded`;
- `PersistedAlone`: `Spec => AlonePersists`.

Here a reboot brings back the rules of the file, which are those of some earlier
`iptables-save`; so the invariant `SnapshotsBounded` bounds the file and every
thread's saved text as well as the kernel.  Counting threads between check and
append rests on the cardinality facts of `FiniteSetTheorems`.  `AlonePersists`
speaks of the last step of `persist` and of rules that were listed two steps
before it: `Undisturbed` says that while a request is alone nobody else is at
work, that the file it has truncated stays empty, and that what it has listed is
what the kernel still has.

`CaddyModeProofs` proves for every set of servers beside `srv0`

- `TypeCorrect`: `Spec => []TypeOK`, in which the part that matters is that the
  ports of Caddy's servers never clash;
- `UndisturbedSets`: `Spec => AloneSets`, and `SecuredFirst`:
  `Spec => OpensSecured`, both under `Plain` (`"custom" \notin Found`).

The two action properties speak of the end of a call, so the invariant says what
an undisturbed call has achieved at each point of it: `Certificates` by program
counter, and `Listeners`, that every server which holds a wanted port is still
among those to be deleted.  `Only` says that nobody else is in a call, and
`HookFirst` that the hook, whose end starts the other two, ends alone.

`BackupProofs` proves for any number of threads and keys, dumps of any size and
logs of any length

- `TypeCorrect`: `Spec => []TypeOK`; `Exclusion`: `Spec => []OneAtATime`;
- `NothingIncomplete`: `Spec => []NoDebris`;
- `OkIsComplete`: `Spec => OkMeansComplete`.

An answer of ok rests on three things that happen one after the other, and each
is a part of the invariant: vzdump ends well only with the whole dump
(`EndsWhole`); an upload that has succeeded came after its end and what it has
read is under the key (`Put`); who is about to answer has its own whole object
there (`Complete`).  `Put` holds up to the answer because of `OneAtATime` alone:
nobody else writes to the bucket, not even for a vzdump that was left behind, whose
upload is over.  `Accounted` names, for every incomplete object, who will see to it.
`Exclusion` is what is left of one dump at a time when an exception of the upload
may leave one running: it holds of all other dumps.

`RestoreProofs` proves for any number of threads, VMs, parts and attempts

- `TypeCorrect`, `Exclusion` (`OneAtATime`), `RestoresAreWhole` (`OkMeansWhole`);
- `RestoreImplements`: `Spec => Implements`, the refinement of `RestoreJob`.

Nobody in the code knows how many parts there should be, and each of the three
processes sees one end of one pipe.  So `Fed` follows the parts: a decompressor
that ends well has decoded all of a whole dump, qmrestore that ends well has
written all it was offered and has met its end.  Together with line 190 they say
at `qm set` that all of the object is on the disk, and `Size` parts of a compressed
one, which none of them says alone.  `Owns` adds whose VM it is, for processes that
were left behind too: they write to their own VM, while it is locked, and nowhere
else.  The refinement then goes through the actions: each is the step of
`RestoreJob` that it is named after, or a stutter, or, for `Others`, an `Elsewhere`;
an uncaught exception is a `Leave`, and the end of what it left (`Gone`) a `Fail`.
What a refinement of `RestoreJob` is worth depends on what that asks: the whole
object before `qm set`, one restore at a time but for those left behind.

`HostProofs` proves for any number of threads and VMs

- `TypeCorrect`: `HostSpec => []HostTypeOK`;
- `ProvisionsKeepApart` (`ProvisionsOwn`), `ProvisionsAreComplete`
  (`StartsReady`), `RestoresKeepApart` (`RestoresOwn`);
- `HostSparesRestores`: `HostSpec => SparesRestores`.

Some twenty actions act on the same VMs, and a proof of each property against each
action would be long.  So `Effect(u)` says in four disjuncts what any command of
a thread `u` may do to the VMs, and the lemma `EffectKeeps` what that leaves to
the others: what `t` has made stays so or `t` is robbed of it (`Kept`), only `t`
acts in the name of `t` (`Named`), a locked VM stays as it is (`Locked`).  The
invariant `Served` (what each point of a provision, or phase of a restore, has
achieved) is then kept for all threads other than the one that moves by that one
lemma.  `Unlocked`, that nothing a provision has made is locked, is needed because
a clone that was cut off does leave a locked VM: it is nobody's by then.
All three properties exempt requests whose VM was destroyed or replaced under them
(`robbed`), and are false without that: they are about configuring, starting,
stopping, cloning and failing in any order, not about taking the VM away.

`SelfUpdateProofs` proves for any number of threads and temporary files

- `TypeCorrect`: `Spec => []TypeOK`;
- `ReplacedUnderStoppedAgent` (`ReplacedStopped`), `StartsWhatItUnpacked`
  (`StartsOwn`), `TarballNotLost` (`TarballThere`).

`Down` says that the agent is stopped from the end of the stop on, `Unpacked` what
the script has when it is past tar, and `Tarred` which tarballs are there: those
of requests, that of the script while somebody is about to have it run, and that
of the unit up to its tar.  The last is why two requests that write one script do
not take the tarball from under each other: a request that is refused leaves its
file where it is, and the script removes none but its own.

`GuestProofs` proves for any number of threads, scripts, branches, contents,
accounts, device codes and configurations

- `TypeCorrect`: `GuestSpec => []GuestTypeOK`; `EnvAlwaysWhole` (`EnvWhole`);
- `ClonesKeepProject` (`CloneKeepsProject`), `OkIsTrue` (`OkMeansDone`);
- `PollsLogIn` (`CompletedLogsIn`), `InstallsWhole` (`InstalledWhole`) and
  `ConfiguresRun` (`ConfiguredRuns`).

Scripts outlive the requests that started them, so none of these follows from
what a thread does.  `Exec` is what holds of the scripts whatever they do: two
threads never wait for one script, a script stays until it is answered, and
(`Solo`) a script that has a rival is not alone, whichever of the two was
launched first and whether the other has ended or not.  On it rests, for each
script that is alone, what it has achieved when it is at a given command:
`Cloned`, `LoggedIn`, `Installed`, `Configured`.  These need in turn what a script
has read, whether alone or not (`ProjectRead`, `LoginRead`): the commit that is
printed, and how many of LOGIN, NAME and EMAIL there are.  `EnvWhole` is not inductive because
`mv` takes what the temporary file holds; `ProjectRead` adds that no script comes
to its `mv` with a torn one, which is what the `$$` in the name is for.

Each of some thirty commands would have to be held against each of those
conditions of each other script.  `Acts` says what a command does to the scripts
(its own goes to a label, having read something; the others stay), `Fades` what any
step may do to a script that does not act (nothing, or it is broken off and alone
no more), and `Calm(kinds)` that all scripts of those kinds fade and what they
work on is left alone.  Three lemmas, one for each part, say that a calm step
keeps that part of the invariant; what is left is what a command does to its own
part, and to its rivals, which `Solo` settles.  The proof never uses that a
behaviour has requests of one part: `part` makes the run small and nothing else.

The proofs assume the named `ASSUME`s of the modules they are about and nothing
else.

Only model-checked: liveness (`Converges`, `Finishes`, `Answered`, `Returns`),
which the proof system does not reach.  Every invariant and every action
property that a passing run checks is also proved.

## Not modelled

- The drift report and all logging: they change nothing the agent reads.
- Contents of dumps, requests, scripts' outputs; validation of request fields,
  except where it decides what reaches the state.
- S3 multipart uploads: an object appears whole at the end of an upload or not
  at all.
- Two `deploy_path`s, two VMs in one `Guest`: they share nothing.
- The installs of git, gh and docker: each is a check, one script of apt or of
  Docker's installer, and a check.  What they change is the state of the package
  manager, which is not described in this repository.
- `rm -rf` of a work tree is one step; a stop of the VM that is not followed by
  a sync is taken to lose nothing that was written.
- vzdump's lock on the VM it dumps: `Backup` and `Host` share no VM.  While it lasts,
  qm commands on that VM fail, which every command in `Host` can do anyway.
- How much disk the objects of S3 take, and how long commands last.
- The endpoints that only read, the health check and the metrics: they parse
  text and do arithmetic on it, and keep nothing but a hash.
- The configuration: the file and the token.  That the start-up pass waits for a
  token only delays it.

## Plan

Done: the route plane, forwards, backup, restore, lifecycle, mode, self-update,
projects, login and editor; the abstract restore, its refinement and its place in
the host; the proofs of every safety property.

What is left: an atomic route map that `Ingress` implements while only one writer
is active; with two writers the code does not implement it, which `ingress_prune`
shows.
