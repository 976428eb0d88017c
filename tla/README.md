# Verification of the FluxVM control plane

TLA+ modules, TLC runs and TLAPS proofs for FluxVM, a Rust control plane that
creates, runs and reclaims virtual machines on one host (`crates/`), with an
optional fleet registry and Kubernetes operator in front of it.

## 1. The system

| Part | State | Operations | Talks to |
|---|---|---|---|
| State files: `Store`, `PoolStore` (`fluxvm-storage`), `IpamStore` (`fluxvm-network/ipam.rs`) | `vms.json`, `pools.json`, `ipam.json`, a lock file and a `.tmp` sibling each | `insert`, `insert_with_cid`, `update`, `get`, `list`, `remove`; `pop_member`, `push_member`; `allocate`, `release` | every process that runs VmManager: `fluxvm serve` and each one-shot CLI command |
| `VmManager` (`fluxvm-scheduler`) | the records, plus everything on the host they name | `create`, `start`, `stop`, `pause`, `resume`, `delete`, `reconcile`, the TTL pass | store, image, network, dataplane, backend, cgroup |
| Warm pools (same crate) | pool records; a mutex per pool name and process | `create_pool`, `delete_pool`, `claim_from_pool`, `backfill_pool` | PoolStore, VmManager, the guest agent's ping |
| Network namespaces (`netns.rs`) | namespace, veth pair, bridge, tap, NAT table, dnsmasq and its pid file, the /28 block | `prepare`, `cleanup` | `ip`, `nft`, dnsmasq, IpamStore |
| Dataplane (`dataplane.rs`, `ebpf.rs`, `xdp.rs`, `bpf/`) | policy file, pinned maps and programs, fingerprint, nftables | `apply`, `reconfigure`, `ensure`, `remove`, orphan collection | VmManager |
| Backends (`fluxvm-qemu`, `-firecracker`, `-cloud-hypervisor`) | a VMM process, its control socket, virtiofsd | `launch`, `pause`, `resume`, `graceful_shutdown`, snapshots | VmManager |
| XDP guard (`xdp.rs`) | program on the uplink, pins, markers, block map | `ensure` at every daemon start, `remove` | the uplink, other XDP software |
| FluxVM hypervisor (`fluxvm-hypervisor`) | lifecycle and guest handle behind one mutex; snapshot directory | Boot, Pause, Resume, Shutdown, SnapshotSave, SnapshotRestore | a Firecracker child's API, or a KVM thread |
| Image catalog (`catalog.rs`) | `catalog.json`, the download cache | add, remove, rename, clone, read-only, sign, clean, export, `resolve` | VmManager's creates, image builds |
| Root disks (`fluxvm-image`) | file overlay, thin LV, qemu-nbd process, RBD clone | `provision`, its undo, the reclaim of `delete` | VmManager |
| cgroups | one scope per VM | create, migrate, remove, limits | VmManager |
| Sandbox helpers (`sandbox.rs`) | activity times, templates | AutoPause, wake on request | VmManager |
| Guest agent, vsock client | connections, forked sessions | ping, exec, files, console | VmManager, pools, the API's console relay |
| Fleet registry, node agent (`fluxvm-agent`) | nodes and heartbeats, `fleet-nodes.json` | register, place, fan out | `fluxvm serve` of each node |
| Kubernetes operator (`fluxvm-kube`) | `DisposableVm` objects, watch caches | reconcile, cleanup, placement | the local `fluxvm serve`, the Kubernetes API |
| API, CLI | none | routing, authentication, quotas | VmManager |

What is hard about it:

* **No lock per VM.** Every operation reads a whole record, awaits host
  commands for seconds, and writes the whole record back with `update`, which
  inserts when the record is gone. Operations of tasks and of processes
  interleave at every await.
* **Several processes.** Only the state files coordinate them. The pool mutex
  and the catalog lock are in-process.
* **Every host command can fail** and the error paths undo by hand.
* **Any process can be killed** between two steps; the reaper is the only
  recovery.
* **Clean-ups are best effort.** Their errors are dropped, and the record forgets
  what it was to clean up; nothing tries again.
* **Guests die by themselves**; a record says Running until someone looks.
* **Kernel state is changed one command at a time** under a guest that keeps
  sending: a policy passes through every state between the old and the new one.
* **Timeouts leave commands behind**: what a caller gave up on may still happen.
* **Remote callers act on copies**: heartbeats, watch caches, answers that got
  lost.

For each part, what makes it correct: state files — atomic, durable against a
kill, no lost update; VmManager — nothing on the host without a record, records
that tell the truth, no disk taken from a live VMM, guests filtered from their
launch, unique CIDs, everything expired or stuck is collected; pools — a member goes to one
claim, sizes and states of members, no VM abandoned, refill; network — distinct
subnets, wiring that lasts as long as the VM, complete teardown; dataplane — a
status that tells the truth, never a mix of two policies, repair; XDP guard —
what is configured stays blocked; sandbox — lifecycle and guest agree, whole
snapshots, every request ends; backends — a command is sent once, an answer is
the command's own, record and guest agree, every chroot is owned; fleet and operator — placement on living nodes,
bounded leaks, objects that converge; catalog and disks — no edit lost
to another call, only vouched-for bytes, every volume owned.

The hazards behind these properties are listed, each at its line, under
`hazards` in `PROJECT.json`.

## 2. The modules

| Module | Models | Extends |
|---|---|---|
| `AtomicStore` | what a state file promises: every operation at one instant | — |
| `FlockStore` | the flock / re-read / closure / `.tmp` / rename protocol | instance of `AtomicStore` |
| `VmStoreOps` | the closures of `vms.json` | — |
| `VmLifecycle` | VmManager's operations, the reaper, the host | `VmStoreOps` |
| `WarmPool` | pools and their backfills across processes | — |
| `NetnsNet` | `netns::prepare`/`cleanup` over `ipam.json` and the host | — |
| `Dataplane` | one VM's policy: file, TC program, maps, markers, nftables | — |
| `XdpGuard` | the node's XDP guard over daemon starts | — |
| `Fabric` | the host's packet filters | `Dataplane`, `XdpGuard` |
| `Hypervisor` | fluxvm-hypervisor's requests, mutex and engine | — |
| `GuestAgent` | connections between host and guest agent | `Hypervisor` |
| `Sandbox` | the manager's and API's requests to one sandbox | `GuestAgent` |
| `NodeDaemon` | `fluxvm serve` as remote callers meet it | — |
| `Fleet` | registry, heartbeats, placement | `NodeDaemon` |
| `KubeOperator` | operator, placer, API server objects, watches | `NodeDaemon` |
| `Cluster` | nodes under one of the two | `Fleet`, `KubeOperator` |
| `Catalog` | `catalog.json` and the download cache | — |
| `Provision` | root disks from resolve to reclaim | `Catalog` |
| `VmmControl` | the control exchanges of the QEMU, Firecracker and Cloud Hypervisor backends | — |
| `Jail` | Firecracker's chroot under the jailer, over launches | — |
| `Machine` | a VM's image, disk, chroot and control channel | `Provision`, `Jail`, `VmmControl` |
| `MC*` | definitions the `.cfg` files choose from | the module they name |
| `*Proofs` | theorems and proofs | the module they name, `TLAPS` |

### State files

`FlockStore` has one action per step of `with_exclusive`/`with_shared`: open,
flock, read and run the closure, truncate the temporary file, fill it, rename,
return. `fs::write` is two steps because a kill in between leaves a torn file
that all writers share. An I/O error can end every step (`?` drops the lock)
and a process can be killed at each (the kernel drops it). The closure is the
constant operator `Outcomes`, so the model and its proofs serve all three files;
`MCFlockStore` gives it the methods of `Store`. An error of a read is answered
as `get` and `list` do: no record, an empty list.

Two simplifications. A successful read and its closure are one step, because
they happen under the lock and touch nothing else that is shared. There is no
power failure: the code never calls `fsync`, and promises nothing about one.

The other modules use the store as atomic, which is what the refinement
`Atomic` shows (TLC) and `Refinement` proves.

### VmLifecycle

`store` is `vms.json`. `pc`, `kind`, `tvm`, `rec` are a task: the await it is
at, its operation, its VM, its copy of the record. `pass` and `todo` are a
reaper's loop. The rest is the host: VMM processes `<<v, k>>` (the k-th launch
of v), which of them are suspended, namespaces, policies, disks, workspaces,
virtiofsd instances, cgroups. `due`, `born`, `gone` record expired, used and
deleted ids.

An operation is a walk through `pc`:

```
create   provision -> prepare -> apply -> launch -> save      (any -> undo -> save)
start                 prepare -> apply -> launch -> save      (any -> undo -> save)
stop     kill -> clean -> save                                (kill may return an error)
pause    signal -> save            resume  signal -> save
delete   dget [-> sget -> kill -> clean -> save] -> remove -> reclaim
reaper   reconcile: FoundDead -> rclean -> save | Repair -> reload
                    FoundAlive | ReapStuck -> delete
         orphan pins; then ttl: ReapExpired -> delete
```

The clean-ups of `undo`, `clean`, `rclean` and `reclaim` are best effort in the
code: each error is dropped or logged, and a stop's record forgets the namespace,
the virtiofsd pids and the cgroup whether they went or not. In the model each part
may fail by itself (`Failures`; `Fallible` is what may fail in a run: everything in
`vm_sequential`, nothing in the runs about other questions). `leaked` remembers
what a failed clean-up left, until the same thing is cleaned up or made again, so
that a property can except exactly that (`Left`) and nothing else: what was never
cleaned up, or was forgotten together with a thing that failed, still counts. What a
failing launch leaves is in `Launch`: a `build_args` of QEMU that fails ends it with
the virtiofsd instances running (launch 0, since no record names them).

`Repair` is the part of the reaper that reloads a filter: `ebpf::apply` takes off the
one that is there, under the running guest (`ebpf.rs:113`), and then loads the new
one (`Reload`) or fails to. `bare` are the VMs in between.

Abstractions. The backend is QEMU. Every VM asks for a seed disk and for shared
folders, and has a host edge exactly when it is in `NetnsVm`. Storage is a
file in the workspace or an lvm-thin snapshot. The network is one step each
way; `NetnsNet` has the inside. A `store.update` that fails is covered where
tasks are killable: a task killed at `save` leaves what a failed update leaves.
The orphan-pin collection lists the store and removes the pins in one step.
`MaxLaunch` bounds the launches of one VM: a launch past it fails, as one may.
`Listed` leaves out placeholders within their grace period; they can be no
business of that pass.

### WarmPool

`pools` is `pools.json`; a VM is its status. `hand[w]` is what only worker w
knows of — the member a claim popped, the VM a backfill created, the members
`delete_pool` has still to delete. A backfill belongs to a process and a pool
(`Filler`), since that is what the mutex serialises; `queued` counts those that
wait, capped by `MaxQueued` (a further one would find what the others left).
`Meddle` is what may happen to members behind the pool's back, `StoreFails` an
I/O error, `ProcessEnds` the exit of a CLI process with its spawned tasks.
The Failed record of a failed `create` has no VMM and is in no pool; the model
drops it.

### NetnsNet

One action per host command that changes what can be left behind; `Configure`
is the run of commands from the host end's address to the masquerade rule.
`Abort` is the error path of `prepare`, which runs the same cleanup as `stop`.
A VM in `Unlucky` may see its tasks killed and every step fail; for the others
only steps fail after which cleanup can restore the host. Two tasks may work at
once only on VMs in `Contended`. Properties of a VM are stated for VMs outside
the sets they do not hold for, in the presence of VMs inside. The block's release
succeeds: the code drops an error of it, and the block is then taken for as long as
`ipam.json` has it. `ReadySubnetsDistinct` compares VMs that are ready; that a ready
VM overlaps for a moment with the old host end of one being cleaned up, which gave its
block back first (`netns.rs:399`), is not excluded by it.

### Dataplane, XdpGuard, Fabric

`file` is the durable policy; `slot` the program in FluxVM's TC preference and
handle, `pin` the pinned one, `maps[i]` the maps of program i with the policy
last published to it (`shown`); `meta` the markers under `/run/fluxvm/ebpf`
(interface, program id, schema, fingerprint); `nft` the fallback table. A task
walks through one bpftool, tc or nft command per action (`pc`), and its `job`
says on whose behalf, hence what a failure does:

```
apply     unhook -> unpin -> load -> clear -> fill -> publish -> attach -> commit
in place  invalidate -> deny -> clear -> fill -> publish -> commit
nftables  table -> chain                          (legacy mode, fallback)
failure   set_network_policy: RollBack    launch: FallBack or LaunchFails
          reaper: GiveUp until its next round
```

The removal of pins (`Unpin`) succeeds: in the code its errors are dropped
(`ebpf.rs:224-227`), and pins that stay are met by the next `apply` or by the
collection. `Verdict` is the program's decision for a packet from its maps; `Allows` is what
a policy record means, so the properties compare the two over all packets.
There are one VM, no egress domains, no Cilium. `required` also stands for a
policy nftables cannot express, since both forbid the fallback. `MaxFault`
bounds failed commands, kills and foreign programs together.

`XdpGuard` is `ensure`, run by each daemon start with its configuration `want`;
`kept` remembers what every start since a successful one has configured.
`Fabric` puts both on one host. They share neither programs nor markers, so
`scope` lets a behaviour move one of them.

### Hypervisor, GuestAgent, Sandbox

`lifecycle` and `guest` are what the mutex protects, `holder` who has it, `ask`
the request of each client. A command to Firecracker may succeed, fail, or run
into `FC_API_TIMEOUT`: then it is an error now and is carried out `late`, and
commands behind it time out too. `acked` says whether the engine acknowledged the
last command it was given: what a failed, late or unanswered one has done to the
guest, nobody in the hypervisor knows. With KVM, pause and resume reach nothing.
SnapshotSave is four steps under the mutex, so that the guest, the engine and
the death of either come between. `Serve` gives the boot task the mutex first:
it is spawned before the first accept.

`line[c]` is a connection and its state at both ends; `copies[c]` are the forked
processes that inherited it, because the agent's descriptors are not
close-on-exec. `Sandbox` adds the record's status, the idle clock and the API
requests: `Begin`, wake if paused, dial, end; ticks of AutoPause; stop and launch.
`serves` picks, from `Mix`, which requests each caller makes in a behaviour.

### NodeDaemon, Fleet, KubeOperator, Cluster

A VM is the id in a node's `vms.json`; `create` is a step with its outcomes
(`VmLifecycle` has the inside), one of which is that the daemon stops in the middle
and leaves the placeholder. An exchange `rpc[c]` is sent, admitted (the quota
is checked before the create, so concurrent creates may pass together) and done.
`Fleet` keeps ages of heartbeats instead of clocks, `silence` is the true one.
One resource stands for vCPUs and memory. `KubeOperator` has the object, the
operators' cache of it, the placer's queue; `finalizer()`, watches and the API
server are external. Whatever loses or repeats an effect — a lost answer, a
failed patch, an action on a stale copy, a crash — counts in `mishaps`, so
that the property can say how much may leak. `deployment` picks registry or
operator.

### Catalog, Provision

`catalog` maps names to entries (source, hash, signature, read-only), `cache` maps
files to the bytes they hold: those of a source, or `part`. A URL's file is its
last segment (`BaseName`), and no lock covers it. Every call that changes
`catalog.json` reads it in one step and writes its copy (`read`) back in another:
under `catalog_lock` for the manager's (`Unlocked`), under nothing for
`catalog sign`, which is a process of its own. When the two overlap the one that
writes first has its write undone; `Writes` marks the other's job as `raced`. The
signing command writes the file in place; that a call, or another sign, reads it half
written (an error of the parser), or that a kill leaves it so, is not modelled.
`resolve` is modelled with
`trusted_signers` configured. `Provision` adds the record, the volume outside
the workspace and the steps create, undo, Failed record, delete and reclaim.
`focus` bounds a behaviour to one of three scopes: edits of entries, VMs made of
catalog images, and VMs of every storage with deletes; images are added, signed
and built in the first two. Proofs hold for any of them together. `mishap` marks the
VMs for which an undo failed or a call was killed: the code has no second try. The
writers of the record are create and delete. A `stop` that read the placeholder while
the create was under way, and writes it back afterwards (`lib.rs:997-1053`), can drop
`lvm_lv` or `nbd_pid` from it, after which delete gives nothing back; that overlap is
not modelled, and `VolumesOwned` does not exclude it.

### VmmControl, Jail, Machine

`VmmControl` is one VM whose record says `rec`, its VMM (`vmm`, `guest`) and
the requests `call[c]` of the manager's callers. A request is one exchange or
several (a snapshot is stop, savevm, cont), and each exchange connects afresh:

```
QMP                    connect -> greeting -> capabilities -> sent -> answer
                       (before sent, a dropped connection goes back to connect)
Firecracker, ch-remote connect -> sent -> answer          (no second try)
```

`serving` is the one connection QEMU's monitor has at a time; `pending` are the
commands that have reached the VMM, each with who still waits for it. A timeout
takes the waiter away and leaves the command; a `ch-remote` that is given up on
is not killed, so it may still reach the VMM. `strayed` says that a command was given
up on after it may have been sent, that a snapshot's resume failed, or that a handler
ended in the middle (`Dropped`: its client left, or `store.update` failed after the
VMM's yes). `solo`
picks whether requests follow each other or overlap. The VMM is external: it
carries out or refuses commands in order, sends events, comes up, dies.

`Jail` has, for each file that a launch places in the chroot, whether it is a
hard link (sharing the bytes of its source) or a copy with bytes of its own;
`LinkOrCopy` is what placing does to both, and `same_fs` whether linking can
work. `unlucky` marks the VMs whose first launch failed or an operation on which
was cut off, for which the code has no second try. An id that was deleted stands
for another VM afterwards.

`Machine` puts both beside `Provision`; they share no state that changes after a
launch, and `part` lets a behaviour move one of them.

## 3. The runs

| Run | Instance | Shows |
|---|---|---|
| `flock_store` | 2 processes, 2 VMs, 2 CIDs; all methods, errors and kills | `NoLostUpdate`; `Atomic`: every operation at one instant, the file never torn |
| `vm_sequential` | 1 task (caller and reaper), 1 netns + lvm-thin VM, 3 launches, stubborn VMMs, every clean-up fallible | `DiskOutlivesProcess`, `NothingOrphaned`, `RecordTruthful`, `FilteredFromLaunch` |
| `vm_liveness` | a killable caller against the reaper, 1 VM, slow creates | `DeadVmNoticed`, `ExpiredGone`, `StuckCreatingGone` |
| `vm_cids` | 2 killable callers, 2 VMs | `TypeOK`, `UniqueCids`, `CidNeverChanges` |
| `pool_daemon` | 1 process, 1 client, size up to 2, 4 VMs, 2 templates | `TypeOK`, `MembersPaused`, `NoneAbandoned`, `PoolConverges` |
| `pool_two_processes` | daemon and killable CLI, 2 clients, all mishaps | `ClaimedOnce`, `BoundedOvershoot` |
| `netns` | 3 VMs (one ordinary, one unlucky, one contended), 2 tasks, 2 blocks | `TypeOK`, `ReadySubnetsDistinct`, `ReadyStaysWired`, `TornDown` |
| `cluster` | 2 nodes (one may stop, one has tokens and a quota of 1), 1 fleet client, 1 object, 3 VMs, 1 mishap | `HealthyIsRecent`, `LeaksBounded`, `HealthFollowsNode`, `CrConverges` |
| `fabric` | 1 task, 2 destinations and 2 ports, both modes, required or not, 3 programs, 2 faults; the guard with 2 CIDRs | `SyncedMeansCommitted`, `NoMixedPolicy`, `NeverFailOpen`, `Repaired` |
| `sandbox` | 2 callers, 3 mixes of requests, both engines, 1 slip | `AgreesOnceAcked`, `NeverTorn`, `CallsEnd`, `ConsoleEnds` |
| `machine` | 2 requests, 2 names, 2 URLs with one file, 1 VM of every storage, one scope at a time; 2 jailed VMs with 3 launches; 3 backends with 2 slips, requests in turn or overlapping | `HostKept` (`VolumesOwned`, `JailOwned`, `SourcesKept`), `UpdatesKept`, `ResolvedAsVouched`, `DoneOnce`, `EarlyCallsSucceed`, `RecordMatchesGuest` |

Bounds. Two processes and two callers are the least that race; the proofs lift
what matters to any number. Three launches allow a relaunch after a failure
and one after that. More VMs than blocks makes the address pool run out. Four
VM ids let a pool of two be filled, claimed from and refilled. Two faults let
a rollback or a clean-up fail after the failure that caused it; three programs
are one attached, one pinned and a new one. One mishap and a window of two ticks let a restart of the
registry come between two heartbeats (two mishaps were checked as well). Two URLs with one
last segment are the least that collide. The mixes of `sandbox` keep requests
together that race: AutoPause with use, snapshots with stops, consoles with
execs (its invariants were also checked with all requests at once).
Two slips let the
answer to a failure fail too. A third launch of a jailed VM follows one that found the
chroot in place. One scope of catalog and disks at a time keeps `machine` at 1.9
million states; what the scopes share is the lock and the cache, and each has the calls
that use them.
Symmetry is used
only in runs without liveness and only over sets whose elements no constant
tells apart.

`NothingOrphaned` and `RecordTruthful` except a thing whose own clean-up failed,
because the code drops the error and forgets the thing; nothing collects it but a later
clean-up or launch of the same VM (and, for policies, the orphan collection). That
is a limit of what the code promises, and these properties say that it is the only one.
`FilteredFromLaunch` excepts the guest whose filter a repair took off: until a reload
succeeds it runs unfiltered (`ebpf.rs:113`), for a moment or, when loading fails, until
the next repair. `Repaired` says that this ends when the
faults do. `AgreesOnceAcked` says what holds of lifecycle and guest: a pause that times
out and is carried out later leaves a paused guest under a lifecycle that says Running,
and so does a save whose resume failed, until the next command the engine
acknowledges, and no longer.

The properties of `vm_sequential` are for operations that do not overlap on the
VM. They fail if operations overlap, because there is no lock per VM: the code
does not promise otherwise, and what survives any overlap is `UniqueCids`,
`CidNeverChanges`, the types and the liveness properties. The same run starts
only Stopped and Failed VMs; see `vm_start_paused` below.

Fairness. Weak fairness of an operation's next step: host commands and sockets
have timeouts, and the runtime polls ready tasks. Weak fairness of the reaper's
loop (`tokio::time::interval`) and of the passing of a TTL. In `WarmPool`, strong
fairness of `CreateMember`: a create that is tried again and again succeeds in
the end; without it a pool whose template cannot start never fills, which is no
fault of the pool. In `Dataplane`, weak fairness of a task's next command and
strong fairness of `Reconcile`: the reaper comes round although other operations
keep the VM busy in between; faults are bounded, so some round is undisturbed.
In `Sandbox`, weak fairness of the initial boot, of the manager's steps (each has
a timeout or an end of its own), of end of file and hang-up; strong fairness of
`Dispatch`, because tokio's mutex is first in, first out. No fairness of the
guest, of users or of Firecracker. In `Cluster`, weak fairness of handlers,
clocks, heartbeats, watches, reconciles and the restart of the registry (its
service manager); none of the daemons, so `CrConverges` assumes nodes that stay
up. A killed task is not resumed; callers' requests are not fair.

### Where the code and its documentation disagree

`vm_start_paused` is expected to violate `NoDiskReclaimedFromLive`: `start`
refuses only Running, so starting a Paused VM launches a second VMM and loses
the pid of the first, and delete takes the disk from it. The finding quotes the
line that says otherwise. The properties of the passing runs are stated around
the following, which TLC or reading showed and which keep no run of their own.

*VM manager.* A create that outlives the delete of its VM writes the record back
with a CID that has a new owner. A Failed create without a seed can be started
and runs without its cloud-init data. `reconcile` does not stop virtiofsd
instances; racing `start`, it can overwrite the record of a VMM just launched.
`attach_cgroup` can leave a directory no record names. A clean-up that fails is
not tried again: stop forgets the namespace, the virtiofsd pids and the cgroup all the
same (`lib.rs:1019-1049`), and delete has removed the record before it warns of a failing
`lvremove` or returns from a failing `remove_dir_all` (`lib.rs:1254-1283`). A `build_args`
of QEMU that fails leaves the virtiofsd instances (`fluxvm-qemu/src/lib.rs:388`). `list()` turns an I/O
error into an empty list, with which the orphan collection removes every pin;
the ids it lists are older than its scan of the pins. A recorded pid may have
been reused when `stop` looks at it.

*Pools.* A backfill pushes a member of an old template into a new pool of the
same name; two `create_pool` calls of one name can both succeed; two processes
that fill exceed the size (`BoundedOvershoot` says by how much); a dead member
stays listed until it is claimed; a CLI process killed inside a backfill abandons
its VM; every failing backfill leaves a Failed record that nothing expires; a backfill whose
`push_member` fails (the `?` at `lib.rs:1598`) abandons its Paused VM (`NoneAbandoned` is
checked with a store that works).

*Network.* A failure between adding and moving the veth pair leaves both ends on
the host; overlapping operations on one VM can end with two ready VMs on one
subnet; a failing write of `dnsmasq.pid` leaves a nameless namespace.

*Dataplane.* Two overlapping updates of one VM's policy can leave mixed maps with
a status that says synced (`dataplane.rs:267-269`; `Task` of two). A repair that
reloads takes the filter off a running guest, and leaves it off when loading fails
(`ebpf.rs:113`; the comment at 235-238 knows of it).
A failed `tc filter del` wedges the slot (`ebpf.rs:431`). At launch a failing
nftables table is only a warning when the policy is not required, and a guest
without a known address is launched unfiltered.

*Sandbox.* A "Paused" KVM guest keeps running. A launch returns after the first
Ping, though the boot may still fail. A killed hypervisor leaves its Firecracker
on the disk. Of two concurrent wakes the second gets "cannot resume from
running"; an overlap can leave the record Paused and the lifecycle Running. The
reverse proxy has no timeout; console and `agent_exec` neither wake nor count
as activity. A guest command may run after the host gave up on it; a background
child holds its pipes beyond the exec timeout; forked sessions inherit other
connections (`fluxvm-guest-agent/src/main.rs:248`). A save over an older snapshot
that fails midway leaves new memory beside the old disk. `create_sandbox` that
fails to write `sandbox-proxy.json` leaves the VM running.

*Backends.* stop leaves a jailed VM's chroot, so on one file system the second
launch cannot link and copies each file onto a link of itself, which empties the
root disk and the kernel all VMs boot (`fluxvm-firecracker/src/lib.rs:342`;
without its exception TLC refutes `SourcesKept`, so `HostKept` says nothing of such
relaunches: only that launches over two file systems and first launches spare the
files they place). QEMU answers a failing `savevm`
with text in a successful return that nobody reads, and the snapshot is reported
as saved (`qmp.rs:124`; the exception in `DoneOnce`). Cloud Hypervisor refuses to pause a paused VM, so `snapshot_save`
fails for the Paused VMs `create_vm_snapshot` admits. A pause that is carried out
after its timeout leaves the guest paused under a record that says Running, and
nothing compares them; the same when a client leaves, or `store.update` fails, after
the VMM has obeyed. A second caller that finds QEMU's monitor held waits for it, and
fails if its timeout comes first: `EarlyCallsSucceed` is for requests in turn.
Firecracker's API is not retried, so a pause right after
the spawn fails. A failing first launch under the jailer leaves a chroot that no
record names; a start with the jailer switched off overwrites `jail_path`; delete
removes `<id>/root` and leaves `<id>`. With `chroot_base_dir` on another file system
a relaunch copies the old disk over what the guest wrote. A failing
`build_args` of Cloud Hypervisor leaks the macvtap descriptor.

*Fleet and operator.* Placement works on the counts of the last heartbeats, so
a burst goes to one node. Registry and node agent send no bearer, so a guarded
node is counted as empty. An operator that acts on a stale cache may create twice,
or remove the finalizer with the VM running (against the comment at
`controller.rs:190-193`); a `get` that finds a Failed or Stopped VM counts as
present; each retry of a failing create leaves a Failed record.

*Images.* A fetch past its exists-check truncates the cached file after `resolve`
verified it. A partial download is taken as complete, and `add_entry` may pin its
hash. Cleaning removes the backing file of a running overlay once its entry is
gone. `catalog_lock` is held over a download without a timeout; `catalog sign`
ignores read-only, and undoes what a call wrote since it read the file, or has its
entry undone by a call that had read the file before (`fluxvm-cli/src/main.rs:385-392`). A Failed record keeps its
`nbd_pid`, which a later delete signals; without a pid file qemu-nbd is left.

## 4. The proofs

Every invariant and action property that a run checks is also proved, for
arbitrary constants that satisfy the modules' `ASSUME`s: any number of VMs, nodes,
tasks, callers and processes, and any bound on failures. Each inductive invariant
was an invariant of the run before it was proved. The remaining properties are the
nine of liveness (end of this section).

Hypotheses beyond the `ASSUME`s are in the statements, and each names something the
code does not ensure:

| hypothesis | theorems | why |
| --- | --- | --- |
| `[]OnePerVm`, `Killable = {}` | the four sequential ones of VmLifecycle | no lock spans an operation on a VM, and a killed one leaves what it has built; the run `vm_sequential` has one task |
| `"Paused" \notin StartFrom` | the same | `start_impl` takes a Paused VM and launches it a second time: the finding of `vm_start_paused` |
| `[]OneAtATime` | `PolicyNeverMixed`, `SyncedIsCommitted` | nothing keeps an update, a repair and a start of one VM's dataplane apart |
| `Mishaps = FALSE` | `MembersStayPaused`, `NoMemberAbandoned` | a VMM that dies, or an API call on a member, is seen by no pool |
| `Killable = {}`, `[]NeverOverwrites` | `NoMemberAbandoned` | a process that ends forgets its hand; `create_pool` checks for a name and inserts it under two holds of the lock |

TLC refutes each theorem on the instance of its run as soon as one of its
hypotheses is dropped (a second task or client, a killable one, mishaps, `start` of a
Paused VM).

Finite sets of processes, nodes, requests and objects are assumed where they are
counted (`PoolAssumption`, `DaemonAssumption`), and that nobody and the boot task
are no callers (`HypervisorAssumption`).

**FlockStoreProofs.** `IInv` is `TypeOK /\ LockInv /\ NoLostUpdate`, none of which
is inductive alone: a writer past the lock holds it alone, so the file has not
changed since its read and the temporary file is its own. `Invariance`
proves it, `UpdatesKept` reads off `NoLostUpdate`, and `Refinement` shows that
`Rename` (or `Apply`, when nothing is saved) is the abstract `Perform`, an I/O
error the abstract `Fail`, the return or kill `Leave`, and the rest stutters.

**VmLifecycleProofs.** `Typing` is by cases on the actions, through lemmas on how
a task enters, continues and ends. `CidsStayUnique` and `CidsNeverChange` need
more than the store: any stale copy may be written back. `CidInv` says that
all copies of a VM's record, in the store, in tasks and in reapers' lists, agree
on its CID; that copies exist only of ids that were created; that a VM created
and never deleted is stored; and that the CIDs of VMs never deleted are distinct. A
CID enters the system only in `insert_with_cid`, under the lock.

`DisksOutlive`, `GuestsFilteredFromLaunch`, `NothingIsOrphaned` and
`RecordsAlwaysTruthful` share `SeqInv`. The properties speak of the moments between
operations, or of one resource at a time; an induction needs each step of each
operation. So `SeqInv` says of every VM: if nobody works on it, it is `Settled` (the
host has exactly what its record names, and what a failed clean-up left); if one task does, `Stage` says for the step
the task is at what of that holds already. Failures in the middle, dead VMMs and the
reaper's copies are steps like any other. Of a VM on a reaper's list the copy is still
what is stored, because `OnePerVm` counts the list as work.

**WarmPoolProofs.** `PoolTyping` shows that whoever uses `hand[w][1]` has exactly
one VM in hand. `ClaimsAreExclusive` proves `ClaimedOnce` from `HandedOutOnce`,
which adds that a VM held or claimed is not new, so that no backfill creates it
again: every VM is in at most one slot of one place
(a pool or a hand), moves between places in one step, and leaves them for good
when a claim returns it. `OvershootIsBounded` counts with the members the backfills
between check and push (`Roomy`): a process has one at most, and its check was true when
it became one of them. `MembersStayPaused` carries the state of a VM through
the hands it passes on its way into a pool; `NoMemberAbandoned` that a VM owed to
somebody is in a place (`AllKept`).

**NetnsNetProofs.** `Inv` has `TypeOK`, `Injective` (no two VMs have one block in
`ipam.json`), `Alone` (one task per VM outside `Contended`), `Sequenced` (what
the host has for a VM at each step of its task) and `AllWired`. The lemma
`Local` says that a step on one VM changes nothing of another, so each action
is checked on its own VM only. `PreparedStaysWired` and `SubnetsStayDistinct`
follow; the second also needs that `block_to_octets` is injective on blocks.
`CleanedUpIsGone` needs the reverse as well, what a step has *left* (`AllOrderly`):
at each step of a cleanup the resources of the earlier steps are gone, and what is
left of a half-built VM goes with its namespace.

**FabricProofs.** `GuardNeverFailsOpen`: a program of ours on the uplink is the one
pinned and marked (`InService`), so no start takes it for a stranger's and replaces it,
and while its list is rewritten what was kept is among what is wanted, so
pruning spares it. For the policies every program is, between any two commands,
shut or exact (`MapsInv`); the markers name the pinned program and a fingerprint is that
of the policy in its maps (`MetaInv`); and the step a task is at says what it has written
(`TaskInv`): maps are shut before they are cleared, and the fingerprint is gone before
that.

**SandboxProofs.** Both results rest on the mutex: who starts a guest finds none
(`Vacant`); from the capture of the memory to the clone of the disk nothing runs and
no late command will make the guest run (`Quiesced`); a save keeps an engine that acknowledges its commands paused until it
resumes it (`Stilled`), whatever the lifecycle says in between. Of an engine that does
not, nothing is assumed: an acknowledged command finds the guest in whatever state late
and failed ones have left it, and sets it and the lifecycle alike.

**ClusterProofs.** `HealthyHeardOf`: in memory and on disk a node is at least as old as
its silence, so no reload makes it younger. `LeaksAlwaysBounded` is the result that
took the most: `LeaksBounded` counts what is lost already, while
a stale reconcile that has only been *sent* may lose a VM several steps later and
counts at once. `Debt` has a token for each VM whose knowers are all about to forget
it (`Drops`: the answer in flight will clear or remove the object that names it), for
each pick of the placer that will move an object which has a node (`Astray`), and
for each object whose next create may be for a node it has left (`Skewed`).
`LeakInv` says that there are at most as many tokens as mishaps. Most
steps add none; a mishap adds one; a crash one for each call it cuts off;
`Place` and `RecordCreated` trade a token for another, which is where ids given out
once (`Fresh`) are needed: the VM that is lost cannot also be held. That an object is
replaced only after a cleanup begun on a deleted one (`Guarding`) keeps reconciles in
flight about the object they began with.

**MachineProofs.** `MachineInv` has one part for each of the components that `Machine`
puts together. `JailInv` says who owns a chroot at each step of a launch,
of a failing one and of a delete; `ProvisionInv` the same of volumes and
qemu-nbd, that one task at most is past the catalog lock, that its copy of the
file is what the file holds, with its own change made, unless its job is marked as
raced, and that what a create has
verified is what the cache holds; `ControlInv` that a line waiting to be read was put
there for this exchange, and where record and guest stand at every stage of a request.
The proof found one fault of the model: a `CASE` of `VmmControl` (`Switched`) had
two guards that could hold at once; TLC takes the first, TLA+ does not say
which, and it is an `IF` now.

Only model-checked, because liveness is out of the prover's reach:
`DeadVmNoticed`, `ExpiredGone`, `StuckCreatingGone`, `PoolConverges`,
`HealthFollowsNode`, `CrConverges`, `Repaired`, `CallsEnd` and `ConsoleEnds`.

## 5. Not modelled, and the plan

One composition is left: VmLifecycle's steps with NetnsNet's and Dataplane's,
for what a killed create leaves in all three. Its state space is beyond TLC at
the bounds that make each of them interesting; the three agree on what `prepare`,
`apply` and their undoing promise each other.

Left out for good:

* the egress proxy and credential vault: a packet- and TLS-level relay whose
  state is one connection;
* the KVM engine: vCPU loop, devices, boot protocol — ioctls and memory layout;
* image builders and customisation: sequences of external tools;
* cgroup file formats, `set_resources`, freeze and thaw: single writes to the
  kernel; rate limits and flow statistics: counters in the kernel programs;
* Cilium endpoint files, which Cilium reads and FluxVM only writes;
* templates, the reverse proxy's forwarding, HTTP routing, metrics, logs,
  parsing and formatting; `shared_state.rs`, which nothing uses.
