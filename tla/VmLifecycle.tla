------------------------------ MODULE VmLifecycle ------------------------------
(***************************************************************************)
(* VmManager: create, start, stop, pause, resume and delete of a VM, the   *)
(* reaper's reconcile and TTL passes, and the host they act on.            *)
(*                                                                         *)
(* There is no lock per VM.  Every operation reads the VM's record, awaits *)
(* host commands while it edits its own copy, and writes the whole copy    *)
(* back with store.update, which inserts if the record is gone.  An action *)
(* below is the code between two awaits that touch shared state, so the    *)
(* operations of several tasks (API handlers, CLI processes, the reaper)   *)
(* interleave at every await.  The store itself is atomic (FlockStore),    *)
(* and its writes succeed here.                                            *)
(*                                                                         *)
(* Clean-ups are best effort: the code drops their errors and clears the   *)
(* record's fields all the same.  Each may fail; leaked then remembers     *)
(* what it left, so that properties can tell it from what was forgotten.   *)
(*                                                                         *)
(* VMs run on the QEMU backend; process <<v, k>> is the k-th launch of v.  *)
(***************************************************************************)
EXTENDS VmStoreOps

CONSTANTS
  Task,        \* operations that may be in flight at once
  Client,      \* the tasks that run callers' operations
  Reaper,      \* the tasks that run start_reaper's loop
  Killable,    \* the tasks whose process may be killed mid-operation
  NoVm,        \* no VM
  NetnsVm,     \* VMs with a network namespace (the others use user NAT)
  LvmVm,       \* VMs on lvm-thin storage (the others: a file in the workspace)
  MaxLaunch,   \* bound on the launches of one VM
  Ops,         \* the operations callers use in a run
  Ttl,         \* whether callers ask for a TTL: the choices of a run
  StartFrom,   \* the statuses of the VMs callers ask to start
  FailClosed,  \* dataplane.required, or a mode other than legacy
  Stubborn,    \* whether a VMM may survive stop's SIGTERM and SIGKILL
  Fallible,    \* what the clean-up of may fail in a run
  SlowCreate   \* whether a create may outlast STUCK_CREATING_GRACE

ASSUME LifecycleAssumption ==
  /\ Client \subseteq Task /\ Reaper \subseteq Task /\ Killable \subseteq Task
  /\ NoVm \notin Vm
  /\ NetnsVm \subseteq Vm /\ LvmVm \subseteq Vm
  /\ MaxLaunch \in Nat
  /\ Ttl \subseteq BOOLEAN
  /\ Fallible \subseteq {"net", "policy", "disk", "wsp", "cgroup", "vfs"}
  /\ FailClosed \in BOOLEAN /\ Stubborn \in BOOLEAN /\ SlowCreate \in BOOLEAN

VARIABLES
  store,      \* vms.json
  pc,         \* pc[t]: the await task t is at
  kind,       \* the operation it runs
  tvm,        \* the VM it runs it on
  rec,        \* its copy of the VM's record
  pass,       \* which of its two passes a reaper is in
  todo,       \* the records of the list it has still to visit
  launched,   \* launches of each VM so far
  alive,      \* the VMM processes that run
  suspended,  \* those whose vCPUs are stopped
  net,        \* VMs whose namespace, veth, tap and NAT rule exist
  policy,     \* VMs whose dataplane policy is there (filter, pins or table)
  disk,       \* VMs whose root disk exists
  wsp,        \* VMs whose workspace directory exists
  vfs,        \* launches whose virtiofsd instances run
  cgroup,     \* VMs whose cgroup directory exists
  leaked,     \* <<what, v>>: a failed clean-up of v left what behind
  bare,       \* VMs whose filter a repair took off and has not put back
  due,        \* VMs whose TTL has run out
  born,       \* ids create has used
  gone        \* ids delete has removed from the store

taskVars == <<pc, kind, tvm, rec>>
loopVars == <<pass, todo>>
procVars == <<launched, alive, suspended>>
auxVars == <<leaked, bare>>
hostVars == <<net, policy, disk, wsp, vfs, cgroup, auxVars>>
idVars == <<due, born, gone>>
vars == <<store, taskVars, loopVars, procVars, hostVars, idVars>>

Status == {"Creating", "Running", "Paused", "Stopped", "Failed"}

Kind == {"none", "create", "start", "stop", "pause", "resume", "delete",
         "reconcile"}

Step == {"idle", "provision", "prepare", "apply", "launch", "undo", "save",
         "kill", "clean", "signal", "dget", "sget", "remove", "reclaim",
         "rclean", "reload"}

\* What a clean-up may leave behind, of a VM.
Resource == {"net", "policy", "disk", "wsp", "cgroup"}

\* The part of VmRecord the operations read and write.  pid 0 is None;
\* virtiofsd is the launch whose pids virtiofsd_pids holds, 0 when empty;
\* the Booleans say that netns, lvm_lv, cgroup_path, seed_disk and
\* expires_at are Some (every VM here asks for shares and a seed disk).
VmRecord ==
  [status : Status, pid : 0 .. MaxLaunch, guest_cid : Cids \cup {0},
   netns : BOOLEAN, lvm_lv : BOOLEAN, cgroup : BOOLEAN, seed : BOOLEAN,
   virtiofsd : 0 .. MaxLaunch, expires : BOOLEAN]

ASSUME NoRecAssumption == NoRec \notin VmRecord

Placeholder(ttl) ==
  [status |-> "Creating", pid |-> 0, guest_cid |-> 0, netns |-> FALSE,
   lvm_lv |-> FALSE, cgroup |-> FALSE, seed |-> FALSE, virtiofsd |-> 0,
   expires |-> ttl]

Init ==
  /\ store = Empty
  /\ pc = [t \in Task |-> "idle"]
  /\ kind = [t \in Task |-> "none"]
  /\ tvm = [t \in Task |-> NoVm]
  /\ rec = [t \in Task |-> NoRec]
  /\ pass = [t \in Task |-> "none"]
  /\ todo = [t \in Task |-> Empty]
  /\ launched = [v \in Vm |-> 0]
  /\ alive = {} /\ suspended = {}
  /\ net = {} /\ policy = {} /\ disk = {} /\ wsp = {} /\ vfs = {} /\ cgroup = {}
  /\ leaked = {} /\ bare = {}
  /\ due = {} /\ born = {} /\ gone = {}

-----------------------------------------------------------------------------
(* Task bookkeeping.                                                       *)

Goto(t, step) == pc' = [pc EXCEPT ![t] = step]

\* An operation of kind k on v begins at a step that has read record r.
Enter(t, k, v, step, r) ==
  /\ pc[t] = "idle"
  /\ Goto(t, step)
  /\ kind' = [kind EXCEPT ![t] = k]
  /\ tvm' = [tvm EXCEPT ![t] = v]
  /\ rec' = [rec EXCEPT ![t] = r]

\* A caller's operation on a VM begins by reading its record.
Call(t, k, v, step) ==
  /\ t \in Client /\ pass[t] = "none" /\ k \in Ops
  /\ v \in Stored(store)
  /\ Enter(t, k, v, step, store[v])

\* The operation returns, with a value or an error.
Done(t) ==
  /\ Goto(t, "idle")
  /\ kind' = [kind EXCEPT ![t] = "none"]
  /\ tvm' = [tvm EXCEPT ![t] = NoVm]
  /\ rec' = [rec EXCEPT ![t] = NoRec]

\* It goes on with an edited copy.
Continue(t, step, r) ==
  /\ Goto(t, step)
  /\ rec' = [rec EXCEPT ![t] = r]
  /\ UNCHANGED <<kind, tvm>>

Procs(v) == {p \in alive : p[1] = v}

\* The process the task's copy of the record names.
Recorded(t) == <<tvm[t], rec[t].pid>>

\* The VMM that answers the VM's control socket: the last one launched.
Answering(v) == <<v, launched[v]>>

-----------------------------------------------------------------------------
(* Best-effort clean-up.                                                   *)

\* What there is of v.
Held(v) ==
  {what \in Resource : \/ what = "net" /\ v \in net
                       \/ what = "policy" /\ v \in policy
                       \/ what = "disk" /\ v \in disk
                       \/ what = "wsp" /\ v \in wsp
                       \/ what = "cgroup" /\ v \in cgroup}

\* The clean-ups that may fail when those in tried are; rmdir of a cgroup
\* does while a VMM is in it.
Failures(v, tried) ==
  LET busy == IF Procs(v) = {} THEN {} ELSE {"cgroup"} IN
  {failed \in SUBSET (tried \cap Held(v)) :
     tried \cap Held(v) \cap busy \subseteq failed /\ failed \subseteq Fallible \cup busy}

\* The VMs that have what, once v's has been cleaned up or not.
Without(S, v, cleaned) == IF cleaned THEN S \ {v} ELSE S

\* A clean-up that fails leaves something, one that succeeds nothing.
Leaks(v, tried, failed) == (leaked \ (tried \X {v})) \cup (failed \X {v})

\* network::cleanup and the removal of the cgroup act on what the record names.
Recalled(t) ==
  {"policy"} \cup (IF rec[t].netns THEN {"net"} ELSE {})
             \cup (IF rec[t].cgroup THEN {"cgroup"} ELSE {})

-----------------------------------------------------------------------------
(* create                                                                  *)

\* Workspace directory and placeholder record, with its CID reserved.
Create(t, v) ==
  /\ t \in Client /\ pass[t] = "none" /\ "create" \in Ops
  /\ v \notin born
  /\ \E ttl \in Ttl, needs_cid \in BOOLEAN :
       \E m \in InsertWithCid(store, v, Placeholder(ttl), needs_cid) :
         /\ store' = m
         /\ Enter(t, "create", v, "provision", m[v])
  /\ wsp' = wsp \cup {v}
  /\ born' = born \cup {v}
  /\ UNCHANGED <<loopVars, procVars, net, policy, disk, vfs, cgroup, auxVars, due, gone>>

\* qga on another backend than QEMU is refused after the record is inserted:
\* the placeholder stays.
RefuseQga(t) ==
  /\ pc[t] = "provision"
  /\ Done(t)
  /\ UNCHANGED <<store, loopVars, procVars, hostVars, idVars>>

\* A disk that is a file needs the workspace.  A failing lvm-thin provision
\* tries to undo its own work, and its lvremove may fail as well; a failing
\* clone or token injection may leave the file.
Provision(t) ==
  LET v == tvm[t] IN
  /\ pc[t] = "provision"
  /\ \/ /\ v \in wsp \cup LvmVm
        /\ disk' = disk \cup {v}
        /\ Continue(t, "prepare", [rec[t] EXCEPT !.lvm_lv = v \in LvmVm])
        /\ UNCHANGED leaked
     \/ /\ disk' \in {disk, disk \cup ({v} \cap (wsp \cup LvmVm))}
        /\ "disk" \in Fallible \/ disk' \cap LvmVm = disk \cap LvmVm
        /\ leaked' = leaked \cup ({"disk"} \X ((disk' \ disk) \cap LvmVm))
        /\ Continue(t, "undo", rec[t])
  /\ UNCHANGED <<store, loopVars, procVars, net, policy, wsp, vfs, cgroup, bare, idVars>>

-----------------------------------------------------------------------------
(* The launch sequence create and start share.                             *)

\* start_impl: a Running VM is returned as it is; the disk must exist.
Start(t, v) ==
  /\ Call(t, "start", v, "prepare")
  /\ store[v].status # "Running" /\ store[v].status \in StartFrom
  /\ v \in disk
  /\ UNCHANGED <<store, loopVars, procVars, hostVars, idVars>>

\* netns::prepare fails on a namespace that is already there, and on failure
\* cleans up under the VM's name whoever built it, or fails to.
Prepare(t) ==
  LET v == tvm[t] IN
  /\ pc[t] = "prepare"
  /\ \/ /\ v \in NetnsVm /\ v \notin net
        /\ net' = net \cup {v}
        /\ Continue(t, "apply", [rec[t] EXCEPT !.netns = TRUE])
        /\ UNCHANGED leaked
     \/ /\ v \in NetnsVm
        /\ \E failed \in SUBSET ({"net"} \cap Fallible) :
             /\ net' = IF failed = {} THEN net \ {v} ELSE net \cup {v}
             /\ leaked' = Leaks(v, {"net"}, failed)
        /\ Continue(t, "undo", rec[t])
     \/ /\ v \notin NetnsVm
        /\ Continue(t, "apply", [rec[t] EXCEPT !.netns = FALSE])
        /\ UNCHANGED <<net, leaked>>
  /\ UNCHANGED <<store, loopVars, procVars, policy, disk, wsp, vfs, cgroup, bare, idVars>>

\* Bug: launch goes on when the policy could not be attached.
ApplyPolicyFailOpen(t) ==
  /\ pc[t] = "apply"
  /\ \/ policy' = policy \cup ({tvm[t]} \cap NetnsVm)
     \/ UNCHANGED policy
  /\ Continue(t, "launch", [rec[t] EXCEPT !.seed = TRUE])
  /\ UNCHANGED <<store, loopVars, procVars, net, disk, wsp, vfs, cgroup, auxVars, idVars>>

\* create builds the cloud-init seed first (start does not).  A VM on user
\* NAT has no host edge to attach a policy to.  apply takes off what an earlier
\* launch left and may fail before or after, with the policy on or off.  Only
\* an optional legacy policy may be missing at launch.
ApplyPolicy(t) ==
  LET edge == {tvm[t]} \cap NetnsVm
      seeded == [rec[t] EXCEPT !.seed = @ \/ kind[t] = "create"]
  IN
  /\ pc[t] = "apply"
  /\ \/ /\ policy' = policy \cup edge
        /\ bare' = bare \ edge
        /\ leaked' = leaked \ ({"policy"} \X edge)
        /\ Continue(t, "launch", seeded)
     \/ /\ policy' \in {policy, policy \cup edge, policy \ edge}
        /\ leaked' = leaked \ ({"policy"} \X (edge \ policy'))
        /\ \/ ~FailClosed /\ Continue(t, "launch", seeded)
           \/ \E r \in {rec[t], seeded} : Continue(t, "undo", r)
        /\ UNCHANGED bare
  /\ UNCHANGED <<store, loopVars, procVars, net, disk, wsp, vfs, cgroup, idVars>>

\* attach_cgroup: best effort, it may leave the directory unrecorded.
AttachCgroup(t, v, r) ==
  \/ /\ cgroup' = cgroup \cup {v}
     /\ leaked' = Leaks(v, {"cgroup"}, {})
     /\ Continue(t, "save", [r EXCEPT !.cgroup = TRUE])
  \/ /\ \/ UNCHANGED <<cgroup, leaked>>
        \/ /\ cgroup' = cgroup \cup {v}
           /\ leaked' = Leaks(v, {}, {"cgroup"})
     /\ Continue(t, "save", r)

\* virtiofsd instances, then the VMM (its log is opened in the workspace).
\* A failed launch kills the virtiofsd instances it spawned, unless it is
\* build_args that fails: those are nobody's (launch 0).
Launch(t) ==
  LET v == tvm[t]
      k == launched[v] + 1
      started == [rec[t] EXCEPT !.pid = k, !.virtiofsd = k, !.status = "Running"]
  IN
  /\ pc[t] = "launch"
  /\ \/ /\ k <= MaxLaunch /\ v \in wsp
        /\ launched' = [launched EXCEPT ![v] = k]
        /\ alive' = alive \cup {<<v, k>>}
        /\ vfs' = vfs \cup {<<v, k>>}
        /\ AttachCgroup(t, v, started)
     \/ /\ Continue(t, "undo", rec[t])
        /\ \/ "vfs" \in Fallible /\ v \in wsp /\ vfs' = vfs \cup {<<v, 0>>}
           \/ UNCHANGED vfs
        /\ UNCHANGED <<launched, alive, cgroup, leaked>>
  /\ UNCHANGED <<store, loopVars, suspended, net, policy, disk, wsp, bare, idVars>>

\* Bug: the error path forgets the namespace.
UndoKeepsNet(t) ==
  /\ pc[t] = "undo"
  /\ policy' = policy \ {tvm[t]}
  /\ leaked' = Leaks(tvm[t], {"policy"}, {})
  /\ disk' = IF kind[t] = "create" /\ rec[t].lvm_lv THEN disk \ {tvm[t]} ELSE disk
  /\ Continue(t, "save", [rec[t] EXCEPT !.status = "Failed"])
  /\ UNCHANGED <<store, loopVars, procVars, net, wsp, vfs, cgroup, bare, idVars>>

\* The error path of create and start; create also gives the LV back.  Every
\* step of it may fail; the Failed record still names the LV and the namespace.
Undo(t) ==
  LET v == tvm[t]
      tried == Recalled(t) \ {"cgroup"}
  IN
  /\ pc[t] = "undo"
  /\ \E failed \in Failures(v, tried) :
       /\ policy' = Without(policy, v, "policy" \notin failed)
       /\ net' = Without(net, v, "net" \in tried \ failed)
       /\ leaked' = Leaks(v, tried, failed)
  /\ \/ disk' = Without(disk, v, kind[t] = "create" /\ rec[t].lvm_lv)
     \/ "disk" \in Fallible /\ UNCHANGED disk
  /\ Continue(t, "save", [rec[t] EXCEPT !.status = "Failed"])
  /\ UNCHANGED <<store, loopVars, procVars, wsp, vfs, cgroup, bare, idVars>>

\* Bug: the copy written back forgets the CID the store assigned.
SaveWithoutCid(t) ==
  /\ pc[t] = "save"
  /\ store' = Update(store, tvm[t], [rec[t] EXCEPT !.guest_cid = 0])
  /\ IF kind[t] = "delete" THEN Continue(t, "remove", rec[t]) ELSE Done(t)
  /\ UNCHANGED <<loopVars, procVars, hostVars, idVars>>

\* store.update of the task's copy: the last step of every operation but
\* delete, which goes on once its stop has returned.
Save(t) ==
  /\ pc[t] = "save"
  /\ store' = Update(store, tvm[t], rec[t])
  /\ IF kind[t] = "delete" THEN Continue(t, "remove", rec[t]) ELSE Done(t)
  /\ UNCHANGED <<loopVars, procVars, hostVars, idVars>>

-----------------------------------------------------------------------------
(* stop                                                                    *)

Stop(t, v) ==
  /\ Call(t, "stop", v, "kill")
  /\ UNCHANGED <<store, loopVars, procVars, hostVars, idVars>>

\* terminate_pid's SIGTERM, SIGKILL and waits.  It reports an error for a
\* process that has just exited by itself, and for one that does not die.
TerminatePid ==
  {end \in [dead : BOOLEAN, ok : BOOLEAN] :
     (end.ok => end.dead) /\ (Stubborn \/ end.dead)}

\* A live recorded process is asked to shut down over the control socket,
\* which a later launch may be answering, then terminated.  An error of
\* terminate_pid ends the operation.
Kill(t) ==
  LET p == Recorded(t)
      v == tvm[t]
  IN
  /\ pc[t] = "kill"
  /\ \/ /\ p \notin alive
        /\ Continue(t, "clean", rec[t])
        /\ UNCHANGED alive
     \/ /\ p \in alive
        /\ \E asked \in SUBSET {Answering(v)}, end \in TerminatePid :
             /\ alive' = alive \ (IF end.dead THEN {p} \cup asked ELSE asked \ {p})
             /\ IF end.ok THEN Continue(t, "clean", rec[t]) ELSE Done(t)
  /\ suspended' = suspended \cap alive'
  /\ UNCHANGED <<store, loopVars, launched, hostVars, idVars>>

\* Bug: the namespace stays.
CleanKeepsNet(t) ==
  LET v == tvm[t] IN
  /\ pc[t] = "clean"
  /\ policy' = policy \ {v}
  /\ vfs' = vfs \ {<<v, rec[t].virtiofsd>>}
  /\ cgroup' = IF rec[t].cgroup THEN cgroup \ {v} ELSE cgroup
  /\ leaked' = Leaks(v, {"policy", "cgroup"}, {})
  /\ Continue(t, "save", [rec[t] EXCEPT !.netns = FALSE, !.virtiofsd = 0,
                            !.cgroup = FALSE, !.status = "Stopped", !.pid = 0])
  /\ UNCHANGED <<store, loopVars, procVars, net, disk, wsp, bare, idVars>>

\* Policy, network, virtiofsd instances and cgroup, each best effort, then the
\* record: it forgets them, whether they are gone or not.
Clean(t) ==
  LET v == tvm[t] IN
  /\ pc[t] = "clean"
  /\ \E failed \in Failures(v, Recalled(t)) :
       /\ policy' = Without(policy, v, "policy" \notin failed)
       /\ net' = Without(net, v, "net" \in Recalled(t) \ failed)
       /\ cgroup' = Without(cgroup, v, "cgroup" \in Recalled(t) \ failed)
       /\ leaked' = Leaks(v, Recalled(t), failed)
  /\ \/ vfs' = vfs \ {<<v, k>> : k \in {rec[t].virtiofsd} \ {0}}
     \/ "vfs" \in Fallible /\ UNCHANGED vfs
  /\ Continue(t, "save", [rec[t] EXCEPT !.netns = FALSE, !.virtiofsd = 0,
                            !.cgroup = FALSE, !.status = "Stopped", !.pid = 0])
  /\ UNCHANGED <<store, loopVars, procVars, disk, wsp, bare, idVars>>

-----------------------------------------------------------------------------
(* pause, resume                                                           *)

Pause(t, v) ==
  /\ Call(t, "pause", v, "signal")
  /\ UNCHANGED <<store, loopVars, procVars, hostVars, idVars>>

Resume(t, v) ==
  /\ Call(t, "resume", v, "signal")
  /\ UNCHANGED <<store, loopVars, procVars, hostVars, idVars>>

\* QMP stop or cont, whatever the status was; an error changes nothing.
Signal(t) ==
  LET p == Answering(tvm[t]) IN
  /\ pc[t] = "signal"
  /\ \/ /\ p \in alive /\ kind[t] = "pause"
        /\ suspended' = suspended \cup {p}
        /\ Continue(t, "save", [rec[t] EXCEPT !.status = "Paused"])
     \/ /\ p \in alive /\ kind[t] = "resume"
        /\ suspended' = suspended \ {p}
        /\ Continue(t, "save", [rec[t] EXCEPT !.status = "Running"])
     \/ /\ p \notin alive
        /\ Done(t)
        /\ UNCHANGED suspended
  /\ UNCHANGED <<store, loopVars, launched, alive, hostVars, idVars>>

-----------------------------------------------------------------------------
(* delete                                                                  *)

Delete(t, v) ==
  /\ t \in Client /\ pass[t] = "none" /\ "delete" \in Ops
  /\ v \in born
  /\ Enter(t, "delete", v, "dget", NoRec)
  /\ UNCHANGED <<store, loopVars, procVars, hostVars, idVars>>

\* Bug: only a Running VM has a process to stop.
DeleteGetRunning(t) ==
  LET r == store[tvm[t]] IN
  /\ pc[t] = "dget"
  /\ IF r = NoRec THEN Done(t)
     ELSE Continue(t, IF r.status = "Running" THEN "sget" ELSE "remove", r)
  /\ UNCHANGED <<store, loopVars, procVars, hostVars, idVars>>

\* Bug: a record that is not there is not noticed.
DeleteGetUnchecked(t) ==
  LET r == store[tvm[t]] IN
  /\ pc[t] = "dget"
  /\ Continue(t, IF r # NoRec /\ r.pid # 0 THEN "sget" ELSE "remove", r)
  /\ UNCHANGED <<store, loopVars, procVars, hostVars, idVars>>

\* The check of the pid after stop never fires: stop returns pid None.
DeleteGet(t) ==
  LET r == store[tvm[t]] IN
  /\ pc[t] = "dget"
  /\ IF r = NoRec THEN Done(t)
     ELSE Continue(t, IF r.pid # 0 THEN "sget" ELSE "remove", r)
  /\ UNCHANGED <<store, loopVars, procVars, hostVars, idVars>>

\* The stop inside delete reads the record again.
StopGet(t) ==
  LET r == store[tvm[t]] IN
  /\ pc[t] = "sget"
  /\ IF r = NoRec THEN Done(t) ELSE Continue(t, "kill", r)
  /\ UNCHANGED <<store, loopVars, procVars, hostVars, idVars>>

\* store.remove returns the record it took out; none is "VM vanished".
RemoveRecord(t) ==
  LET v == tvm[t] IN
  /\ pc[t] = "remove"
  /\ store' = Remove(store, v)
  /\ IF store[v] = NoRec
       THEN Done(t) /\ UNCHANGED gone
       ELSE Continue(t, "reclaim", store[v]) /\ gone' = gone \cup {v}
  /\ UNCHANGED <<loopVars, procVars, hostVars, due, born>>

\* Policy, thin snapshot and workspace: the record is gone, and a failure of
\* any is only logged.  A disk that is a file goes with the workspace, whose
\* removal may stop halfway.
Reclaim(t) ==
  LET v == tvm[t]
      tried == {"policy", "wsp"} \cup (IF v \in LvmVm /\ ~rec[t].lvm_lv THEN {} ELSE {"disk"})
  IN
  /\ pc[t] = "reclaim"
  /\ \E failed \in Failures(v, tried) :
       /\ "disk" \in failed => v \in LvmVm \/ "wsp" \in failed
       /\ policy' = Without(policy, v, "policy" \notin failed)
       /\ disk' = Without(disk, v, "disk" \in tried \ failed)
       /\ wsp' = Without(wsp, v, "wsp" \notin failed)
       /\ leaked' = Leaks(v, tried, failed)
  /\ Done(t)
  /\ UNCHANGED <<store, loopVars, procVars, net, vfs, cgroup, bare, idVars>>

-----------------------------------------------------------------------------
(* start_reaper: reconcile over one list, then the TTL pass over another.  *)

Visits(t, v, p) ==
  /\ pc[t] = "idle" /\ pass[t] = p
  /\ todo[t][v] # NoRec
  /\ todo' = [todo EXCEPT ![t] = Remove(@, v)]
  /\ UNCHANGED pass

\* The listed record says a process should be running.
SaysUp(r) == r.status \in {"Running", "Paused"} /\ r.pid # 0

\* created_at is more than STUCK_CREATING_GRACE ago.
Overdue(v) ==
  SlowCreate \/ \A t \in Task : ~(kind[t] = "create" /\ tvm[t] = v)

\* The list reconcile works on, less the placeholders that are within their
\* grace period when it is read: the loop has nothing to do for those.
Listed ==
  [v \in Vm |->
     IF store[v] # NoRec /\ store[v].status = "Creating" /\ ~Overdue(v)
       THEN NoRec ELSE store[v]]

\* Between the passes reconcile collects the pins of VMs without a record,
\* unless the dataplane is legacy or the collection fails.
Tick(t) ==
  /\ t \in Reaper /\ pc[t] = "idle"
  /\ \/ /\ pass[t] = "none"
        /\ pass' = [pass EXCEPT ![t] = "reconcile"]
        /\ todo' = [todo EXCEPT ![t] = Listed]
        /\ UNCHANGED <<policy, leaked>>
     \/ /\ pass[t] = "reconcile" /\ todo[t] = Empty
        /\ pass' = [pass EXCEPT ![t] = "ttl"]
        /\ todo' = [todo EXCEPT ![t] = store]
        /\ \/ /\ FailClosed /\ policy' = policy \cap Stored(store)
              /\ leaked' = leaked \ ({"policy"} \X (Vm \ Stored(store)))
           \/ UNCHANGED <<policy, leaked>>
     \/ /\ pass[t] = "ttl" /\ todo[t] = Empty
        /\ pass' = [pass EXCEPT ![t] = "none"]
        /\ UNCHANGED <<todo, policy, leaked>>
  /\ UNCHANGED <<store, taskVars, procVars, net, disk, wsp, vfs, cgroup, bare, idVars>>

\* A live VMM whose attachment is missing, of an older schema or not in step
\* with the durable policy: ebpf::apply takes off what there is before it
\* loads, under the running guest.
Repair(t, v) ==
  /\ Visits(t, v, "reconcile")
  /\ SaysUp(todo[t][v])
  /\ <<v, todo[t][v].pid>> \in alive
  /\ FailClosed /\ todo[t][v].netns /\ v \in net
  /\ policy' \in {policy, policy \ {v}}
  /\ bare' = bare \cup ({v} \ policy')
  /\ Enter(t, "reconcile", v, "reload", todo[t][v])
  /\ UNCHANGED <<store, procVars, net, disk, wsp, vfs, cgroup, leaked, idVars>>

\* The new filter is on, or loading it failed, which is only logged.
Reload(t) ==
  LET v == tvm[t] IN
  /\ pc[t] = "reload"
  /\ \/ policy' = policy \cup {v} /\ bare' = bare \ {v}
     \/ UNCHANGED <<policy, bare>>
  /\ Done(t)
  /\ UNCHANGED <<store, loopVars, procVars, net, disk, wsp, vfs, cgroup, leaked, idVars>>

\* A live VMM whose attachment is sound, or cannot be repaired.
FoundAlive(t, v) ==
  /\ Visits(t, v, "reconcile")
  /\ SaysUp(todo[t][v])
  /\ <<v, todo[t][v].pid>> \in alive
  /\ UNCHANGED <<store, taskVars, procVars, hostVars, idVars>>

\* Bug: only Running VMs are checked.
FoundDeadRunning(t, v) ==
  LET r == todo[t][v] IN
  /\ Visits(t, v, "reconcile")
  /\ SaysUp(r) /\ <<v, r.pid>> \notin alive
  /\ IF r.status = "Running"
       THEN Enter(t, "reconcile", v, "rclean", r)
       ELSE UNCHANGED taskVars
  /\ UNCHANGED <<store, procVars, hostVars, idVars>>

\* The process is gone: the listed copy is cleaned up and written back.
FoundDead(t, v) ==
  /\ Visits(t, v, "reconcile")
  /\ SaysUp(todo[t][v])
  /\ <<v, todo[t][v].pid>> \notin alive
  /\ Enter(t, "reconcile", v, "rclean", todo[t][v])
  /\ UNCHANGED <<store, procVars, hostVars, idVars>>

\* The same clean-up as stop's, but the virtiofsd instances are left alone.
ReconcileClean(t) ==
  LET v == tvm[t] IN
  /\ pc[t] = "rclean"
  /\ \E failed \in Failures(v, Recalled(t)) :
       /\ policy' = Without(policy, v, "policy" \notin failed)
       /\ net' = Without(net, v, "net" \in Recalled(t) \ failed)
       /\ cgroup' = Without(cgroup, v, "cgroup" \in Recalled(t) \ failed)
       /\ leaked' = Leaks(v, Recalled(t), failed)
  /\ Continue(t, "save", [rec[t] EXCEPT !.netns = FALSE, !.cgroup = FALSE,
                                        !.status = "Stopped", !.pid = 0])
  /\ UNCHANGED <<store, loopVars, procVars, disk, wsp, vfs, bare, idVars>>

\* Bug: placeholders are left to their creators.
ReapStuckNever(t, v) ==
  /\ Visits(t, v, "reconcile")
  /\ todo[t][v].status = "Creating"
  /\ UNCHANGED <<store, taskVars, procVars, hostVars, idVars>>

\* A placeholder older than the grace period is deleted.
ReapStuck(t, v) ==
  /\ Visits(t, v, "reconcile")
  /\ todo[t][v].status = "Creating"
  /\ Enter(t, "delete", v, "dget", NoRec)
  /\ UNCHANGED <<store, procVars, hostVars, idVars>>

\* Bug: an expired VM is skipped while it is Paused.
ReapExpiredUnpaused(t, v) ==
  /\ Visits(t, v, "ttl")
  /\ todo[t][v].expires /\ v \in due
  /\ IF todo[t][v].status = "Paused"
       THEN UNCHANGED taskVars
       ELSE Enter(t, "delete", v, "dget", NoRec)
  /\ UNCHANGED <<store, procVars, hostVars, idVars>>

ReapExpired(t, v) ==
  /\ Visits(t, v, "ttl")
  /\ todo[t][v].expires /\ v \in due
  /\ Enter(t, "delete", v, "dget", NoRec)
  /\ UNCHANGED <<store, procVars, hostVars, idVars>>

\* Nothing to do for this record.
PassOver(t, v) ==
  /\ \/ /\ Visits(t, v, "reconcile")
        /\ ~SaysUp(todo[t][v]) /\ todo[t][v].status # "Creating"
     \/ /\ Visits(t, v, "ttl")
        /\ ~(todo[t][v].expires /\ v \in due)
  /\ UNCHANGED <<store, taskVars, procVars, hostVars, idVars>>

-----------------------------------------------------------------------------
(* What happens to the host and the daemon.                                *)

\* A guest powers itself off, or its VMM crashes or is killed by hand.
ProcessDies(p) ==
  /\ p \in alive
  /\ alive' = alive \ {p}
  /\ suspended' = suspended \ {p}
  /\ UNCHANGED <<store, taskVars, loopVars, launched, hostVars, idVars>>

\* The process that runs the task is killed: nothing it did is undone.
TaskKilled(t) ==
  /\ t \in Killable /\ (pc[t] # "idle" \/ pass[t] # "none")
  /\ Done(t)
  /\ pass' = [pass EXCEPT ![t] = "none"]
  /\ todo' = [todo EXCEPT ![t] = Empty]
  /\ UNCHANGED <<store, procVars, hostVars, idVars>>

\* expires_at passes.
Expire(v) ==
  /\ TRUE \in Ttl /\ v \in born \ due
  /\ due' = due \cup {v}
  /\ UNCHANGED <<store, taskVars, loopVars, procVars, hostVars, born, gone>>

-----------------------------------------------------------------------------
Request(t) ==
  \E v \in Vm :
    \/ Create(t, v) \/ Start(t, v) \/ Stop(t, v)
    \/ Pause(t, v) \/ Resume(t, v) \/ Delete(t, v)

Advance(t) ==
  \/ RefuseQga(t) \/ Provision(t)
  \/ Prepare(t) \/ ApplyPolicy(t) \/ Launch(t) \/ Undo(t) \/ Save(t)
  \/ Kill(t) \/ Clean(t) \/ Signal(t)
  \/ DeleteGet(t) \/ StopGet(t) \/ RemoveRecord(t) \/ Reclaim(t)
  \/ ReconcileClean(t) \/ Reload(t)

Loop(t) ==
  \/ Tick(t)
  \/ \E v \in Vm :
       \/ Repair(t, v) \/ FoundAlive(t, v) \/ FoundDead(t, v) \/ ReapStuck(t, v)
       \/ ReapExpired(t, v) \/ PassOver(t, v)

Host ==
  \/ \E v \in Vm, k \in 1 .. MaxLaunch : ProcessDies(<<v, k>>)
  \/ \E t \in Task : TaskKilled(t)
  \/ \E v \in Vm : Expire(v)

Next ==
  \/ \E t \in Task : Request(t) \/ Advance(t) \/ Loop(t)
  \/ Host

Spec == Init /\ [][Next]_vars

\* Every await of an operation completes (host commands and sockets have
\* timeouts), the reaper's interval keeps ticking, and time passes.
Fairness ==
  /\ \A t \in Task : WF_vars(Advance(t))
  /\ \A t \in Reaper : WF_vars(Loop(t))
  /\ \A v \in Vm : WF_vars(Expire(v))

FairSpec == Spec /\ Fairness

-----------------------------------------------------------------------------
(* Properties under any interleaving.                                      *)

RecordMap == [Vm -> VmRecord \cup {NoRec}]

TaskType ==
  /\ pc \in [Task -> Step] /\ kind \in [Task -> Kind]
  /\ tvm \in [Task -> Vm \cup {NoVm}]
  /\ rec \in [Task -> VmRecord \cup {NoRec}]
  /\ \A t \in Task :
       /\ pc[t] # "idle" => tvm[t] \in Vm
       /\ pc[t] \notin {"idle", "dget"} => rec[t] \in VmRecord

LoopType ==
  /\ pass \in [Task -> {"none", "reconcile", "ttl"}]
  /\ todo \in [Task -> RecordMap]

ProcType ==
  /\ launched \in [Vm -> 0 .. MaxLaunch]
  /\ alive \subseteq Vm \X (1 .. MaxLaunch) /\ suspended \subseteq alive

HostType ==
  /\ net \subseteq NetnsVm /\ policy \subseteq Vm
  /\ disk \subseteq Vm /\ wsp \subseteq Vm /\ cgroup \subseteq Vm
  /\ vfs \subseteq Vm \X (0 .. MaxLaunch)
  /\ leaked \subseteq Resource \X Vm /\ bare \subseteq Vm

IdType == due \subseteq Vm /\ born \subseteq Vm /\ gone \subseteq Vm

\* Types; a task past the read of its record holds one (the early returns of
\* every operation on a missing record), and only live VMMs are suspended.
TypeOK ==
  store \in RecordMap /\ TaskType /\ LoopType /\ ProcType /\ HostType /\ IdType

\* No two VMs that were never deleted share a guest CID, whatever operations
\* of whichever processes are in flight (insert_with_cid and the whole-record
\* writes of every operation).
UniqueCids ==
  \A v, w \in Stored(store) \ gone :
    v # w /\ store[v].guest_cid = store[w].guest_cid => store[v].guest_cid = 0

\* The CID a guest was launched with stays the one in its record, through
\* stale copies written back in any order (Store::update).
CidNeverChanges ==
  [][\A v \in Stored(store) \cap Stored(store') :
       store'[v].guest_cid = store[v].guest_cid]_vars

-----------------------------------------------------------------------------
(* Properties of operations that do not overlap.                           *)

Quiet == \A t \in Task : pc[t] = "idle"

\* delete never takes the disk from under a live VMM, whatever failed before
\* (VmManager::delete stops by pid, not by status).
DiskOutlivesProcess ==
  \A v \in Vm : Procs(v) # {} => v \in disk \cap wsp

\* A clean-up of what of v has failed since it was last seen to.
Left(what, v) == <<what, v>> \in leaked

\* Between operations every VMM is one a stored record names, and so is every
\* namespace, policy, disk, workspace and cgroup, unless it is the very thing
\* whose own clean-up failed: through failed creates, starts and stops and dead
\* VMMs no error path of VmManager forgets anything else.
NothingOrphaned ==
  Quiet => \A v \in Vm :
    /\ Procs(v) # {} =>
         v \in Stored(store) /\ Procs(v) = {<<v, store[v].pid>>}
    /\ v \in net => (v \in Stored(store) /\ store[v].netns) \/ Left("net", v)
    /\ v \in policy => v \in net \/ Left("policy", v)
    /\ v \in disk => v \in Stored(store) \/ Left("disk", v)
    /\ v \in wsp => v \in Stored(store) \/ Left("wsp", v)
    /\ v \in cgroup => (v \in Stored(store) /\ store[v].cgroup) \/ Left("cgroup", v)

\* Between operations the record tells what runs: a stopped or failed VM has
\* no VMM, and no network, policy or cgroup but what a failed clean-up left; a
\* live one is suspended exactly when its record is Paused, its shares are
\* served by the virtiofsd instances on record and it has the cgroup on record
\* (pause, resume, stop, reconcile).
RecordTruthful ==
  Quiet => \A v \in Stored(store) :
    LET r == store[v] IN
    /\ r.status \in {"Stopped", "Failed", "Creating"} =>
         /\ Procs(v) = {}
         /\ v \in net => Left("net", v)
         /\ v \in policy => Left("policy", v)
         /\ v \in cgroup => Left("cgroup", v)
    /\ \A p \in Procs(v) :
         /\ p \in suspended <=> r.status = "Paused"
         /\ p = <<v, r.virtiofsd>> /\ p \in vfs
         /\ r.cgroup => v \in cgroup

\* Where the dataplane fails closed, a VM with a host edge is launched with its
\* policy on and keeps it while it runs: only the reaper's repair, which takes
\* the filter off to load a new one, leaves a guest without, until it or a
\* later repair succeeds (apply before launch, remove only after the VMM is
\* dead, ensure_sandbox_policy).
FilteredFromLaunch ==
  FailClosed => \A v \in NetnsVm : Procs(v) # {} => v \in policy \/ v \in bare

-----------------------------------------------------------------------------
(* Liveness, under FairSpec.                                               *)

SaysUpButDead(v) ==
  /\ v \in Stored(store) /\ SaysUp(store[v])
  /\ <<v, store[v].pid>> \notin alive

\* The reaper notices every dead VMM, however operations write stale
\* Running or Paused records over its own (reconcile).
DeadVmNoticed == \A v \in Vm : SaysUpButDead(v) ~> ~SaysUpButDead(v)

\* A VM whose TTL has run out is deleted, even if an operation in flight
\* writes its record back after a delete (start_reaper's TTL pass).
ExpiredGone ==
  \A v \in Vm :
    (v \in Stored(store) /\ store[v].expires /\ v \in due)
      ~> v \notin Stored(store)

Stuck(v) == v \in Stored(store) /\ store[v].status = "Creating"

\* No placeholder of a killed or refused create stays for ever (reconcile's
\* STUCK_CREATING_GRACE).
StuckCreatingGone == \A v \in Vm : Stuck(v) ~> ~Stuck(v)

-----------------------------------------------------------------------------
(* What comments of the code say and operations can break.                 *)

\* "refuse to reclaim the disk out from under a process that's still
\* actually running".
NoDiskReclaimedFromLive ==
  \A v \in gone : Procs(v) # {} => v \in disk \cap wsp
=============================================================================
