------------------------------ MODULE Provision ------------------------------
(***************************************************************************)
(* The root disk of a VM: a create resolves its image (Catalog), inserts   *)
(* the VM's record and provisions the disk with its storage backend; a     *)
(* later step of the create may fail; delete reclaims the disk.  A thin    *)
(* snapshot, a qemu-nbd process and an RBD clone live outside the VM's     *)
(* workspace: whoever forgets one leaves it on the host for good.          *)
(***************************************************************************)
EXTENDS Catalog

Storage == {"default", "lvm-thin", "nbd", "ceph-rbd"}

CONSTANT
  Focus     \* the scopes to look at: which of Scope a behaviour has

Scope == {"edits", "images", "disks"}

ASSUME FocusAssumption == Focus \subseteq SUBSET Scope

VARIABLES
  focus,   \* bound: edits of the catalog, VMs made of its images, VMs of every storage and deletes
  storage, \* storage[v]: what the request for v asks for
  record,  \* record[v]: the status in the store, and whether it names the volume
  volume,  \* volume[v]: its snapshot, its qemu-nbd or its clone exists
  mishap   \* the VMs whose create or delete was killed, whose undo or clean-up
           \* failed or whose qemu-nbd wrote no pid file in time

diskVars == <<focus, storage, record, volume, mishap>>

vars == <<catalogVars, diskVars>>

NoRecord == [status |-> "none", named |-> FALSE]

Init ==
  /\ CatalogInit
  /\ focus \in Focus
  /\ storage \in [Vm -> IF "disks" \in focus THEN Storage ELSE {"default"}]
  /\ record = [v \in Vm |-> NoRecord]
  /\ volume = [v \in Vm |-> FALSE]
  /\ mishap = {}

\* Bound: an id is used for one create.
Fresh(v) == record[v] = NoRecord /\ ~ volume[v] /\ v \notin mishap /\ \A t \in Task : job[t].vm # v

Creates(t, at) == job[t].op = "create" /\ job[t].at = at

StorageIs(t, kinds) == storage[job[t].vm] \in kinds

-----------------------------------------------------------------------------
(* create, as far as the disk goes.                                        *)

\* The image of a VM on LVM or Ceph is a volume, never a catalog entry.
CreateFromCatalog(t, v, n) ==
  /\ Fresh(v) /\ storage[v] \in {"default", "nbd"}
  /\ ResolveBegins(t, v, n)
  /\ UNCHANGED diskVars

\* resolve returns what is no entry's name as it is.
CreateFromPath(t, v) ==
  /\ Fresh(v)
  /\ job[t] = Idle
  /\ job' = [job EXCEPT ![t] = [Idle EXCEPT !.op = "create", !.at = "resolved", !.vm = v]]
  /\ UNCHANGED <<catalog, cache, diskVars>>

\* A catalog image may have been cleaned away since it was resolved.
ImageExists(t) == job[t].entry # NoEntry => cache[FileOf(t)] # "absent"

InsertRecord(t) ==
  /\ Creates(t, "resolved")
  /\ IF ImageExists(t)
       THEN /\ record' = [record EXCEPT ![job[t].vm] = [status |-> "Creating", named |-> FALSE]]
            /\ Goes(t, "provision")
       ELSE Done(t) /\ UNCHANGED record
  /\ UNCHANGED <<catalog, cache, focus, storage, volume, mishap>>

\* clone_for_vm and, for an agent, inject_guest_agent_token: files of the workspace.
CloneForVm(t) ==
  /\ Creates(t, "provision") /\ StorageIs(t, {"default", "nbd"})
  /\ ImageExists(t)
  /\ Goes(t, IF StorageIs(t, {"nbd"}) THEN "cloned" ELSE "provisioned")
  /\ UNCHANGED <<catalog, cache, diskVars>>

\* The command that makes the volume: qemu-nbd, lvcreate, rbd clone.
MakeVolume(t) ==
  /\ \/ Creates(t, "cloned")
     \/ Creates(t, "provision") /\ StorageIs(t, {"lvm-thin", "ceph-rbd"})
  /\ volume' = [volume EXCEPT ![job[t].vm] = TRUE]
  /\ Goes(t, IF StorageIs(t, {"ceph-rbd"}) THEN "provisioned" ELSE "made")
  /\ UNCHANGED <<catalog, cache, focus, storage, record, mishap>>

\* The backend refuses the VM, the clone or the injection fails, or that command does.
ProvisionFails(t) ==
  /\ Creates(t, "provision") \/ Creates(t, "cloned")
  /\ Goes(t, "failed")
  /\ UNCHANGED <<catalog, cache, diskVars>>

\* qemu-nbd's pid is read; the snapshot is activated, its device is there and the token in it.
VolumeReady(t) ==
  /\ Creates(t, "made")
  /\ Goes(t, "provisioned")
  /\ UNCHANGED <<catalog, cache, diskVars>>

\* A clean-up command for the volume of v, which may fail.
Reclaim(v) == \E gone \in BOOLEAN : volume' = [volume EXCEPT ![v] = volume[v] /\ ~ gone]

\* Bug: the snapshot stays when it cannot be activated or the token not be injected.
NotUndone(t) ==
  /\ Creates(t, "made") /\ StorageIs(t, {"lvm-thin"})
  /\ Goes(t, "failed")
  /\ UNCHANGED <<catalog, cache, diskVars>>

\* provision_lvm_thin removes the snapshot it cannot use.
UndoSnapshot(t) ==
  /\ Creates(t, "made") /\ StorageIs(t, {"lvm-thin"})
  /\ Reclaim(job[t].vm)
  /\ mishap' = mishap \cup {v \in Vm : volume'[v] /\ v = job[t].vm}
  /\ Goes(t, "failed")
  /\ UNCHANGED <<catalog, cache, focus, storage, record>>

\* No pid file within 3 s: provision_nbd gives up on the process it started.
NoPidFile(t) ==
  /\ Creates(t, "made") /\ StorageIs(t, {"nbd"})
  /\ mishap' = mishap \cup {job[t].vm}
  /\ Goes(t, "failed")
  /\ UNCHANGED <<catalog, cache, focus, storage, record, volume>>

Saved(t, status, named) ==
  /\ record' = [record EXCEPT ![job[t].vm] = [status |-> status, named |-> named]]
  /\ Done(t)

Created(t) ==
  /\ Creates(t, "provisioned")
  /\ Saved(t, "Running", TRUE)
  /\ UNCHANGED <<catalog, cache, focus, storage, volume, mishap>>

\* The network, the seed or the launch fails.  The clean-up is best effort and
\* leaves an RBD clone alone; the Failed record still says what there may be.
CreateFails(t) ==
  /\ Creates(t, "provisioned")
  /\ IF StorageIs(t, {"lvm-thin", "nbd"}) THEN Reclaim(job[t].vm) ELSE UNCHANGED volume
  /\ Saved(t, "Failed", TRUE)
  /\ UNCHANGED <<catalog, cache, focus, storage, mishap>>

\* provision itself failed: the record knows of no volume.
ProvisionFailed(t) ==
  /\ Creates(t, "failed")
  /\ Saved(t, "Failed", FALSE)
  /\ UNCHANGED <<catalog, cache, focus, storage, volume, mishap>>

-----------------------------------------------------------------------------
(* delete, of a VM that is being created too.                              *)

\* The record goes first ...
Delete(t, v) ==
  /\ job[t] = Idle /\ record[v] # NoRecord
  /\ record' = [record EXCEPT ![v] = NoRecord]
  /\ IF record[v].named
       THEN job' = [job EXCEPT ![t] = [Idle EXCEPT !.op = "delete", !.at = "reclaim", !.vm = v]]
       ELSE UNCHANGED job
  /\ UNCHANGED <<catalog, cache, focus, storage, volume, mishap>>

\* ... and then what it named; a failing command is logged and forgotten.
ReclaimVolume(t) ==
  /\ job[t].op = "delete"
  /\ Reclaim(job[t].vm)
  /\ mishap' = mishap \cup {v \in Vm : volume'[v] /\ v = job[t].vm}
  /\ Done(t)
  /\ UNCHANGED <<catalog, cache, focus, storage, record>>

\* The process dies, or the client's disconnect cancels the handler.
Killed(t) ==
  /\ job[t] # Idle
  /\ mishap' = mishap \cup (Vm \cap {job[t].vm})
  /\ Done(t)
  /\ UNCHANGED <<catalog, cache, focus, storage, record, volume>>

Next ==
  \/ Registry /\ UNCHANGED diskVars
  \/ focus # {"disks"} /\ Administers /\ UNCHANGED diskVars
  \/ "edits" \in focus /\ Edits /\ UNCHANGED diskVars
  \/ \E t \in Task, v \in Vm :
       \/ "images" \in focus /\ \E n \in Name : CreateFromCatalog(t, v, n)
       \/ "disks" \in focus /\ (CreateFromPath(t, v) \/ Delete(t, v))
  \/ \E t \in Task :
       \/ InsertRecord(t) \/ CloneForVm(t) \/ MakeVolume(t) \/ ProvisionFails(t) \/ VolumeReady(t)
       \/ UndoSnapshot(t) \/ NoPidFile(t) \/ Created(t) \/ CreateFails(t) \/ ProvisionFailed(t)
       \/ ReclaimVolume(t) \/ Killed(t)

Spec == Init /\ [][Next]_vars

-----------------------------------------------------------------------------
(* Properties.                                                             *)

\* Every snapshot, qemu-nbd and clone is named by a record that delete can
\* reclaim it from, or a call on that VM is under way, whichever step of the
\* create failed and whoever deleted the record meanwhile (provision's undo,
\* create's failure path, delete): among creates and deletes only a kill, a
\* failing clean-up or a missing pid file leaves one behind.
VolumesOwned ==
  \A v \in Vm :
    volume[v] => \/ record[v].named
                 \/ \E t \in Task : job[t].vm = v
                 \/ v \in mishap
=============================================================================
