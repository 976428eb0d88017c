-------------------------------- MODULE Jail --------------------------------
(***************************************************************************)
(* Firecracker through jailer: every launch places kernel and root disk in *)
(* the VM's chroot, by a hard link or, where that fails, a copy; stop      *)
(* leaves the chroot, and delete removes the one that the record names.    *)
(* A file in the chroot that is a link shares its bytes with its source.   *)
(***************************************************************************)
EXTENDS Naturals, FiniteSets

CONSTANTS
  JailedVm,  \* VMs that exist at a time
  MaxLaunch  \* bound on the launches of each

ASSUME JailAssumption == MaxLaunch \in Nat

VARIABLES
  same_fs,   \* whether chroot_base_dir is on the file system of state_dir
  kernel,    \* the bytes of firecracker_kernel: "image" or "empty"
  disk,      \* disk[v]: those of the root disk in the workspace, or "none"
  jail,      \* jail[v]: the chroot, and for each file "none", "link" or the bytes of a copy
  stored,    \* stored[v]: the status in the store, and whether jail_path is set
  at,        \* at[v]: the next step of the operation on v
  launches,  \* launches[v]: how often v was created, at most once, and started
  unlucky    \* VMs whose first launch failed, or an operation on which was
             \* killed or could not remove files

jailVars == <<same_fs, kernel, disk, jail, stored, at, launches, unlucky>>

NoJail == [dir |-> FALSE, kernel |-> "none", rootfs |-> "none"]

NotStored == [status |-> "none", jail_path |-> FALSE]

JailInit ==
  /\ same_fs \in BOOLEAN
  /\ kernel = "image"
  /\ disk = [v \in JailedVm |-> "none"]
  /\ jail = [v \in JailedVm |-> NoJail]
  /\ stored = [v \in JailedVm |-> NotStored]
  /\ at = [v \in JailedVm |-> "idle"]
  /\ launches = [v \in JailedVm |-> 0]
  /\ unlucky = {}

Proceeds(v, step) == at' = [at EXCEPT ![v] = step]

-----------------------------------------------------------------------------
(* VmManager: create and start up to the launch.                           *)

\* Bound: v, once deleted, stands for another VM, which has a chroot of its own;
\* what was left of the old one is not looked at any more.
CreateJailed(v) ==
  /\ at[v] = "idle" /\ stored[v] = NotStored
  /\ stored' = [stored EXCEPT ![v].status = "Creating"]
  /\ disk' = [disk EXCEPT ![v] = "image"]
  /\ jail' = [jail EXCEPT ![v] = NoJail]
  /\ unlucky' = unlucky \ {v}
  /\ launches' = [launches EXCEPT ![v] = IF @ = 0 THEN 1 ELSE @]
  /\ Proceeds(v, "directory")
  /\ UNCHANGED <<same_fs, kernel>>

StartJailed(v) ==
  /\ at[v] = "idle" /\ stored[v].status \in {"Stopped", "Failed"}
  /\ disk[v] # "none"
  /\ launches[v] < MaxLaunch
  /\ launches' = [launches EXCEPT ![v] = @ + 1]
  /\ Proceeds(v, "directory")
  /\ UNCHANGED <<same_fs, kernel, disk, jail, stored, unlucky>>

-----------------------------------------------------------------------------
(* launch_jailed.                                                          *)

CreateDir(v) ==
  /\ at[v] = "directory"
  /\ jail' = [jail EXCEPT ![v].dir = TRUE]
  /\ Proceeds(v, "kernel")
  /\ UNCHANGED <<same_fs, kernel, disk, stored, launches, unlucky>>

\* link_or_copy of a file with the bytes src: what is in the chroot
\* afterwards, and what bytes the source has.  A name that is taken cannot be
\* linked.  A copy onto a link of its own source opens, and so empties, both.
LinkOrCopy(src, dst) ==
  CASE dst = "none" /\ same_fs -> [dst |-> "link", src |-> src]
    [] dst = "link" -> [dst |-> "link", src |-> "empty"]
    [] OTHER -> [dst |-> src, src |-> src]

PlaceKernel(v) ==
  /\ at[v] = "kernel"
  /\ LET placed == LinkOrCopy(kernel, jail[v].kernel) IN
       /\ kernel' = placed.src
       /\ jail' = [jail EXCEPT ![v].kernel = placed.dst]
  /\ Proceeds(v, "rootfs")
  /\ UNCHANGED <<same_fs, disk, stored, launches, unlucky>>

PlaceRootfs(v) ==
  /\ at[v] = "rootfs"
  /\ LET placed == LinkOrCopy(disk[v], jail[v].rootfs) IN
       /\ disk' = [disk EXCEPT ![v] = placed.src]
       /\ jail' = [jail EXCEPT ![v].rootfs = placed.dst]
  /\ Proceeds(v, "spawn")
  /\ UNCHANGED <<same_fs, kernel, stored, launches, unlucky>>

\* config.json, chown and jailer itself; the manager writes the record.
Spawn(v) ==
  /\ at[v] = "spawn"
  /\ stored' = [stored EXCEPT ![v] = [status |-> "Running", jail_path |-> TRUE]]
  /\ Proceeds(v, "idle")
  /\ UNCHANGED <<same_fs, kernel, disk, jail, launches, unlucky>>

\* Any step fails.  The chroot stays, and the record says what it said.
LaunchFails(v) ==
  /\ at[v] \in {"directory", "kernel", "rootfs", "spawn"}
  /\ stored' = [stored EXCEPT ![v].status = "Failed"]
  /\ unlucky' = IF stored[v].jail_path THEN unlucky ELSE unlucky \cup {v}
  /\ Proceeds(v, "idle")
  /\ UNCHANGED <<same_fs, kernel, disk, jail, launches>>

-----------------------------------------------------------------------------
(* The guest, stop and delete.                                             *)

GuestWrites(v) ==
  /\ stored[v].status = "Running"
  /\ IF jail[v].rootfs = "link"
       THEN disk' = [disk EXCEPT ![v] = "written"] /\ UNCHANGED jail
       ELSE jail' = [jail EXCEPT ![v].rootfs = "written"] /\ UNCHANGED disk
  /\ UNCHANGED <<same_fs, kernel, stored, at, launches, unlucky>>

\* stop, or the reaper finds that the VMM has ended.
StopJailed(v) ==
  /\ at[v] = "idle" /\ stored[v].status = "Running"
  /\ stored' = [stored EXCEPT ![v].status = "Stopped"]
  /\ UNCHANGED <<same_fs, kernel, disk, jail, at, launches, unlucky>>

\* delete stops the VM and removes its record, then its files.
DeleteJailed(v) ==
  /\ at[v] = "idle" /\ stored[v] # NotStored
  /\ Proceeds(v, IF stored[v].jail_path THEN "workspace and jail" ELSE "workspace")
  /\ stored' = [stored EXCEPT ![v] = NotStored]
  /\ UNCHANGED <<same_fs, kernel, disk, jail, launches, unlucky>>

RemoveWorkspace(v) ==
  /\ at[v] \in {"workspace", "workspace and jail"}
  /\ disk' = [disk EXCEPT ![v] = "none"]
  /\ Proceeds(v, IF at[v] = "workspace" THEN "idle" ELSE "jail")
  /\ UNCHANGED <<same_fs, kernel, jail, stored, launches, unlucky>>

RemoveJail(v) ==
  /\ at[v] = "jail"
  /\ jail' = [jail EXCEPT ![v] = NoJail]
  /\ Proceeds(v, "idle")
  /\ UNCHANGED <<same_fs, kernel, disk, stored, launches, unlucky>>

\* The daemon is killed, or removing fails half way: nobody tries again.  The
\* record of a create that was cut off can be started or deleted like a Failed
\* one.
Abandoned(v) ==
  /\ at[v] # "idle"
  /\ Proceeds(v, "idle")
  /\ stored' = [stored EXCEPT ![v].status = IF @ = "Creating" THEN "Failed" ELSE @]
  /\ unlucky' = unlucky \cup {v}
  /\ UNCHANGED <<same_fs, kernel, disk, jail, launches>>

-----------------------------------------------------------------------------

JailNext ==
  \E v \in JailedVm :
    \/ CreateJailed(v) \/ StartJailed(v)
    \/ CreateDir(v) \/ PlaceKernel(v) \/ PlaceRootfs(v) \/ Spawn(v) \/ LaunchFails(v)
    \/ GuestWrites(v) \/ StopJailed(v) \/ DeleteJailed(v) \/ RemoveWorkspace(v) \/ RemoveJail(v)
    \/ Abandoned(v)

JailSpec == JailInit /\ [][JailNext]_jailVars

-----------------------------------------------------------------------------
(* Properties.                                                             *)

\* A chroot on the host is named by a record that delete can remove it from,
\* also when a later start of the VM failed; only a first launch that failed, a
\* kill or a failing removal leaves one (firecracker: launch_jailed;
\* scheduler: start_impl, delete).
JailOwned ==
  \A v \in JailedVm : jail[v].dir /\ at[v] = "idle" => stored[v].jail_path \/ v \in unlucky

\* A launch leaves what it places in a chroot as it was: the kernel that all
\* VMs boot and the disk that a stopped VM is started from (firecracker:
\* link_or_copy; scheduler: start).  On one file system this holds for first
\* launches only: the next one finds its own links in place and empties both.
SourcesKept ==
  ~same_fs \/ (\A v \in JailedVm : launches[v] <= 1)
    => kernel = "image" /\ \A v \in JailedVm : disk[v] # "empty"
=============================================================================
