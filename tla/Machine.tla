------------------------------- MODULE Machine -------------------------------
(***************************************************************************)
(* What a VM has on its host besides the network: the image and disk it is *)
(* made from (Provision), the chroot Firecracker's jailer runs it in       *)
(* (Jail) and the control channel of its VMM (VmmControl).  The VM manager *)
(* reaches each through calls of its own, and they share no state that     *)
(* changes after the launch, so a behaviour moves one of them.             *)
(***************************************************************************)
EXTENDS Provision, Jail, VmmControl

VARIABLE part   \* "disk", "chroot" or "control"

machineVars == <<vars, jailVars, controlVars, part>>

\* What does not move starts in one of its initial states only.
MachineInit ==
  /\ Init /\ JailInit /\ ControlInit
  /\ part \in {"disk", "chroot", "control"}
  /\ part # "disk" => focus = (CHOOSE f \in Focus : TRUE) /\ \A v \in Vm : storage[v] = "default"
  /\ part # "chroot" => same_fs
  /\ part # "control" => solo /\ kind = CHOOSE k \in Kind : TRUE

MachineNext ==
  /\ \/ part = "disk" /\ Next /\ UNCHANGED <<jailVars, controlVars>>
     \/ part = "chroot" /\ JailNext /\ UNCHANGED <<vars, controlVars>>
     \/ part = "control" /\ ControlNext /\ UNCHANGED <<vars, jailVars>>
  /\ UNCHANGED part

MachineSpec == MachineInit /\ [][MachineNext]_machineVars

-----------------------------------------------------------------------------

\* What a VM takes from its host has an owner that will give it back, its
\* volume (provision, create's failure path, delete) as well as its chroot
\* (launch_jailed, start_impl, delete), and what it shares with other VMs and
\* later launches is left as it was (link_or_copy), but for what the three
\* parts except.
HostKept == VolumesOwned /\ JailOwned /\ SourcesKept
=============================================================================
