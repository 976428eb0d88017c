------------------------------ MODULE Dataplane ------------------------------
(***************************************************************************)
(* The network policy of one VM: its file, the FluxVM TC program with its  *)
(* pinned maps, the markers beside them, the nftables fallback, and the    *)
(* operations of VmManager that move them: launch, stop, set_network_      *)
(* policy with its rollback, and the reaper's repair and collection.       *)
(*                                                                         *)
(* Every bpftool, tc or nft command may fail and the daemon may be killed  *)
(* before any of them, while the guest keeps running.  The kernel keeps a  *)
(* program and its maps as long as it is pinned or attached.  No egress    *)
(* domains are configured, so that a policy has no CIDRs but its own.      *)
(***************************************************************************)
EXTENDS Naturals, FiniteSets

CONSTANTS
  Task,           \* threads that work on the VM's policy
  Dest, Port,     \* destinations (a CIDR each) and L4 ports
  Policy,         \* policies that set_network_policy is called with
  DefaultPolicy,  \* the configured one, when the VM has no file
  NoPolicy,       \* no policy file, no fingerprint
  Mode,           \* dataplane modes to start in: "ebpf", "legacy"
  Required,       \* values of dataplane.required to start with
  Prog,           \* BPF program ids; 0 is none
  Foreign,        \* the id of somebody else's program in FluxVM's TC slot
  MaxFault        \* bound on failed commands, kills and foreign programs

Packet == Dest \X Port

PolicyRecord == [default_allow : BOOLEAN, cidrs : SUBSET Dest, ports : SUBSET Port]

ASSUME DataplaneAssumption ==
  /\ Policy \subseteq PolicyRecord /\ DefaultPolicy \in PolicyRecord
  /\ NoPolicy \notin PolicyRecord
  /\ Prog \subseteq Nat \ {0} /\ Foreign \notin Prog \cup {0}
  /\ Mode \subseteq {"ebpf", "legacy"}
  /\ Required \subseteq BOOLEAN /\ MaxFault \in Nat

VARIABLES
  mode,      \* dataplane.mode
  required,  \* dataplane.required, or a policy that nftables cannot express
  running,   \* whether the guest runs
  file,      \* network-policy/<id>.json
  slot,      \* the program in FluxVM's TC preference and handle
  pin,       \* the program pinned in the VM's directory
  maps,      \* maps[i]: the maps of program i
  meta,      \* the markers under /run/fluxvm/ebpf
  nft,       \* the VM's nftables table
  pc,        \* pc[t]: the next command of task t
  job,       \* job[t]: what t is doing and for whom
  faults     \* what has gone wrong so far

hostVars == <<slot, pin, maps, meta, nft>>

setup == <<mode, required>>

vars == <<setup, running, file, hostVars, pc, job, faults>>

Closed == [known |-> FALSE, default |-> FALSE, by_cidr |-> FALSE, by_port |-> FALSE]

NewMaps == [cfg |-> Closed, cidrs |-> {}, ports |-> {}, shown |-> NoPolicy]

NoMeta == [iface |-> FALSE, prog |-> 0, schema |-> FALSE, fingerprint |-> NoPolicy]

NoTable == [filters |-> FALSE, accepts |-> {}]

NoJob == [via |-> "none", base |-> NoPolicy, old |-> NoPolicy, in_place |-> FALSE, next |-> "none"]

Init ==
  /\ mode \in Mode /\ required \in Required
  /\ running = FALSE
  /\ file = NoPolicy
  /\ slot = 0 /\ pin = 0
  /\ maps = [i \in Prog |-> NewMaps]
  /\ meta = NoMeta
  /\ nft = NoTable
  /\ pc = [t \in Task |-> "idle"]
  /\ job = [t \in Task |-> NoJob]
  /\ faults = 0

-----------------------------------------------------------------------------
(* What is allowed.                                                        *)

\* effective_policy
Effective == IF file = NoPolicy THEN DefaultPolicy ELSE file

\* update_iface_config's value for a policy.
Config(p) == [known |-> TRUE, default |-> p.default_allow,
              by_cidr |-> p.cidrs # {}, by_port |-> p.ports # {}]

DenyAll == [known |-> TRUE, default |-> FALSE, by_cidr |-> FALSE, by_port |-> FALSE]

\* fluxvm_egress: the verdict of a program on a packet, from its maps.
Verdict(m, packet) ==
  /\ m.cfg.known
  /\ m.cfg.by_cidr \/ m.cfg.by_port \/ m.cfg.default
  /\ m.cfg.by_cidr => packet[1] \in m.cidrs
  /\ m.cfg.by_port => packet[2] \in m.ports

Passes(m) == {packet \in Packet : Verdict(m, packet)}

\* What a policy means.
Allows(p) == Passes([cfg |-> Config(p), cidrs |-> p.cidrs, ports |-> p.ports])

-----------------------------------------------------------------------------
(* attachment_status                                                       *)

Owned == IF meta.prog # 0 THEN meta.prog ELSE pin

\* tc names the program in FluxVM's slot as the one that is ours.
OwnsSlot == Owned # 0 /\ slot = Owned

Attached ==
  /\ meta.iface /\ meta.schema
  /\ pin # 0
  /\ OwnsSlot

Synced == meta.fingerprint = Effective

\* A program in the slot that no marker names: refused by every later add.
Wedged == slot # 0 /\ slot # Owned

-----------------------------------------------------------------------------
(* Steps of a task.                                                        *)

Goto(t, step) == pc' = [pc EXCEPT ![t] = step]

Fault == faults < MaxFault /\ faults' = faults + 1

\* A task is over.
Rest(t) == Goto(t, "idle") /\ job' = [job EXCEPT ![t] = NoJob]

\* A command fails: inside apply's closure remove() comes first.  Past the
\* attachment there is nothing to fall back to.
Backs(t) ==
  IF pc[t] \in {"clear", "fill", "publish", "attach"} /\ ~job[t].in_place
    THEN Goto(t, "unhook") /\ job' = [job EXCEPT ![t].next = "failed"]
    ELSE /\ Goto(t, IF pc[t] \in {"commit", "table", "chain"} THEN "refused" ELSE "failed")
         /\ UNCHANGED job

Fails(t) == Fault /\ Backs(t)

Begin(t, via, old) ==
  /\ job' = [job EXCEPT ![t] = [NoJob EXCEPT !.via = via, !.old = old]]
  /\ Goto(t, "begin")

\* save_policy: a temporary file, renamed; delete_policy if there was none.
SavePolicy(p) == file' = p

\* set_network_policy: the file first, then the kernel if a guest is there.
SetPolicy(t, p) ==
  /\ pc[t] = "idle"
  /\ SavePolicy(p)
  /\ IF running THEN Begin(t, "set", file) ELSE UNCHANGED <<pc, job>>
  /\ UNCHANGED <<setup, running, hostVars, faults>>

\* Nothing launches or stops the VM right now.
Settled == \A t \in Task : job[t].via \notin {"launch", "stop"}

\* create and start: apply_sandbox_policy before the VMM is launched.
Launch(t) ==
  /\ pc[t] = "idle" /\ ~running
  /\ Settled
  /\ Begin(t, "launch", NoPolicy)
  /\ UNCHANGED <<setup, running, file, hostVars, faults>>

\* stop, delete, a dead VMM: remove_sandbox_policy once nothing runs.
Stop(t) ==
  /\ pc[t] = "idle" /\ running
  /\ Settled
  /\ running' = FALSE
  /\ nft' = NoTable
  /\ job' = [job EXCEPT ![t] = [NoJob EXCEPT !.via = "stop", !.next = "gone"]]
  /\ Goto(t, "unhook")
  /\ UNCHANGED <<setup, file, slot, pin, maps, meta, faults>>

\* Bug: a program in place is enough, whatever its maps hold.
ReattachOnly(t) ==
  /\ pc[t] = "idle" /\ running
  /\ mode # "legacy"
  /\ ~Attached
  /\ Begin(t, "ensure", NoPolicy)
  /\ UNCHANGED <<setup, running, file, hostVars, faults>>

\* The reaper's repair of a running VM.
Reconcile(t) ==
  /\ pc[t] = "idle" /\ running
  /\ mode # "legacy"
  /\ ~Attached \/ ~Synced
  /\ Begin(t, "ensure", NoPolicy)
  /\ UNCHANGED <<setup, running, file, hostVars, faults>>

\* reconcile_orphan_pins: pins or markers of a VM that is gone.
CollectOrphan(t) ==
  /\ pc[t] = "idle" /\ ~running
  /\ Settled
  /\ pin # 0 \/ meta # NoMeta
  /\ job' = [job EXCEPT ![t] = [NoJob EXCEPT !.via = "stop", !.next = "gone"]]
  /\ Goto(t, "unhook")
  /\ UNCHANGED <<setup, running, file, hostVars, faults>>

\* The operation has succeeded; a launch goes on to start the guest.
Done(t) ==
  /\ Rest(t)
  /\ running' = (running \/ job[t].via = "launch")

\* ensure_sandbox_policy finds nothing to repair.
InOrder(t) == job[t].via = "ensure" /\ Attached /\ Synced

\* reconfigure_, ensure_ and apply_sandbox_policy up to their first command.
Route(t) ==
  LET via == job[t].via IN
  /\ pc[t] = "begin"
  /\ IF InOrder(t)
       THEN Rest(t)
       ELSE LET edit == via \in {"set", "rollback"} /\ Attached IN
            /\ job' = [job EXCEPT ![t] = [@ EXCEPT !.base = Effective, !.in_place = edit,
                                                   !.next = "load"]]
            /\ Goto(t, IF mode = "legacy" THEN "table"
                       ELSE IF edit THEN "invalidate" ELSE "unhook")
  /\ UNCHANGED <<setup, running, file, hostVars, faults>>

\* nftables rules need the guest's address.  Where the host does not know
\* it, a launch goes on without a table and an update is refused.
NoAddress(t) ==
  /\ pc[t] = "table"
  /\ IF job[t].via = "launch" THEN Done(t) ELSE Backs(t) /\ UNCHANGED running
  /\ UNCHANGED <<setup, file, hostVars, faults>>

-----------------------------------------------------------------------------
(* ebpf.rs: remove                                                         *)

\* detach_tc_filter: only a program that the markers name.
Unhook(t) ==
  /\ pc[t] = "unhook"
  /\ \/ /\ slot' = IF meta.iface /\ OwnsSlot THEN 0 ELSE slot
        /\ UNCHANGED faults
     \/ Fault /\ UNCHANGED slot              \* tc fails: ignored
  /\ Goto(t, "unpin")
  /\ UNCHANGED <<setup, running, file, pin, maps, meta, nft, job>>

\* Then the pins and the markers.  A stop ends with the link removed.
Unpin(t) ==
  /\ pc[t] = "unpin"
  /\ pin' = 0 /\ meta' = NoMeta
  /\ IF job[t].next = "gone"
       THEN Rest(t) /\ slot' = 0
       ELSE Goto(t, job[t].next) /\ UNCHANGED <<slot, job>>
  /\ UNCHANGED <<setup, running, file, maps, nft, faults>>

-----------------------------------------------------------------------------
(* ebpf.rs: apply and reconfigure                                          *)

\* Load and pin a program with empty maps; the interface marker and the
\* program's id are written around it.
Load(t) ==
  /\ pc[t] = "load"
  /\ \/ \E i \in Prog \ {slot} :
          /\ \A j \in Prog \ {slot} : i <= j
          /\ pin' = i
          /\ maps' = [maps EXCEPT ![i] = NewMaps]
          /\ meta' = [NoMeta EXCEPT !.iface = TRUE, !.prog = i]
          /\ Goto(t, "clear")
          /\ UNCHANGED <<job, faults>>
     \/ Fails(t) /\ UNCHANGED <<pin, maps, meta>>
  /\ UNCHANGED <<setup, running, file, slot, nft>>

\* Bug: the old fingerprint stays while the maps are rewritten.
KeepFingerprint(t) ==
  /\ pc[t] = "invalidate"
  /\ Goto(t, "deny")
  /\ UNCHANGED <<setup, running, file, hostVars, job, faults>>

\* invalidate_policy_fingerprint
Invalidate(t) ==
  /\ pc[t] = "invalidate"
  /\ \/ /\ meta' = [meta EXCEPT !.fingerprint = NoPolicy]
        /\ Goto(t, "deny")
        /\ UNCHANGED <<job, faults>>
     \/ Fails(t) /\ UNCHANGED meta
  /\ UNCHANGED <<setup, running, file, slot, pin, maps, nft>>

\* bpftool works on the maps by the path they are pinned at.
OnMaps(t, new, next) ==
  /\ maps' = [maps EXCEPT ![pin] = new]
  /\ Goto(t, next)
  /\ UNCHANGED <<setup, running, file, slot, pin, meta, nft, job, faults>>

\* Bug: the maps are rewritten under the published config.
SkipDeny(t) ==
  /\ pc[t] = "deny" /\ pin # 0
  /\ OnMaps(t, maps[pin], "clear")

\* configure_maps: deny-all is published first on an update in place.
PublishDeny(t) ==
  /\ pc[t] = "deny" /\ pin # 0
  /\ OnMaps(t, [maps[pin] EXCEPT !.cfg = DenyAll], "clear")

\* clear_map of the three maps, key by key.
ClearMaps(t) ==
  /\ pc[t] = "clear" /\ pin # 0
  /\ OnMaps(t, [maps[pin] EXCEPT !.cidrs = {}, !.ports = {}], "fill")

\* The CIDRs, then the port rules.
FillMaps(t) ==
  /\ pc[t] = "fill" /\ pin # 0
  /\ \/ /\ maps[pin].cidrs # job[t].base.cidrs
        /\ OnMaps(t, [maps[pin] EXCEPT !.cidrs = job[t].base.cidrs], "fill")
     \/ /\ maps[pin].cidrs = job[t].base.cidrs
        /\ OnMaps(t, [maps[pin] EXCEPT !.ports = job[t].base.ports], "publish")

PublishConfig(t) ==
  /\ pc[t] = "publish" /\ pin # 0
  /\ OnMaps(t, [maps[pin] EXCEPT !.cfg = Config(job[t].base), !.shown = job[t].base],
            IF job[t].in_place THEN "commit" ELSE "attach")

\* Any of these commands fails, or the pins are gone.
MapsFail(t) ==
  /\ pc[t] \in {"deny", "clear", "fill", "publish"}
  /\ IF pin = 0 THEN Backs(t) /\ UNCHANGED faults ELSE Fails(t)
  /\ UNCHANGED <<setup, running, file, hostVars>>

\* schema_version, clsact, tc filter add, which never replaces.
Attach(t) ==
  /\ pc[t] = "attach"
  /\ \/ /\ slot = 0 /\ pin # 0
        /\ slot' = pin
        /\ meta' = [meta EXCEPT !.schema = TRUE]
        /\ Goto(t, "commit")
        /\ UNCHANGED <<job, faults>>
     \/ /\ slot # 0 \/ pin = 0
        /\ Backs(t)
        /\ meta' = [meta EXCEPT !.schema = TRUE]
        /\ UNCHANGED <<slot, faults>>
     \/ Fails(t) /\ UNCHANGED <<slot, meta>>
  /\ UNCHANGED <<setup, running, file, pin, maps, nft>>

\* commit_policy_fingerprint
Commit(t) ==
  /\ pc[t] = "commit"
  /\ \/ /\ meta' = [meta EXCEPT !.fingerprint = job[t].base]
        /\ Done(t)
        /\ UNCHANGED faults
     \/ Fails(t) /\ UNCHANGED <<meta, running>>
  /\ UNCHANGED <<setup, file, slot, pin, maps, nft>>

-----------------------------------------------------------------------------
(* apply_nftables: the table is deleted and built again.                   *)

ResetTable(t) ==
  /\ pc[t] = "table"
  /\ \/ nft' = NoTable /\ Goto(t, "chain") /\ UNCHANGED <<job, faults>>
     \/ nft' = NoTable /\ Fails(t)
  /\ UNCHANGED <<setup, running, file, slot, pin, maps, meta>>

\* A drop chain if the policy restricts anything, then an accept per rule.
BuildTable(t) ==
  LET p == job[t].base IN
  /\ pc[t] = "chain"
  /\ \/ /\ nft' = [filters |-> p.cidrs # {} \/ p.ports # {} \/ ~p.default_allow,
                   accepts |-> IF p.cidrs = {} /\ p.ports = {} THEN {} ELSE Allows(p)]
        /\ Done(t)
        /\ UNCHANGED faults
     \/ /\ nft' \in {NoTable, [filters |-> TRUE, accepts |-> {}]}
        /\ Fails(t)
        /\ UNCHANGED running
  /\ UNCHANGED <<setup, file, slot, pin, maps, meta>>

-----------------------------------------------------------------------------
(* Errors.  A failed update restores the file and tries to restore the     *)
(* kernel; a failed launch without dataplane.required falls back to        *)
(* nftables; a failed repair waits for the next tick.                      *)

Failed(t, via) == pc[t] \in {"failed", "refused"} /\ job[t].via = via

RollBack(t) ==
  /\ Failed(t, "set")
  /\ SavePolicy(job[t].old)
  /\ Begin(t, "rollback", NoPolicy)
  /\ UNCHANGED <<setup, running, hostVars, faults>>

FallBack(t) ==
  /\ pc[t] = "failed" /\ job[t].via = "launch" /\ ~required
  /\ Goto(t, "table")
  /\ UNCHANGED <<setup, running, file, hostVars, job, faults>>

\* apply_sandbox_policy returns an error: only with nftables, and not
\* required, is that a warning.  Otherwise the launch is undone.
LaunchFails(t) ==
  /\ Failed(t, "launch")
  /\ pc[t] = "failed" => required
  /\ IF mode = "legacy" /\ ~required
       THEN Done(t) /\ UNCHANGED nft
       ELSE /\ job' = [job EXCEPT ![t] = [@ EXCEPT !.via = "stop", !.next = "gone"]]
            /\ Goto(t, "unhook")
            /\ nft' = NoTable
            /\ UNCHANGED running
  /\ UNCHANGED <<setup, file, slot, pin, maps, meta, faults>>

GiveUp(t) ==
  /\ Failed(t, "rollback") \/ Failed(t, "ensure")
  /\ Rest(t)
  /\ UNCHANGED <<setup, running, file, hostVars, faults>>

\* The daemon is killed; the guest goes on.
Kill(t) ==
  /\ pc[t] # "idle"
  /\ Fault
  /\ Rest(t)
  /\ UNCHANGED <<setup, running, file, hostVars>>

\* Somebody else takes FluxVM's preference and handle while it is free.
TakeSlot ==
  /\ slot = 0
  /\ Fault
  /\ slot' = Foreign
  /\ UNCHANGED <<setup, running, file, pin, maps, meta, nft, pc, job>>

Work(t) ==
  \/ Route(t) \/ Unhook(t) \/ Unpin(t) \/ Load(t)
  \/ Invalidate(t) \/ PublishDeny(t) \/ ClearMaps(t) \/ FillMaps(t) \/ PublishConfig(t)
  \/ MapsFail(t) \/ Attach(t) \/ Commit(t)
  \/ NoAddress(t) \/ ResetTable(t) \/ BuildTable(t)
  \/ RollBack(t) \/ FallBack(t) \/ LaunchFails(t) \/ GiveUp(t)

Next ==
  \/ \E t \in Task :
       \/ \E p \in Policy : SetPolicy(t, p)
       \/ Launch(t) \/ Stop(t) \/ Reconcile(t) \/ CollectOrphan(t)
       \/ Work(t) \/ Kill(t)
  \/ TakeSlot

\* Started operations go on, and the reaper comes round.
Fairness == \A t \in Task : WF_vars(Work(t)) /\ SF_vars(Reconcile(t))

-----------------------------------------------------------------------------
(* Properties.                                                             *)

\* status() reports attached and policy_synced only when the attached maps
\* pass exactly what the durable policy allows, whatever updates, rollbacks
\* and repairs failed or were killed half way (dataplane.rs: policy_synced).
SyncedMeansCommitted ==
  running /\ mode # "legacy" /\ Attached /\ Synced => Passes(maps[slot]) = Allows(Effective)

\* While maps are rewritten under an attached program, and after any failure
\* in between, nothing passes that the policy last published to it does not
\* allow: never a mix of the old policy and the one being installed
\* (ebpf.rs: reconfigure, configure_maps).
NoMixedPolicy ==
  slot \in Prog =>
    Passes(maps[slot]) \subseteq
      UNION {Allows(p) : p \in {maps[slot].shown} \cap PolicyRecord}

\* A running VM whose update, repair or fallback went wrong is attached and
\* in sync again at some later time, unless FluxVM's TC slot is held by a
\* program that it does not own (scheduler: reconcile; dataplane.rs:
\* ensure_sandbox_policy).
Repaired == [](mode # "legacy" => <>(~running \/ Wedged \/ (Attached /\ Synced)))
=============================================================================
