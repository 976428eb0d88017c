-------------------------------- MODULE Fleet --------------------------------
(***************************************************************************)
(* fluxvm-agent: the central registry, which places creates on the nodes   *)
(* that reported lately and forwards them, and the node agents whose       *)
(* heartbeats it lives on.  fleet-nodes.json keeps the registry over a     *)
(* restart of the central.                                                 *)
(*                                                                         *)
(* last_seen is an age in ticks, up to Window where it stops to matter.    *)
(* One resource, counted in VMs of the default size, stands for vCPUs and  *)
(* memory.                                                                 *)
(***************************************************************************)
EXTENDS NodeDaemon

CONSTANTS
  Window,    \* HEALTHY_WINDOW_SECS, in ticks
  Capacity,  \* Capacity[n]: VMs of the default size that fit on n
  MaxPlaced  \* bound on the VMs created through the registry

ASSUME FleetAssumption == Window \in Nat \ {0} /\ Capacity \in [Node -> Nat] /\ MaxPlaced \in Nat

VARIABLES
  central,    \* whether the registry is running
  registry,   \* registry[n]: NodeInfo, in memory
  disk,       \* the same in fleet-nodes.json
  beat,       \* beat[n]: the count n's agent is about to report, or Waiting
  silence,    \* silence[n]: ticks since n's last heartbeat was taken
  told        \* ids that callers of /fleet/vms were answered

fleetVars == <<central, registry, disk, beat, silence, told>>

Waiting == MaxVm + 1

Unknown == [known |-> FALSE, count |-> 0, age |-> Window]

FleetInit ==
  /\ central = TRUE
  /\ registry = [n \in Node |-> Unknown]
  /\ disk = registry
  /\ beat = [n \in Node |-> Waiting]
  /\ silence = [n \in Node |-> Window]
  /\ told = {}

-----------------------------------------------------------------------------
(* Placement.                                                              *)

Healthy(n) == registry[n].known /\ registry[n].age < Window

\* free_vcpus and free_memory_mib: saturating.
Free(n) == IF registry[n].count >= Capacity[n] THEN 0 ELSE Capacity[n] - registry[n].count

Residual(n) == IF Capacity[n] = 0 THEN 0 ELSE (Free(n) * 10000) \div Capacity[n]

\* A node whose estimate is full stays eligible, one that never fits does not.
Eligible(n) == Healthy(n) /\ Capacity[n] >= 1

Better(m, n) ==
  \/ Residual(m) > Residual(n)
  \/ /\ Residual(m) = Residual(n)
     /\ \/ registry[m].count < registry[n].count
        \/ registry[m].count = registry[n].count /\ m < n

\* pick_best_capacity, as the set of at most one node.
Best == {m \in Node : Eligible(m) /\ \A n \in Node \ {m} : Eligible(n) => Better(m, n)}

\* What GET /fleet/vms shows: the VMs of healthy nodes that answer.
FleetView(n) == IF Healthy(n) /\ up[n] /\ Authorised(n, FALSE) THEN vms[n] ELSE {}

-----------------------------------------------------------------------------
(* Heartbeats.                                                             *)

\* Bug: a count that fails is reported as no VMs.
BeatAnyway(n) ==
  /\ beat[n] = Waiting
  /\ beat' = [beat EXCEPT ![n] = IF up[n] THEN CountVms(n, FALSE) ELSE 0]
  /\ UNCHANGED <<daemonVars, central, registry, disk, silence, told>>

\* local_vm_count, over loopback without a token.  No answer, no heartbeat.
Beat(n) ==
  /\ beat[n] = Waiting
  /\ up[n]
  /\ beat' = [beat EXCEPT ![n] = CountVms(n, FALSE)]
  /\ UNCHANGED <<daemonVars, central, registry, disk, silence, told>>

\* register, and persist_nodes, whose failure is only logged.
Register(n) ==
  /\ beat[n] # Waiting
  /\ central
  /\ registry' = [registry EXCEPT ![n] = [known |-> TRUE, count |-> beat[n], age |-> 0]]
  /\ \/ disk' = registry' /\ UNCHANGED mishaps
     \/ UNCHANGED disk /\ Mishap
  /\ silence' = [silence EXCEPT ![n] = 0]
  /\ beat' = [beat EXCEPT ![n] = Waiting]
  /\ UNCHANGED <<vms, born, up, rpc, central, told>>

\* The heartbeat does not get through; the agent waits for its next tick.
BeatLost(n) ==
  /\ beat[n] # Waiting
  /\ ~central
  /\ beat' = [beat EXCEPT ![n] = Waiting]
  /\ UNCHANGED <<daemonVars, central, registry, disk, silence, told>>

Older(info) == [info EXCEPT !.age = IF @ < Window THEN @ + 1 ELSE @]

Tick ==
  /\ registry' = [n \in Node |-> Older(registry[n])]
  /\ disk' = [n \in Node |-> Older(disk[n])]
  /\ silence' = [n \in Node |-> IF silence[n] < Window THEN silence[n] + 1 ELSE Window]
  /\ UNCHANGED <<daemonVars, central, beat, told>>

-----------------------------------------------------------------------------
(* /fleet/vms.  The node is picked under the lock and called without it,   *)
(* and without a bearer token.                                             *)

CreateOn(c, n) ==
  /\ central
  /\ rpc[FleetRequest(c)] = Quiet
  /\ registry[n].known /\ born < MaxPlaced
  /\ Send(FleetRequest(c), "create", n, 0, FALSE)
  /\ UNCHANGED <<vms, born, up, mishaps, fleetVars>>

CreateAnywhere(c) ==
  /\ central
  /\ rpc[FleetRequest(c)] = Quiet
  /\ born < MaxPlaced
  /\ \E n \in Best : Send(FleetRequest(c), "create", n, 0, FALSE)
  /\ UNCHANGED <<vms, born, up, mishaps, fleetVars>>

DeleteOn(c, n) ==
  /\ central
  /\ rpc[FleetRequest(c)] = Quiet
  /\ registry[n].known
  /\ \E v \in FleetView(n) : Send(FleetRequest(c), "delete", n, v, FALSE)
  /\ UNCHANGED <<vms, born, up, mishaps, fleetVars>>

\* The node's answer is passed on; everything but a success is a 502.
PassOn(c) ==
  LET r == FleetRequest(c) IN
  /\ rpc[r].stage = "done"
  /\ told' = IF rpc[r].op = "create" /\ rpc[r].reply = "ok" THEN told \cup {rpc[r].id} ELSE told
  /\ HangUp(r)
  /\ UNCHANGED <<vms, born, up, mishaps, central, registry, disk, beat, silence>>

-----------------------------------------------------------------------------
(* The central dies with the requests it was forwarding, and comes back    *)
(* with what fleet-nodes.json holds.                                       *)

AllRequests == {FleetRequest(c) : c \in FleetClient}

Creating == {r \in AllRequests : rpc[r].op = "create"}

CrashCentral ==
  /\ central
  /\ central' = FALSE
  /\ mishaps' = mishaps + Cardinality(Creating)
  /\ mishaps' <= MaxMishap
  /\ rpc' = [r \in Caller |-> IF r \in AllRequests THEN Quiet ELSE rpc[r]]
  /\ registry' = [n \in Node |-> Unknown]
  /\ UNCHANGED <<vms, born, up, disk, beat, silence, told>>

\* Bug: a loaded node counts as seen at the restart.
LoadAsSeen ==
  registry' = [n \in Node |-> IF disk[n].known THEN [disk[n] EXCEPT !.age = 0] ELSE disk[n]]

\* load_persisted: a file that cannot be read or parsed is an empty registry.
LoadPersisted ==
  registry' = disk

StartCentral ==
  /\ ~central
  /\ central' = TRUE
  /\ \/ LoadPersisted /\ UNCHANGED mishaps
     \/ UNCHANGED registry /\ Mishap
  /\ UNCHANGED <<vms, born, up, rpc, disk, beat, silence, told>>

FleetNext ==
  \/ \E n \in Node : Beat(n) \/ Register(n) \/ BeatLost(n)
  \/ Tick \/ CrashCentral \/ StartCentral
  \/ \E c \in FleetClient :
       PassOn(c) \/ CreateAnywhere(c) \/ \E n \in Node : CreateOn(c, n) \/ DeleteOn(c, n)

FleetFairness ==
  /\ WF_fleetVars(Tick)
  /\ \A n \in Node : WF_beat(Beat(n)) /\ WF_beat(Register(n)) /\ WF_beat(BeatLost(n))
  /\ WF_central(StartCentral)

-----------------------------------------------------------------------------
(* Properties.                                                             *)

\* A node that placement treats as healthy has really been heard of within
\* the window, whatever restarts of the central and failed writes of
\* fleet-nodes.json lie in between (central.rs: healthy, load_persisted).
HealthyIsRecent == \A n \in Node : Healthy(n) => silence[n] < Window
=============================================================================
