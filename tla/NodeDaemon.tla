----------------------------- MODULE NodeDaemon -----------------------------
(***************************************************************************)
(* fluxvm serve as its remote callers meet it: the REST handlers of one    *)
(* daemon per node in front of VmManager, and the HTTP exchanges they      *)
(* answer.  The callers are fleet requests (Fleet) and the Kubernetes      *)
(* operator's reconciles (KubeOperator).                                   *)
(*                                                                         *)
(* What VmManager does on the host is VmLifecycle's; here a VM is the      *)
(* record vms.json holds for it.  What can go wrong and matters to a       *)
(* caller (a lost answer, a failed create, an unreadable store, a crash)   *)
(* is counted in mishaps, so that properties can say how much is lost.     *)
(***************************************************************************)
EXTENDS Naturals, FiniteSets

CONSTANTS
  Node,         \* node names, numbered in their order; 0 is no node
  FleetClient,  \* concurrent requests to the fleet registry
  Cr,           \* DisposableVm objects, each reconciled by one task
  Guarded,      \* nodes whose fluxvm serve has auth tokens configured
  Quota,        \* max_vms_per_token
  Flaky,        \* nodes whose fluxvm serve may stop
  MaxVm,        \* bound on the VMs ever created; 0 is no VM
  MaxMishap     \* bound on the mishaps

ASSUME DaemonAssumption ==
  /\ Node \subseteq Nat \ {0}
  /\ Guarded \subseteq Node /\ Flaky \subseteq Node
  /\ Quota \in Nat /\ MaxVm \in Nat /\ MaxMishap \in Nat
  /\ IsFiniteSet(Node) /\ IsFiniteSet(FleetClient) /\ IsFiniteSet(Cr)

VARIABLES
  vms,      \* vms[n]: the ids in n's vms.json
  born,     \* ids given out so far
  up,       \* up[n]: n's fluxvm serve is running
  rpc,      \* rpc[c]: the HTTP exchange caller c is in
  mishaps   \* how much has gone wrong

daemonVars == <<vms, born, up, rpc, mishaps>>

Id == 1 .. MaxVm

Operator(k) == <<"operator", k>>

FleetRequest(c) == <<"fleet", c>>

Caller == {FleetRequest(c) : c \in FleetClient} \cup {Operator(k) : k \in Cr}

Quiet == [stage |-> "idle", op |-> "none", node |-> 0, id |-> 0,
          bearer |-> FALSE, reply |-> "none"]

DaemonInit ==
  /\ vms = [n \in Node |-> {}]
  /\ born = 0
  /\ up = [n \in Node |-> TRUE]
  /\ rpc = [c \in Caller |-> Quiet]
  /\ mishaps = 0

-----------------------------------------------------------------------------
(* Helpers.                                                                *)

Mishap == mishaps < MaxMishap /\ mishaps' = mishaps + 1

Send(c, op, n, id, bearer) ==
  rpc' = [rpc EXCEPT ![c] = [stage |-> "sent", op |-> op, node |-> n, id |-> id,
                             bearer |-> bearer, reply |-> "none"]]

HangUp(c) == rpc' = [rpc EXCEPT ![c] = Quiet]

Answered(c, op) == rpc[c].stage = "done" /\ rpc[c].op = op

Reply(c, reply, id) ==
  rpc' = [rpc EXCEPT ![c].stage = "done", ![c].reply = reply, ![c].id = id]

\* auth_middleware and require_admin: without tokens everyone is
\* anonymous-admin; the tokens in use here are admin's.
Authorised(n, bearer) == n \notin Guarded \/ bearer

\* enforce_token_quotas counts every VM of the host, for any named token.
WithinQuota(n) == n \in Guarded => Cardinality(vms[n]) < Quota

\* GET /v1/vms as a count; an unauthorised answer has no items.
CountVms(n, bearer) == IF Authorised(n, bearer) THEN Cardinality(vms[n]) ELSE 0

-----------------------------------------------------------------------------
(* Handlers.                                                               *)

\* The connection is refused or broken before the handler finishes.
Unreachable(c) ==
  /\ rpc[c].stage \in {"sent", "admitted"}
  /\ ~up[rpc[c].node]
  /\ Reply(c, "unreachable", 0)
  /\ UNCHANGED <<vms, born, up, mishaps>>

Unauthorised(c) ==
  /\ rpc[c].stage = "sent" /\ up[rpc[c].node]
  /\ ~Authorised(rpc[c].node, rpc[c].bearer)
  /\ Reply(c, "error", 0)
  /\ UNCHANGED <<vms, born, up, mishaps>>

Served(c, op) ==
  /\ rpc[c].stage = "sent" /\ rpc[c].op = op
  /\ up[rpc[c].node]
  /\ Authorised(rpc[c].node, rpc[c].bearer)

\* create_vm lists the VMs for the quota, then creates: two steps.
Admit(c) ==
  /\ Served(c, "create")
  /\ IF WithinQuota(rpc[c].node)
       THEN rpc' = [rpc EXCEPT ![c].stage = "admitted"]
       ELSE Reply(c, "error", 0)
  /\ UNCHANGED <<vms, born, up, mishaps>>

\* VmManager::create.  A failure after the placeholder leaves a Failed
\* record, a daemon that stops there the placeholder; the answer may be lost.
\* Beyond MaxVm every create is refused.
CreateVm(c) ==
  LET n == rpc[c].node IN
  /\ rpc[c].stage = "admitted"
  /\ \/ /\ born < MaxVm
        /\ born' = born + 1
        /\ vms' = [vms EXCEPT ![n] = @ \cup {born + 1}]
        /\ \/ up[n] /\ Reply(c, "ok", born + 1) /\ UNCHANGED mishaps
           \/ Mishap /\ Reply(c, IF up[n] THEN "error" ELSE "unreachable", 0)
     \/ /\ up[n] /\ Reply(c, "error", 0)
        /\ IF born = MaxVm THEN UNCHANGED mishaps ELSE Mishap
        /\ UNCHANGED <<vms, born>>
  /\ UNCHANGED up

\* get_vm.  A store that cannot be read is "VM not found" as well.
GetVm(c) ==
  /\ Served(c, "get")
  /\ \/ /\ Reply(c, IF rpc[c].id \in vms[rpc[c].node] THEN "ok" ELSE "notfound", rpc[c].id)
        /\ UNCHANGED mishaps
     \/ Mishap /\ Reply(c, "notfound", rpc[c].id)
  /\ UNCHANGED <<vms, born, up>>

\* delete_vm: the record goes, is not found, or stays because a step failed.
DeleteVm(c) ==
  LET n == rpc[c].node
      v == rpc[c].id
  IN
  /\ Served(c, "delete")
  /\ \/ /\ vms' = [vms EXCEPT ![n] = @ \ {v}]
        /\ Reply(c, IF v \in vms[n] THEN "ok" ELSE "notfound", v)
        /\ UNCHANGED mishaps
     \/ /\ Mishap
        /\ \E reply \in {"notfound", "error"} : Reply(c, reply, v)
        /\ UNCHANGED vms
  /\ UNCHANGED <<born, up>>

Handle(c) ==
  \/ Unreachable(c)
  \/ Unauthorised(c)
  \/ Admit(c)
  \/ CreateVm(c)
  \/ GetVm(c)
  \/ DeleteVm(c)

-----------------------------------------------------------------------------
(* On its own: ttl_seconds runs out; the daemon stops and comes back with  *)
(* the records it had.                                                     *)

Expire(n) ==
  /\ up[n]
  /\ \E v \in vms[n] : vms' = [vms EXCEPT ![n] = @ \ {v}]
  /\ UNCHANGED <<born, up, rpc, mishaps>>

StopDaemon(n) ==
  /\ n \in Flaky /\ up[n]
  /\ up' = [up EXCEPT ![n] = FALSE]
  /\ UNCHANGED <<vms, born, rpc, mishaps>>

StartDaemon(n) ==
  /\ ~up[n]
  /\ up' = [up EXCEPT ![n] = TRUE]
  /\ UNCHANGED <<vms, born, rpc, mishaps>>

DaemonNext ==
  \/ \E c \in Caller : Handle(c)
  \/ \E n \in Node : Expire(n) \/ StopDaemon(n) \/ StartDaemon(n)

DaemonFairness == \A c \in Caller : WF_rpc(Handle(c))
=============================================================================
