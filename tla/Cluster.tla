------------------------------- MODULE Cluster -------------------------------
(***************************************************************************)
(* Several nodes under a fleet registry, or under the Kubernetes operator, *)
(* as the deployment chooses.                                              *)
(***************************************************************************)
EXTENDS Fleet, KubeOperator

VARIABLE deployment   \* which of the two

vars == <<daemonVars, fleetVars, kubeVars, deployment>>

Init ==
  /\ DaemonInit /\ FleetInit /\ KubeInit
  /\ deployment \in {"fleet", "kubernetes"}

Next ==
  /\ \/ DaemonNext /\ UNCHANGED <<fleetVars, kubeVars>>
     \/ deployment = "fleet" /\ FleetNext /\ UNCHANGED kubeVars
     \/ deployment = "kubernetes" /\ KubeNext /\ UNCHANGED fleetVars
  /\ UNCHANGED deployment

Spec == Init /\ [][Next]_vars

FairSpec ==
  /\ Spec /\ DaemonFairness
  /\ deployment = "fleet" => FleetFairness
  /\ deployment = "kubernetes" => KubeFairness

-----------------------------------------------------------------------------

\* Who knows of VM v of node n: an object's status, a reconcile or request
\* that has yet to pass the answer on, or somebody who was answered.
Known(n, v) ==
  \/ \E k \in Cr : cr[k].exists /\ cr[k].node = n /\ cr[k].vm = v
  \/ \E c \in Caller : Answered(c, "create") /\ rpc[c].node = n /\ rpc[c].id = v
  \/ v \in told

\* The VMs that nobody knows of, each with its node.
Leaked == {p \in Node \X Id : p[2] \in vms[p[1]] /\ ~Known(p[1], p[2])}

\* VMs that nobody knows of exist only because of a crash, a lost answer, a
\* failed create or patch, an unreadable store or a reconcile that ran on a
\* stale copy, at most one for each: retries, restarts of the daemons,
\* expiries, deletes behind the operator's back and placement leak nothing
\* (controller.rs: apply, cleanup; central.rs: create_vm).
LeaksBounded == Cardinality(Leaked) <= mishaps

\* A node whose fluxvm serve stays down stops being offered for placement,
\* and one that stays up, with the central up, is offered again and again
\* (node.rs: a failed count sends no heartbeat; a failed beat is retried).
HealthFollowsNode ==
  deployment = "fleet" =>
    \A n \in Node :
      /\ <>[]~up[n] => <>[]~Healthy(n)
      /\ <>[](up[n] /\ central) => []<>Healthy(n)
=============================================================================
