---------------------------- MODULE KubeOperator ----------------------------
(***************************************************************************)
(* fluxvm-kube: the operator of each node reconciles the DisposableVm      *)
(* objects pinned to it against the local fluxvm serve; the placer pins    *)
(* the objects that name no node.  Both work from watch caches.            *)
(*                                                                         *)
(* A reconcile waits at the HTTP exchange with fluxvm serve; what it does  *)
(* before and after is one request to the Kubernetes API each.  The API    *)
(* server, the watches and finalizer() belong to kube and kube_runtime.    *)
(***************************************************************************)
EXTENDS NodeDaemon

CONSTANT Capable   \* nodes labelled ragnarok.io/fluxvm-capable=true

ASSUME KubeAssumption == Capable \subseteq Node /\ Capable # {}

VARIABLES
  cr,      \* cr[k]: the object in the API server
  cache,   \* cache[k]: the copy the operators' watches hold
  queue,   \* queue[k]: the placer's watch shows k without a node
  pick     \* pick[k]: the node the placer has chosen and not yet written, or 0

kubeVars == <<cr, cache, queue, pick>>

NoCr == [exists |-> FALSE, node |-> 0, vm |-> 0, finalizer |-> FALSE, deleting |-> FALSE]

KubeInit ==
  /\ cr = [k \in Cr |-> NoCr]
  /\ cache = cr
  /\ queue = [k \in Cr |-> FALSE]
  /\ pick = [k \in Cr |-> 0]

-----------------------------------------------------------------------------
(* The API server, and its users.                                          *)

\* Acting on a copy that the object has moved away from is a mishap.
FreshOr(same) == IF same THEN UNCHANGED mishaps ELSE Mishap

\* A name used again while the placer still means the last object.
CreateCr(k, n) ==
  /\ ~cr[k].exists
  /\ FreshOr(pick[k] = 0)
  /\ cr' = [cr EXCEPT ![k] = [NoCr EXCEPT !.exists = TRUE, !.node = n]]
  /\ UNCHANGED <<vms, born, up, rpc, cache, queue, pick>>

\* kubectl delete: an object with a finalizer is only marked.
DeleteCr(k) ==
  /\ cr[k].exists /\ ~cr[k].deleting
  /\ cr' = [cr EXCEPT ![k] = IF @.finalizer THEN [@ EXCEPT !.deleting = TRUE] ELSE NoCr]
  /\ UNCHANGED <<daemonVars, cache, queue, pick>>

WatchOperator(k) ==
  /\ cache[k] # cr[k]
  /\ cache' = [cache EXCEPT ![k] = cr[k]]
  /\ UNCHANGED <<daemonVars, cr, queue, pick>>

Unpinned(k) == cr[k].exists /\ cr[k].node = 0

WatchPlacer(k) ==
  /\ queue[k] # Unpinned(k)
  /\ queue' = [queue EXCEPT ![k] = Unpinned(k)]
  /\ UNCHANGED <<daemonVars, cr, cache, pick>>

\* patch_status, a merge patch: a null vm_id clears it.  The phase says
\* Running with a vm_id and Failed without.
PatchStatus(k, vm) ==
  cr' = [cr EXCEPT ![k] = IF @.exists THEN [@ EXCEPT !.vm = vm] ELSE @]

-----------------------------------------------------------------------------
(* The operator.  finalizer() adds the finalizer before the first apply    *)
(* and removes it once cleanup has returned.                               *)

\* reconcile, of an object pinned to a node whose operator looks at it.
Reconciles(k) ==
  /\ rpc[Operator(k)] = Quiet
  /\ cache[k].exists /\ cache[k].node \in Node
  /\ FreshOr(cache[k] = cr[k])

AddFinalizer(k) ==
  /\ Reconciles(k)
  /\ ~cache[k].deleting /\ ~cache[k].finalizer
  /\ cr' = [cr EXCEPT ![k] = IF @.exists /\ ~@.deleting THEN [@ EXCEPT !.finalizer = TRUE] ELSE @]
  /\ UNCHANGED <<vms, born, up, rpc, cache, queue, pick>>

\* apply: without a vm_id create one, with one look whether it is there.
Apply(k) ==
  /\ Reconciles(k)
  /\ ~cache[k].deleting /\ cache[k].finalizer
  /\ Send(Operator(k), IF cache[k].vm = 0 THEN "create" ELSE "get",
          cache[k].node, cache[k].vm, TRUE)
  /\ UNCHANGED <<vms, born, up, kubeVars>>

\* apply after create_vm: every error is recorded as no VM.
RecordCreated(k) ==
  LET r == rpc[Operator(k)] IN
  /\ Answered(Operator(k), "create")
  /\ HangUp(Operator(k))
  /\ \/ /\ PatchStatus(k, IF r.reply = "ok" THEN r.id ELSE 0)
        /\ UNCHANGED mishaps
     \/ Mishap /\ UNCHANGED cr             \* the patch fails
  /\ UNCHANGED <<vms, born, up, cache, queue, pick>>

\* Bug: a VM that cannot be asked about counts as gone.
ForgetUnreachable(k) ==
  /\ Answered(Operator(k), "get")
  /\ HangUp(Operator(k))
  /\ IF rpc[Operator(k)].reply = "ok" THEN UNCHANGED cr ELSE PatchStatus(k, 0)
  /\ UNCHANGED <<vms, born, up, mishaps, cache, queue, pick>>

\* apply after get_vm: only "not found" clears the vm_id.
Refresh(k) ==
  /\ Answered(Operator(k), "get")
  /\ HangUp(Operator(k))
  /\ IF rpc[Operator(k)].reply = "notfound" THEN PatchStatus(k, 0) ELSE UNCHANGED cr
  /\ UNCHANGED <<vms, born, up, mishaps, cache, queue, pick>>

RemoveFinalizer(k) ==
  cr' = [cr EXCEPT ![k] = IF @.deleting THEN NoCr ELSE @]

\* cleanup: delete the VM the status names, if it names one.
Cleanup(k) ==
  /\ Reconciles(k)
  /\ cache[k].deleting /\ cache[k].finalizer
  /\ IF cache[k].vm = 0
       THEN RemoveFinalizer(k) /\ UNCHANGED rpc
       ELSE /\ Send(Operator(k), "delete", cache[k].node, cache[k].vm, TRUE)
            /\ UNCHANGED cr
  /\ UNCHANGED <<vms, born, up, cache, queue, pick>>

\* Bug: a VM that is already gone is an error, and cleanup is tried again.
InsistOnDelete(k) ==
  /\ Answered(Operator(k), "delete")
  /\ HangUp(Operator(k))
  /\ IF rpc[Operator(k)].reply = "ok" THEN RemoveFinalizer(k) ELSE UNCHANGED cr
  /\ UNCHANGED <<vms, born, up, mishaps, cache, queue, pick>>

\* delete_vm takes "not found" for done; on an error the finalizer stays.
CleanedUp(k) ==
  /\ Answered(Operator(k), "delete")
  /\ HangUp(Operator(k))
  /\ IF rpc[Operator(k)].reply \in {"ok", "notfound"} THEN RemoveFinalizer(k) ELSE UNCHANGED cr
  /\ UNCHANGED <<vms, born, up, mishaps, cache, queue, pick>>

\* The operator's process dies with its reconciles and starts again.
CrashOperator(n) ==
  LET lost == {c \in {Operator(k) : k \in Cr} : rpc[c].node = n} IN
  /\ lost # {}
  /\ mishaps' = mishaps + Cardinality(lost)
  /\ mishaps' <= MaxMishap
  /\ rpc' = [c \in Caller |-> IF c \in lost THEN Quiet ELSE rpc[c]]
  /\ UNCHANGED <<vms, born, up, kubeVars>>

-----------------------------------------------------------------------------
(* The placer: pick_node, then the patch of spec.node.                     *)

Pinned(n) == {k \in Cr : cr[k].exists /\ cr[k].node = n}

LessLoaded(m, n) ==
  \/ Cardinality(Pinned(m)) < Cardinality(Pinned(n))
  \/ Cardinality(Pinned(m)) = Cardinality(Pinned(n)) /\ m < n

PickNode(k) ==
  /\ pick[k] = 0
  /\ queue[k]
  /\ \E m \in Capable :
       /\ \A n \in Capable \ {m} : LessLoaded(m, n)
       /\ pick' = [pick EXCEPT ![k] = m]
  /\ FreshOr(Unpinned(k))
  /\ UNCHANGED <<vms, born, up, rpc, cr, cache, queue>>

Place(k) ==
  /\ pick[k] # 0
  /\ cr' = [cr EXCEPT ![k] = IF @.exists THEN [@ EXCEPT !.node = pick[k]] ELSE @]
  /\ pick' = [pick EXCEPT ![k] = 0]
  /\ UNCHANGED <<daemonVars, cache, queue>>

KubeNext ==
  \/ \E k \in Cr :
       \/ \E n \in Node \cup {0} : CreateCr(k, n)
       \/ DeleteCr(k) \/ WatchOperator(k) \/ WatchPlacer(k)
       \/ AddFinalizer(k) \/ Apply(k) \/ RecordCreated(k) \/ Refresh(k)
       \/ Cleanup(k) \/ CleanedUp(k)
       \/ PickNode(k) \/ Place(k)
  \/ \E n \in Node : CrashOperator(n)

Work(k) ==
  AddFinalizer(k) \/ Apply(k) \/ RecordCreated(k) \/ Refresh(k) \/ Cleanup(k) \/ CleanedUp(k)

KubeFairness ==
  \A k \in Cr :
    /\ WF_kubeVars(WatchOperator(k)) /\ WF_kubeVars(WatchPlacer(k))
    /\ WF_<<rpc, kubeVars>>(Work(k))
    /\ WF_kubeVars(PickNode(k)) /\ WF_kubeVars(Place(k))

-----------------------------------------------------------------------------
(* Properties.                                                             *)

Settled(k) == cr[k].vm \in vms[cr[k].node]

\* A host that takes no further VM: the quota, or the bound of the model.
Full(n) == born = MaxVm \/ ~WithinQuota(n)

\* Once the nodes stay up, a deleted DisposableVm goes, and one that is kept
\* has a VM again and again, also after its VM expired or was deleted behind
\* the operator's back (controller.rs: apply, cleanup; crd.rs: phase).
CrConverges ==
  (\A n \in Node : <>[]up[n]) =>
    \A k \in Cr :
      /\ cr[k].deleting ~> ~cr[k].deleting
      /\ <>[](cr[k].exists /\ ~cr[k].deleting) =>
           []<>(cr[k].node \in Node /\ (Settled(k) \/ Full(cr[k].node)))
=============================================================================
