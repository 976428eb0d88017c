-------------------------- MODULE VmLifecycleProofs --------------------------
(***************************************************************************)
(* Type correctness of VmLifecycle and, for any number of VMs, tasks and   *)
(* launches, the uniqueness and the stability of guest CIDs under every    *)
(* interleaving, and the accord of records and host where operations on    *)
(* one VM do not overlap.                                                  *)
(***************************************************************************)
EXTENDS VmLifecycle, TLAPS

-----------------------------------------------------------------------------
(* Types.                                                                  *)

\* The initial state is well typed.
LEMMA InitTypeOK == Init => TypeOK
BY LifecycleAssumption
   DEF Init, TypeOK, TaskType, LoopType, ProcType, HostType, IdType,
       RecordMap, Empty, Step, Kind

\* An operation begins with a record, or at the read that opens delete.
LEMMA EnterTypes ==
  ASSUME TypeOK, NEW t \in Task, NEW k \in Kind, NEW v \in Vm,
         NEW s \in Step, NEW r \in VmRecord \cup {NoRec},
         s = "dget" \/ r \in VmRecord, Enter(t, k, v, s, r)
  PROVE  TaskType'
BY DEF TypeOK, TaskType, Enter, Goto

\* An operation ends.
LEMMA DoneTypes ==
  ASSUME TypeOK, NEW t \in Task, Done(t)
  PROVE  TaskType'
BY DEF TypeOK, TaskType, Done, Goto, Step, Kind

\* An operation goes on with a record.
LEMMA ContinueTypes ==
  ASSUME TypeOK, NEW t \in Task, pc[t] # "idle",
         NEW s \in Step, NEW r \in VmRecord, Continue(t, s, r)
  PROVE  TaskType'
BY DEF TypeOK, TaskType, Continue, Goto

\* What insert_with_cid may leave is a map of records.
LEMMA InsertTypes ==
  ASSUME store \in RecordMap, NEW v \in Vm, NEW r \in VmRecord,
         NEW needs_cid \in BOOLEAN,
         NEW m \in InsertWithCid(store, v, r, needs_cid)
  PROVE  /\ m \in RecordMap /\ m[v] \in VmRecord
         /\ \A w \in Vm \ {v} : m[w] = store[w]
         /\ m[v].guest_cid \in FreeCid(store) \cup {r.guest_cid}
<1>1. CASE needs_cid
  <2>1. PICK c \in FreeCid(store) : m = Put(store, v, [r EXCEPT !.guest_cid = c])
    BY <1>1, Zenon DEF InsertWithCid
  <2>2. /\ [r EXCEPT !.guest_cid = c] \in VmRecord
        /\ [r EXCEPT !.guest_cid = c].guest_cid = c
    BY DEF FreeCid, VmRecord
  <2> QED
    BY <2>1, <2>2 DEF Put, RecordMap
<1>2. CASE ~needs_cid
  <2>1. m = Put(store, v, r)
    BY <1>2, Zenon DEF InsertWithCid
  <2> QED
    BY <2>1 DEF Put, RecordMap
<1> QED
  BY <1>1, <1>2

\* A caller's request keeps the types.
LEMMA RequestTypes ==
  ASSUME TypeOK, NEW t \in Task, Request(t)
  PROVE  TypeOK'
<1>1. PICK v \in Vm : \/ Create(t, v) \/ Start(t, v) \/ Stop(t, v)
                      \/ Pause(t, v) \/ Resume(t, v) \/ Delete(t, v)
  BY DEF Request
<1>2. CASE Create(t, v)
  <2>1. PICK ttl \in Ttl, needs_cid \in BOOLEAN :
          \E m \in InsertWithCid(store, v, Placeholder(ttl), needs_cid) :
            store' = m /\ Enter(t, "create", v, "provision", m[v])
    BY <1>2 DEF Create
  <2>2. PICK m \in InsertWithCid(store, v, Placeholder(ttl), needs_cid) :
          store' = m /\ Enter(t, "create", v, "provision", m[v])
    BY <2>1
  <2>3. Placeholder(ttl) \in VmRecord
    BY LifecycleAssumption DEF Placeholder, VmRecord, Status
  <2>4. m \in RecordMap /\ m[v] \in VmRecord
    BY <2>3, InsertTypes DEF TypeOK
  <2>5. TaskType'
    BY <2>2, <2>4, EnterTypes DEF Kind, Step
  <2> QED
    BY <1>2, <2>2, <2>4, <2>5
       DEF TypeOK, Create, LoopType, ProcType, HostType, IdType, loopVars, procVars,
           auxVars
<1>3. ASSUME NEW k \in Kind, NEW s \in Step, Call(t, k, v, s)
      PROVE  TaskType'
  BY <1>3, EnterTypes DEF Call, Stored, TypeOK, RecordMap
<1>4. CASE Start(t, v) \/ Stop(t, v) \/ Pause(t, v) \/ Resume(t, v)
  <2>1. TaskType'
    BY <1>3, <1>4 DEF Start, Stop, Pause, Resume, Kind, Step
  <2> QED
    BY <1>4, <2>1
       DEF Start, Stop, Pause, Resume, TypeOK, LoopType, ProcType, HostType,
           IdType, loopVars, procVars, hostVars, auxVars, idVars
<1>5. CASE Delete(t, v)
  <2>1. TaskType'
    BY <1>5, EnterTypes DEF Delete, Kind, Step
  <2> QED
    BY <1>5, <2>1
       DEF Delete, TypeOK, LoopType, ProcType, HostType, IdType, loopVars,
           procVars, hostVars, auxVars, idVars
<1> QED
  BY <1>1, <1>2, <1>4, <1>5

\* An edit of a record's fields is a record.
LEMMA EditTypes ==
  ASSUME NEW r \in VmRecord
  PROVE  /\ \A s \in Status : [r EXCEPT !.status = s] \in VmRecord
         /\ \A x \in BOOLEAN : /\ [r EXCEPT !.netns = x] \in VmRecord
                               /\ [r EXCEPT !.lvm_lv = x] \in VmRecord
                               /\ [r EXCEPT !.seed = x] \in VmRecord
                               /\ [r EXCEPT !.cgroup = x] \in VmRecord
         /\ \A k \in 0 .. MaxLaunch :
              [r EXCEPT !.pid = k, !.virtiofsd = k, !.status = "Running"]
                \in VmRecord
         /\ [r EXCEPT !.netns = FALSE, !.virtiofsd = 0, !.cgroup = FALSE,
                      !.status = "Stopped", !.pid = 0] \in VmRecord
         /\ [r EXCEPT !.netns = FALSE, !.cgroup = FALSE,
                      !.status = "Stopped", !.pid = 0] \in VmRecord
<1>1. \A s \in Status : [r EXCEPT !.status = s] \in VmRecord
  BY DEF VmRecord
<1>2. ASSUME NEW x \in BOOLEAN
      PROVE  /\ [r EXCEPT !.netns = x] \in VmRecord
             /\ [r EXCEPT !.lvm_lv = x] \in VmRecord
             /\ [r EXCEPT !.seed = x] \in VmRecord
             /\ [r EXCEPT !.cgroup = x] \in VmRecord
  BY DEF VmRecord
<1>3. \A k \in 0 .. MaxLaunch :
        [r EXCEPT !.pid = k, !.virtiofsd = k, !.status = "Running"] \in VmRecord
  BY DEF VmRecord, Status
<1>4. \A x \in BOOLEAN, k \in 0 .. MaxLaunch :
        /\ [r EXCEPT !.netns = x, !.virtiofsd = k, !.cgroup = x,
                     !.status = "Stopped", !.pid = k] \in VmRecord
        /\ [r EXCEPT !.netns = x, !.cgroup = x,
                     !.status = "Stopped", !.pid = k] \in VmRecord
  BY DEF VmRecord, Status
<1>5. FALSE \in BOOLEAN /\ 0 \in 0 .. MaxLaunch
  BY LifecycleAssumption
<1> QED
  BY <1>1, <1>2, <1>3, <1>4, <1>5, Zenon

\* What a clean-up leaves behind is a resource of a VM, one that failed was
\* tried, and nothing comes to be by it.
LEMMA CleanupTypes ==
  ASSUME TypeOK, NEW v \in Vm, NEW tried \in SUBSET Resource
  PROVE  /\ \A failed \in Failures(v, tried) :
              failed \subseteq tried /\ Leaks(v, tried, failed) \subseteq Resource \X Vm
         /\ \A S, c : Without(S, v, c) \subseteq S
<1>1. \A failed \in Failures(v, tried) : failed \subseteq tried
  BY DEF Failures
<1>2. ASSUME NEW failed \in SUBSET tried
      PROVE  Leaks(v, tried, failed) \subseteq Resource \X Vm
  BY DEF Leaks, TypeOK, HostType
<1>3. \A S, c : Without(S, v, c) \subseteq S
  BY DEF Without
<1> QED
  BY <1>1, <1>2, <1>3

\* The record recalls resources only.
LEMMA RecalledTypes ==
  ASSUME NEW t \in Task
  PROVE  Recalled(t) \in SUBSET Resource /\ Recalled(t) \ {"cgroup"} \in SUBSET Resource
BY DEF Recalled, Resource

\* The steps of create and start keep the types.
LEMMA LaunchTypes ==
  ASSUME TypeOK, NEW t \in Task,
         \/ RefuseQga(t) \/ Provision(t) \/ Prepare(t) \/ ApplyPolicy(t)
         \/ Launch(t) \/ Undo(t)
  PROVE  TypeOK'
<1> DEFINE r == rec[t]
           v == tvm[t]
<1>1. pc[t] \in Step \ {"idle", "dget"} /\ r \in VmRecord /\ v \in Vm
  BY DEF TypeOK, TaskType, RefuseQga, Provision, Prepare, ApplyPolicy, Launch,
         Undo, Step
<1>2. CASE RefuseQga(t)
  <2>1. TaskType'
    BY <1>2, DoneTypes DEF RefuseQga
  <2> QED
    BY <1>2, <2>1
       DEF RefuseQga, TypeOK, LoopType, ProcType, HostType, IdType, loopVars,
           procVars, hostVars, auxVars, idVars
<1>3. CASE Provision(t)
  <2>1. TaskType'
    <3>1. [r EXCEPT !.lvm_lv = v \in LvmVm] \in VmRecord
      <4>1. [r EXCEPT !.lvm_lv = TRUE] \in VmRecord
        BY <1>1, EditTypes
      <4>2. [r EXCEPT !.lvm_lv = FALSE] \in VmRecord
        BY <1>1, EditTypes
      <4>3. (v \in LvmVm) = TRUE \/ (v \in LvmVm) = FALSE
        OBVIOUS
      <4> QED
        BY <4>1, <4>2, <4>3, Zenon
    <3> QED
      BY <1>1, <1>3, <3>1, ContinueTypes DEF Provision, Step
  <2>2. leaked' \subseteq Resource \X Vm /\ disk' \subseteq Vm
    BY <1>1, <1>3 DEF Provision, TypeOK, HostType, Resource
  <2> QED
    BY <1>3, <2>1, <2>2
       DEF Provision, TypeOK, LoopType, ProcType, HostType, IdType, loopVars,
           procVars, idVars
<1>4. CASE Prepare(t)
  <2>1. TaskType'
    <3>1. /\ [r EXCEPT !.netns = TRUE] \in VmRecord
          /\ [r EXCEPT !.netns = FALSE] \in VmRecord
      BY <1>1, EditTypes
    <3> QED
      BY <1>1, <1>4, <3>1, ContinueTypes DEF Prepare, Step
  <2>2. leaked' \subseteq Resource \X Vm /\ net' \subseteq NetnsVm
    BY <1>1, <1>4 DEF Prepare, Leaks, TypeOK, HostType, Resource
  <2> QED
    BY <1>4, <2>1, <2>2
       DEF Prepare, TypeOK, LoopType, ProcType, HostType, IdType, loopVars,
           procVars, idVars
<1>5. CASE ApplyPolicy(t)
  <2>1. TaskType'
    <3> DEFINE q == [r EXCEPT !.seed = r.seed \/ kind[t] = "create"]
    <3>1. q \in VmRecord
      BY <1>1 DEF VmRecord
    <3>2. \/ Continue(t, "launch", q)
          \/ Continue(t, "undo", r) \/ Continue(t, "undo", q)
      BY <1>5 DEF ApplyPolicy
    <3> QED
      BY <1>1, <3>1, <3>2, ContinueTypes DEF Step
  <2>2. leaked' \subseteq Resource \X Vm /\ policy' \subseteq Vm /\ bare' \subseteq Vm
    BY <1>1, <1>5 DEF ApplyPolicy, TypeOK, HostType
  <2> QED
    BY <1>5, <2>1, <2>2
       DEF ApplyPolicy, TypeOK, LoopType, ProcType, HostType, IdType, loopVars,
           procVars, idVars
<1>6. CASE Launch(t)
  <2> DEFINE k == launched[v] + 1
             q == [r EXCEPT !.pid = k, !.virtiofsd = k, !.status = "Running"]
  <2>0. k \in Nat \ {0}
    BY <1>1, LifecycleAssumption DEF TypeOK, ProcType
  <2>1. TaskType'
    <3>1. CASE Continue(t, "undo", r)
      BY <1>1, <3>1, ContinueTypes DEF Step
    <3>2. ASSUME k <= MaxLaunch,
                 Continue(t, "save", q)
                   \/ Continue(t, "save", [q EXCEPT !.cgroup = TRUE])
          PROVE  TaskType'
      <4>1. k \in 0 .. MaxLaunch
        BY <2>0, <3>2, LifecycleAssumption
      <4>2. q \in VmRecord
        BY <1>1, <4>1, EditTypes, Zenon
      <4>3. [q EXCEPT !.cgroup = TRUE] \in VmRecord
        BY <4>2, EditTypes, Zenon
      <4> QED
        BY <1>1, <3>2, <4>2, <4>3, ContinueTypes DEF Step
    <3> QED
      BY <1>6, <3>1, <3>2 DEF Launch, AttachCgroup
  <2>2. ProcType'
    BY <1>1, <1>6, <2>0, LifecycleAssumption DEF Launch, TypeOK, ProcType
  <2>3. leaked' \subseteq Resource \X Vm /\ cgroup' \subseteq Vm
    BY <1>1, <1>6 DEF Launch, AttachCgroup, Leaks, TypeOK, HostType, Resource
  <2>4. vfs' \subseteq Vm \X (0 .. MaxLaunch)
    BY <1>1, <1>6, <2>0, LifecycleAssumption DEF Launch, TypeOK, HostType
  <2> QED
    BY <1>6, <2>1, <2>2, <2>3, <2>4
       DEF Launch, TypeOK, HostType, LoopType, IdType, loopVars, idVars
<1>7. CASE Undo(t)
  <2>1. TaskType'
    <3>1. [r EXCEPT !.status = "Failed"] \in VmRecord
      BY <1>1, EditTypes DEF Status
    <3> QED
      BY <1>1, <1>7, <3>1, ContinueTypes DEF Undo, Step
  <2>2. /\ leaked' \subseteq Resource \X Vm
        /\ policy' \subseteq policy /\ net' \subseteq net /\ disk' \subseteq disk
    <3> DEFINE tried == Recalled(t) \ {"cgroup"}
    <3>1. PICK failed \in Failures(v, tried) :
            /\ policy' = Without(policy, v, "policy" \notin failed)
            /\ net' = Without(net, v, "net" \in tried \ failed)
            /\ leaked' = Leaks(v, tried, failed)
      BY <1>7, Zenon DEF Undo
    <3>2. tried \in SUBSET Resource
      BY RecalledTypes
    <3> HIDE DEF tried
    <3> QED
      BY <1>1, <1>7, <3>1, <3>2, CleanupTypes DEF Undo
  <2> QED
    BY <1>7, <2>1, <2>2
       DEF Undo, TypeOK, LoopType, ProcType, HostType, IdType, loopVars,
           procVars, idVars
<1> QED
  BY <1>2, <1>3, <1>4, <1>5, <1>6, <1>7

\* The steps of stop, pause, resume and delete, and the write that ends most
\* operations, keep the types.
LEMMA FinishTypes ==
  ASSUME TypeOK, NEW t \in Task,
         \/ Save(t) \/ Kill(t) \/ Clean(t) \/ Signal(t) \/ DeleteGet(t)
         \/ StopGet(t) \/ RemoveRecord(t) \/ Reclaim(t) \/ ReconcileClean(t)
         \/ Reload(t)
  PROVE  TypeOK'
<1> DEFINE r == rec[t]
           v == tvm[t]
<1>1. v \in Vm /\ pc[t] # "idle" /\ (pc[t] # "dget" => r \in VmRecord)
  BY DEF TypeOK, TaskType, Save, Kill, Clean, Signal, DeleteGet, StopGet,
         RemoveRecord, Reclaim, ReconcileClean, Reload
<1>2. store[v] \in VmRecord \cup {NoRec}
  BY <1>1 DEF TypeOK, RecordMap
<1>3. CASE Save(t)
  <2>1. TaskType'
    BY <1>1, <1>3, DoneTypes, ContinueTypes DEF Save, Step
  <2>2. store' \in RecordMap
    BY <1>1, <1>3 DEF Save, Update, Put, TypeOK, RecordMap
  <2> QED
    BY <1>3, <2>1, <2>2
       DEF Save, TypeOK, LoopType, ProcType, HostType, IdType, loopVars,
           procVars, hostVars, auxVars, idVars
<1>4. CASE Kill(t)
  <2>1. TaskType'
    BY <1>1, <1>4, DoneTypes, ContinueTypes DEF Kill, Step
  <2>2. alive' \subseteq alive /\ suspended' = suspended \cap alive'
    BY <1>4 DEF Kill
  <2> QED
    BY <1>4, <2>1, <2>2
       DEF Kill, TypeOK, LoopType, ProcType, HostType, IdType, loopVars,
           hostVars, auxVars, idVars
<1>5. CASE Clean(t)
  <2>1. TaskType'
    <3>1. [r EXCEPT !.netns = FALSE, !.virtiofsd = 0, !.cgroup = FALSE,
                    !.status = "Stopped", !.pid = 0] \in VmRecord
      BY <1>1, <1>5, EditTypes DEF Clean
    <3> QED
      BY <1>1, <1>5, <3>1, ContinueTypes DEF Clean, Step
  <2>2. /\ leaked' \subseteq Resource \X Vm
        /\ policy' \subseteq policy /\ net' \subseteq net /\ cgroup' \subseteq cgroup
    <3>1. PICK failed \in Failures(v, Recalled(t)) :
            /\ policy' = Without(policy, v, "policy" \notin failed)
            /\ net' = Without(net, v, "net" \in Recalled(t) \ failed)
            /\ cgroup' = Without(cgroup, v, "cgroup" \in Recalled(t) \ failed)
            /\ leaked' = Leaks(v, Recalled(t), failed)
      BY <1>5, Zenon DEF Clean
    <3> QED
      BY <1>1, <3>1, RecalledTypes, CleanupTypes
  <2>3. vfs' \subseteq vfs
    BY <1>5 DEF Clean
  <2> QED
    BY <1>5, <2>1, <2>2, <2>3
       DEF Clean, TypeOK, LoopType, ProcType, HostType, IdType, loopVars,
           procVars, idVars
<1>6. CASE Signal(t)
  <2>1. TaskType'
    <3>1. /\ [r EXCEPT !.status = "Paused"] \in VmRecord
          /\ [r EXCEPT !.status = "Running"] \in VmRecord
      BY <1>1, <1>6, EditTypes DEF Signal, Status
    <3> QED
      BY <1>1, <1>6, <3>1, DoneTypes, ContinueTypes DEF Signal, Step
  <2> QED
    BY <1>6, <2>1
       DEF Signal, TypeOK, LoopType, ProcType, HostType, IdType, loopVars,
           hostVars, auxVars, idVars
<1>7. CASE DeleteGet(t)
  <2>1. TaskType'
    BY <1>1, <1>2, <1>7, DoneTypes, ContinueTypes DEF DeleteGet, Step
  <2> QED
    BY <1>7, <2>1
       DEF DeleteGet, TypeOK, LoopType, ProcType, HostType, IdType, loopVars,
           procVars, hostVars, auxVars, idVars
<1>8. CASE StopGet(t)
  <2>1. TaskType'
    BY <1>1, <1>2, <1>8, DoneTypes, ContinueTypes DEF StopGet, Step
  <2> QED
    BY <1>8, <2>1
       DEF StopGet, TypeOK, LoopType, ProcType, HostType, IdType, loopVars,
           procVars, hostVars, auxVars, idVars
<1>9. CASE RemoveRecord(t)
  <2>1. TaskType'
    BY <1>1, <1>2, <1>9, DoneTypes, ContinueTypes DEF RemoveRecord, Step
  <2>2. store' \in RecordMap /\ IdType'
    BY <1>1, <1>9 DEF RemoveRecord, Remove, TypeOK, RecordMap, IdType
  <2> QED
    BY <1>9, <2>1, <2>2
       DEF RemoveRecord, TypeOK, LoopType, ProcType, HostType, loopVars,
           procVars, hostVars, auxVars
<1>10. CASE Reclaim(t)
  <2>1. TaskType'
    BY <1>10, DoneTypes DEF Reclaim
  <2>2. /\ leaked' \subseteq Resource \X Vm
        /\ policy' \subseteq policy /\ disk' \subseteq disk /\ wsp' \subseteq wsp
    <3> DEFINE tried == {"policy", "wsp"}
                          \cup (IF v \in LvmVm /\ ~r.lvm_lv THEN {} ELSE {"disk"})
    <3>1. PICK failed \in Failures(v, tried) :
            /\ policy' = Without(policy, v, "policy" \notin failed)
            /\ disk' = Without(disk, v, "disk" \in tried \ failed)
            /\ wsp' = Without(wsp, v, "wsp" \notin failed)
            /\ leaked' = Leaks(v, tried, failed)
      BY <1>10, Zenon DEF Reclaim
    <3>2. tried \in SUBSET Resource
      BY DEF Resource
    <3> HIDE DEF tried
    <3> QED
      BY <1>1, <3>1, <3>2, CleanupTypes
  <2> QED
    BY <1>10, <2>1, <2>2
       DEF Reclaim, TypeOK, LoopType, ProcType, HostType, IdType, loopVars,
           procVars, idVars
<1>11. CASE ReconcileClean(t)
  <2>1. TaskType'
    <3>1. [r EXCEPT !.netns = FALSE, !.cgroup = FALSE,
                    !.status = "Stopped", !.pid = 0] \in VmRecord
      BY <1>1, <1>11, EditTypes DEF ReconcileClean
    <3> QED
      BY <1>1, <1>11, <3>1, ContinueTypes DEF ReconcileClean, Step
  <2>2. /\ leaked' \subseteq Resource \X Vm
        /\ policy' \subseteq policy /\ net' \subseteq net /\ cgroup' \subseteq cgroup
    <3>1. PICK failed \in Failures(v, Recalled(t)) :
            /\ policy' = Without(policy, v, "policy" \notin failed)
            /\ net' = Without(net, v, "net" \in Recalled(t) \ failed)
            /\ cgroup' = Without(cgroup, v, "cgroup" \in Recalled(t) \ failed)
            /\ leaked' = Leaks(v, Recalled(t), failed)
      BY <1>11, Zenon DEF ReconcileClean
    <3> QED
      BY <1>1, <3>1, RecalledTypes, CleanupTypes
  <2> QED
    BY <1>11, <2>1, <2>2
       DEF ReconcileClean, TypeOK, LoopType, ProcType, HostType, IdType,
           loopVars, procVars, idVars
<1>12. CASE Reload(t)
  <2>1. TaskType'
    BY <1>12, DoneTypes DEF Reload
  <2> QED
    BY <1>1, <1>12, <2>1
       DEF Reload, TypeOK, LoopType, ProcType, HostType, IdType, loopVars,
           procVars, idVars
<1> QED
  BY <1>3, <1>4, <1>5, <1>6, <1>7, <1>8, <1>9, <1>10, <1>11, <1>12

\* The reaper's loop keeps the types.
LEMMA LoopTypes ==
  ASSUME TypeOK, NEW t \in Task, Loop(t)
  PROVE  TypeOK'
<1>1. CASE Tick(t)
  <2>1. Listed \in RecordMap /\ store \in RecordMap
    BY DEF TypeOK, Listed, RecordMap
  <2>2. LoopType'
    BY <1>1, <2>1 DEF Tick, TypeOK, LoopType
  <2> QED
    BY <1>1, <2>2
       DEF Tick, TypeOK, TaskType, ProcType, HostType, IdType, taskVars,
           procVars, hostVars, auxVars, idVars
<1>2. ASSUME NEW v \in Vm, NEW p, Visits(t, v, p)
      PROVE  LoopType' /\ todo[t][v] \in VmRecord
  BY <1>2 DEF Visits, Remove, TypeOK, LoopType, RecordMap
<1>3. ASSUME NEW v \in Vm, FoundAlive(t, v) \/ PassOver(t, v)
      PROVE  TypeOK'
  <2>1. LoopType'
    BY <1>2, <1>3 DEF FoundAlive, PassOver
  <2> QED
    BY <1>3, <2>1
       DEF FoundAlive, PassOver, TypeOK, TaskType, ProcType, HostType, IdType,
           taskVars, procVars, hostVars, auxVars, idVars
<1>4. ASSUME NEW v \in Vm,
             \/ FoundDead(t, v) \/ ReapStuck(t, v) \/ ReapExpired(t, v)
             \/ Repair(t, v)
      PROVE  TypeOK'
  <2>1. LoopType' /\ todo[t][v] \in VmRecord
    BY <1>2, <1>4 DEF FoundDead, ReapStuck, ReapExpired, Repair
  <2>2. TaskType'
    BY <1>4, <2>1, EnterTypes DEF FoundDead, ReapStuck, ReapExpired, Repair, Kind, Step
  <2> QED
    BY <1>4, <2>1, <2>2
       DEF FoundDead, Repair, ReapStuck, ReapExpired, TypeOK, ProcType, HostType,
           IdType, procVars, hostVars, auxVars, idVars
<1> QED
  BY <1>1, <1>3, <1>4 DEF Loop

\* So does what happens to the host.
LEMMA HostTypes ==
  ASSUME TypeOK, Host
  PROVE  TypeOK'
<1>1. ASSUME NEW p, ProcessDies(p)
      PROVE  TypeOK'
  BY <1>1
     DEF ProcessDies, TypeOK, TaskType, LoopType, ProcType, HostType, IdType,
         taskVars, loopVars, hostVars, auxVars, idVars
<1>2. ASSUME NEW t \in Task, TaskKilled(t)
      PROVE  TypeOK'
  <2>1. TaskType'
    BY <1>2, DoneTypes DEF TaskKilled
  <2>2. LoopType'
    BY <1>2 DEF TaskKilled, TypeOK, LoopType, RecordMap, Empty
  <2> QED
    BY <1>2, <2>1, <2>2
       DEF TaskKilled, TypeOK, ProcType, HostType, IdType, procVars, hostVars, auxVars,
           idVars
<1>3. ASSUME NEW v \in Vm, Expire(v)
      PROVE  TypeOK'
  BY <1>3
     DEF Expire, TypeOK, TaskType, LoopType, ProcType, HostType, IdType,
         taskVars, loopVars, procVars, hostVars, auxVars
<1> QED
  BY <1>1, <1>2, <1>3 DEF Host

\* Every step keeps the types.
LEMMA TypeStep == TypeOK /\ [Next]_vars => TypeOK'
<1> SUFFICES ASSUME TypeOK, [Next]_vars PROVE TypeOK'
  OBVIOUS
<1>1. CASE UNCHANGED vars
  BY <1>1
     DEF vars, TypeOK, TaskType, LoopType, ProcType, HostType, IdType, taskVars,
         loopVars, procVars, hostVars, auxVars, idVars
<1>2. ASSUME NEW t \in Task, Request(t) \/ Advance(t) \/ Loop(t)
      PROVE  TypeOK'
  BY <1>2, RequestTypes, LaunchTypes, FinishTypes, LoopTypes DEF Advance
<1> QED
  BY <1>1, <1>2, HostTypes DEF Next

\* VmManager's state is well typed, and no operation goes on without a record,
\* for any number of VMs, concurrent operations and launches.
THEOREM Typing == Spec => []TypeOK
BY InitTypeOK, TypeStep, PTL DEF Spec

-----------------------------------------------------------------------------
(* Guest CIDs.  UniqueCids is not inductive: Save writes a copy read many  *)
(* steps ago.  What makes it so is that all copies of a VM's record, in    *)
(* the store, in the operations in flight and in the reapers' lists, agree *)
(* on its CID, and that a VM once created and never deleted is stored.     *)

\* Some copy of v's record has CID c.
HasCid(v, c) ==
  \/ store[v] # NoRec /\ store[v].guest_cid = c
  \/ \E t \in Task : tvm[t] = v /\ rec[t] # NoRec /\ rec[t].guest_cid = c
  \/ \E t \in Task : todo[t][v] # NoRec /\ todo[t][v].guest_cid = c

CopiesAgree ==
  \A v \in Vm : \A c, d \in Cids \cup {0} : HasCid(v, c) /\ HasCid(v, d) => c = d

CopiedIsBorn == \A v \in Vm : \A c \in Cids \cup {0} : HasCid(v, c) => v \in born

CidInv == CopiesAgree /\ CopiedIsBorn /\ born \ gone \subseteq Stored(store) /\ UniqueCids

\* r is no record of v, or one whose CID a copy of v already has.
Known(v, r) == r = NoRec \/ HasCid(v, r.guest_cid)

\* An operation that begins with a known copy brings no new CID.
LEMMA EnterKnown ==
  ASSUME TypeOK, NEW t \in Task, NEW v \in Vm, NEW k, NEW w, NEW s, NEW r,
         Enter(t, k, w, s, r), w = v => Known(v, r)
  PROVE  \A u \in Task : tvm'[u] = v => Known(v, rec'[u])
BY DEF Enter, Goto, Known, HasCid, TypeOK, TaskType

\* Nor does one that ends.
LEMMA DoneKnown ==
  ASSUME TypeOK, NEW t \in Task, NEW v \in Vm, Done(t)
  PROVE  \A u \in Task : tvm'[u] = v => Known(v, rec'[u])
BY DEF Done, Goto, Known, HasCid, TypeOK, TaskType

\* Nor does one that goes on with its copy edited.
LEMMA ContinueKnown ==
  ASSUME TypeOK, NEW t \in Task, NEW v \in Vm, NEW s, NEW r, rec[t] \in VmRecord,
         Continue(t, s, r), r.guest_cid = rec[t].guest_cid
  PROVE  \A u \in Task : tvm'[u] = v => Known(v, rec'[u])
BY NoRecAssumption DEF Continue, Goto, Known, HasCid, TypeOK, TaskType

\* The store gets no CID of v that no copy of v had, except from v's create.
LEMMA StoreKnown ==
  ASSUME TypeOK, [Next]_vars, NEW v \in Vm, \A t \in Task : ~Create(t, v)
  PROVE  Known(v, store'[v])
<1>1. CASE store' = store
  BY <1>1 DEF Known, HasCid
<1>2. ASSUME NEW t \in Task, NEW w \in Vm, Create(t, w)
      PROVE  Known(v, store'[v])
  <2>1. w # v
    BY <1>2
  <2>2. PICK ttl \in Ttl, needs_cid \in BOOLEAN :
          \E m \in InsertWithCid(store, w, Placeholder(ttl), needs_cid) : store' = m
    BY <1>2 DEF Create
  <2>3. Placeholder(ttl) \in VmRecord
    BY LifecycleAssumption DEF Placeholder, VmRecord, Status
  <2>4. store'[v] = store[v]
    BY <2>1, <2>2, <2>3, InsertTypes DEF TypeOK
  <2> QED
    BY <2>4 DEF Known, HasCid
<1>3. ASSUME NEW t \in Task, Save(t)
      PROVE  Known(v, store'[v])
  BY <1>3 DEF Save, Update, Put, TypeOK, RecordMap, Known, HasCid
<1>4. ASSUME NEW t \in Task, RemoveRecord(t)
      PROVE  Known(v, store'[v])
  BY <1>4 DEF RemoveRecord, Remove, TypeOK, RecordMap, Known, HasCid
<1>5. ASSUME NEW t \in Task, Request(t)
      PROVE  Known(v, store'[v])
  BY <1>1, <1>2, <1>5 DEF Request, Start, Stop, Pause, Resume, Delete
<1>6. ASSUME NEW t \in Task, Advance(t)
      PROVE  Known(v, store'[v])
  BY <1>1, <1>3, <1>4, <1>6
     DEF Advance, RefuseQga, Provision, Prepare, ApplyPolicy, Launch, AttachCgroup, Undo,
         Kill, Clean, Signal, DeleteGet, StopGet, Reclaim, ReconcileClean, Reload
<1>7. ASSUME NEW t \in Task, Loop(t)
      PROVE  Known(v, store'[v])
  BY <1>1, <1>7
     DEF Loop, Tick, Repair, FoundAlive, FoundDead, ReapStuck, ReapExpired, PassOver
<1>8. ASSUME Host
      PROVE  Known(v, store'[v])
  BY <1>1, <1>8 DEF Host, ProcessDies, TaskKilled, Expire
<1> QED
  BY <1>1, <1>5, <1>6, <1>7, <1>8 DEF Next, vars

\* Nor do the reapers' lists.
LEMMA TodoKnown ==
  ASSUME TypeOK, [Next]_vars, NEW v \in Vm
  PROVE  \A u \in Task : Known(v, todo'[u][v])
<1>1. CASE todo' = todo
  BY <1>1 DEF Known, HasCid
<1>2. ASSUME NEW t \in Task, NEW w \in Vm, NEW p, Visits(t, w, p)
      PROVE  \A u \in Task : Known(v, todo'[u][v])
  BY <1>2 DEF Visits, Remove, TypeOK, LoopType, RecordMap, Known, HasCid
<1>3. ASSUME NEW t \in Task, Tick(t)
      PROVE  \A u \in Task : Known(v, todo'[u][v])
  <2>1. Listed[v] \in {NoRec, store[v]}
    BY DEF Listed
  <2> QED
    BY <1>3, <2>1 DEF Tick, TypeOK, LoopType, Known, HasCid
<1>4. ASSUME NEW t \in Task, TaskKilled(t)
      PROVE  \A u \in Task : Known(v, todo'[u][v])
  BY <1>4 DEF TaskKilled, Empty, TypeOK, LoopType, Known, HasCid
<1>5. ASSUME NEW t \in Task, Request(t)
      PROVE  \A u \in Task : Known(v, todo'[u][v])
  BY <1>1, <1>5
     DEF Request, Create, Start, Stop, Pause, Resume, Delete, loopVars
<1>6. ASSUME NEW t \in Task, Advance(t)
      PROVE  \A u \in Task : Known(v, todo'[u][v])
  BY <1>1, <1>6
     DEF Advance, RefuseQga, Provision, Prepare, ApplyPolicy, Launch, AttachCgroup, Undo,
         Save, Kill, Clean, Signal, DeleteGet, StopGet, RemoveRecord, Reclaim,
         ReconcileClean, Reload, loopVars
<1>7. ASSUME NEW t \in Task, Loop(t)
      PROVE  \A u \in Task : Known(v, todo'[u][v])
  BY <1>2, <1>3, <1>7
     DEF Loop, Repair, FoundAlive, FoundDead, ReapStuck, ReapExpired, PassOver
<1>8. ASSUME Host
      PROVE  \A u \in Task : Known(v, todo'[u][v])
  BY <1>1, <1>4, <1>8 DEF Host, ProcessDies, Expire, loopVars
<1> QED
  BY <1>1, <1>5, <1>6, <1>7, <1>8 DEF Next, vars, loopVars

\* Nor do the steps of create and start, in the tasks' copies.
LEMMA LaunchKnown ==
  ASSUME TypeOK, NEW t \in Task, NEW v \in Vm,
         \/ RefuseQga(t) \/ Provision(t) \/ Prepare(t) \/ ApplyPolicy(t)
         \/ Launch(t) \/ Undo(t)
  PROVE  \A u \in Task : tvm'[u] = v => Known(v, rec'[u])
<1> DEFINE r == rec[t]
<1>1. r \in VmRecord
  BY DEF TypeOK, TaskType, RefuseQga, Provision, Prepare, ApplyPolicy, Launch,
         Undo
<1>2. ASSUME NEW s, NEW q, Continue(t, s, q), q.guest_cid = r.guest_cid
      PROVE  \A u \in Task : tvm'[u] = v => Known(v, rec'[u])
  BY <1>1, <1>2, ContinueKnown
<1>3. CASE RefuseQga(t)
  BY <1>3, DoneKnown DEF RefuseQga
<1>4. CASE Provision(t)
  <2>1. [r EXCEPT !.lvm_lv = tvm[t] \in LvmVm].guest_cid = r.guest_cid
    BY <1>1 DEF VmRecord
  <2> QED
    BY <1>2, <1>4, <2>1 DEF Provision
<1>5. CASE Prepare(t)
  <2>1. /\ [r EXCEPT !.netns = TRUE].guest_cid = r.guest_cid
        /\ [r EXCEPT !.netns = FALSE].guest_cid = r.guest_cid
    BY <1>1 DEF VmRecord
  <2> QED
    BY <1>2, <1>5, <2>1 DEF Prepare
<1>6. CASE ApplyPolicy(t)
  <2> DEFINE q == [r EXCEPT !.seed = r.seed \/ kind[t] = "create"]
  <2>1. q.guest_cid = r.guest_cid
    BY <1>1 DEF VmRecord
  <2>2. \/ Continue(t, "launch", q)
        \/ Continue(t, "undo", r) \/ Continue(t, "undo", q)
    BY <1>6 DEF ApplyPolicy
  <2> QED
    BY <1>2, <2>1, <2>2
<1>7. CASE Launch(t)
  <2> DEFINE k == launched[tvm[t]] + 1
             q == [r EXCEPT !.pid = k, !.virtiofsd = k, !.status = "Running"]
  <2>1. /\ q.guest_cid = r.guest_cid
        /\ [q EXCEPT !.cgroup = TRUE].guest_cid = r.guest_cid
    BY <1>1 DEF VmRecord
  <2>2. \/ Continue(t, "undo", r) \/ Continue(t, "save", q)
        \/ Continue(t, "save", [q EXCEPT !.cgroup = TRUE])
    BY <1>7 DEF Launch, AttachCgroup
  <2> QED
    BY <1>2, <2>1, <2>2
<1>8. CASE Undo(t)
  <2>1. [r EXCEPT !.status = "Failed"].guest_cid = r.guest_cid
    BY <1>1 DEF VmRecord
  <2> QED
    BY <1>2, <1>8, <2>1 DEF Undo
<1> QED
  BY <1>3, <1>4, <1>5, <1>6, <1>7, <1>8

\* Nor do the steps of stop, pause, resume and delete.
LEMMA FinishKnown ==
  ASSUME TypeOK, NEW t \in Task, NEW v \in Vm,
         \/ Save(t) \/ Kill(t) \/ Clean(t) \/ Signal(t) \/ DeleteGet(t)
         \/ StopGet(t) \/ RemoveRecord(t) \/ Reclaim(t) \/ ReconcileClean(t)
         \/ Reload(t)
  PROVE  \A u \in Task : tvm'[u] = v => Known(v, rec'[u])
<1> DEFINE r == rec[t]
<1>1. pc[t] \notin {"idle", "dget"} => r \in VmRecord
  BY DEF TypeOK, TaskType
<1>2. ASSUME NEW s, NEW q, r \in VmRecord, Continue(t, s, q),
             q.guest_cid = r.guest_cid
      PROVE  \A u \in Task : tvm'[u] = v => Known(v, rec'[u])
  BY <1>2, ContinueKnown
<1>3. ASSUME NEW s, Continue(t, s, store[tvm[t]])
      PROVE  \A u \in Task : tvm'[u] = v => Known(v, rec'[u])
  BY <1>3 DEF Continue, Goto, Known, HasCid, TypeOK, TaskType
<1>4. CASE Save(t) \/ Kill(t)
  BY <1>1, <1>2, <1>4, DoneKnown DEF Save, Kill
<1>5. CASE Clean(t)
  <2>1. [r EXCEPT !.netns = FALSE, !.virtiofsd = 0, !.cgroup = FALSE,
                  !.status = "Stopped", !.pid = 0].guest_cid = r.guest_cid
    BY <1>1, <1>5 DEF Clean, VmRecord
  <2> QED
    BY <1>1, <1>2, <1>5, <2>1 DEF Clean
<1>6. CASE Signal(t)
  <2>1. /\ [r EXCEPT !.status = "Paused"].guest_cid = r.guest_cid
        /\ [r EXCEPT !.status = "Running"].guest_cid = r.guest_cid
    BY <1>1, <1>6 DEF Signal, VmRecord
  <2> QED
    BY <1>1, <1>2, <1>6, <2>1, DoneKnown DEF Signal
<1>7. CASE DeleteGet(t) \/ StopGet(t) \/ RemoveRecord(t)
  BY <1>3, <1>7, DoneKnown DEF DeleteGet, StopGet, RemoveRecord
<1>8. CASE Reclaim(t) \/ Reload(t)
  BY <1>8, DoneKnown DEF Reclaim, Reload
<1>9. CASE ReconcileClean(t)
  <2>1. [r EXCEPT !.netns = FALSE, !.cgroup = FALSE,
                  !.status = "Stopped", !.pid = 0].guest_cid = r.guest_cid
    BY <1>1, <1>9 DEF ReconcileClean, VmRecord
  <2> QED
    BY <1>1, <1>2, <1>9, <2>1 DEF ReconcileClean
<1> QED
  BY <1>4, <1>5, <1>6, <1>7, <1>8, <1>9

\* So no step but v's create gives a task a CID of v that is not v's.
LEMMA RecKnown ==
  ASSUME TypeOK, [Next]_vars, NEW v \in Vm, \A t \in Task : ~Create(t, v)
  PROVE  \A u \in Task : tvm'[u] = v => Known(v, rec'[u])
<1>1. CASE UNCHANGED taskVars
  BY <1>1 DEF taskVars, Known, HasCid
<1>2. ASSUME NEW t \in Task, NEW w \in Vm, NEW k, NEW s, NEW r,
             Enter(t, k, w, s, r), w = v => Known(v, r)
      PROVE  \A u \in Task : tvm'[u] = v => Known(v, rec'[u])
  BY <1>2, EnterKnown
<1>3. ASSUME NEW t \in Task, Request(t)
      PROVE  \A u \in Task : tvm'[u] = v => Known(v, rec'[u])
  <2>1. PICK w \in Vm : \/ Create(t, w) \/ Start(t, w) \/ Stop(t, w)
                        \/ Pause(t, w) \/ Resume(t, w) \/ Delete(t, w)
    BY <1>3 DEF Request
  <2>2. CASE Create(t, w)
    <3>1. w # v
      BY <2>2
    <3>2. \E r : Enter(t, "create", w, "provision", r)
      BY <2>2 DEF Create
    <3> QED
      BY <1>2, <3>1, <3>2
  <2>3. CASE Delete(t, w)
    BY <1>2, <2>3 DEF Delete, Known
  <2>4. ASSUME NEW k, NEW s, Call(t, k, w, s)
        PROVE  \A u \in Task : tvm'[u] = v => Known(v, rec'[u])
    <3>1. w = v => Known(v, store[w])
      BY DEF Known, HasCid
    <3> QED
      BY <1>2, <2>4, <3>1 DEF Call
  <2> QED
    BY <2>1, <2>2, <2>3, <2>4 DEF Start, Stop, Pause, Resume
<1>4. ASSUME NEW t \in Task, Advance(t)
      PROVE  \A u \in Task : tvm'[u] = v => Known(v, rec'[u])
  BY <1>4, LaunchKnown, FinishKnown DEF Advance
<1>5. ASSUME NEW t \in Task, Loop(t)
      PROVE  \A u \in Task : tvm'[u] = v => Known(v, rec'[u])
  <2>1. \A w \in Vm : w = v => Known(v, todo[t][w]) /\ Known(v, NoRec)
    BY DEF Known, HasCid
  <2>2. ASSUME NEW w \in Vm,
               \/ FoundDead(t, w) \/ ReapStuck(t, w) \/ ReapExpired(t, w)
               \/ Repair(t, w)
        PROVE  \A u \in Task : tvm'[u] = v => Known(v, rec'[u])
    BY <1>2, <2>1, <2>2 DEF FoundDead, ReapStuck, ReapExpired, Repair
  <2> QED
    BY <1>1, <1>5, <2>2 DEF Loop, Tick, FoundAlive, PassOver
<1>6. ASSUME Host
      PROVE  \A u \in Task : tvm'[u] = v => Known(v, rec'[u])
  BY <1>1, <1>6, DoneKnown DEF Host, ProcessDies, TaskKilled, Expire
<1> QED
  BY <1>1, <1>3, <1>4, <1>5, <1>6 DEF Next, vars

\* Only v's create gives a copy of v a CID that no copy of v had.
LEMMA CopyStep ==
  ASSUME TypeOK, [Next]_vars, NEW v \in Vm, \A t \in Task : ~Create(t, v),
         NEW c \in Cids \cup {0}, HasCid(v, c)'
  PROVE  HasCid(v, c)
<1>1. CASE store'[v] # NoRec /\ store'[v].guest_cid = c
  BY <1>1, StoreKnown DEF Known
<1>2. CASE \E t \in Task : /\ tvm'[t] = v
                           /\ rec'[t] # NoRec /\ rec'[t].guest_cid = c
  BY <1>2, RecKnown DEF Known
<1>3. CASE \E t \in Task : todo'[t][v] # NoRec /\ todo'[t][v].guest_cid = c
  BY <1>3, TodoKnown DEF Known
<1> QED
  BY <1>1, <1>2, <1>3 DEF HasCid

\* create finds no copy of v, and leaves every copy with one CID that is 0 or
\* used by no stored VM.
LEMMA CreateStep ==
  ASSUME TypeOK, CopiedIsBorn, NEW t \in Task, NEW v \in Vm, Create(t, v)
  PROVE  /\ store'[v] \in VmRecord
         /\ store'[v].guest_cid \in FreeCid(store) \cup {0}
         /\ \A w \in Vm \ {v} : store'[w] = store[w]
         /\ \A c \in Cids \cup {0} : HasCid(v, c)' => c = store'[v].guest_cid
<1>1. \A c \in Cids \cup {0} : ~HasCid(v, c)
  BY DEF CopiedIsBorn, Create
<1>2. \A u \in Task : /\ tvm[u] = v => rec[u] = NoRec
                      /\ todo[u][v] = NoRec
  <2>1. \A r \in VmRecord : r.guest_cid \in Cids \cup {0}
    BY DEF VmRecord
  <2>2. /\ rec \in [Task -> VmRecord \cup {NoRec}]
        /\ \A u \in Task : todo[u][v] \in VmRecord \cup {NoRec}
    BY DEF TypeOK, TaskType, LoopType, RecordMap
  <2> QED
    BY <1>1, <2>1, <2>2 DEF HasCid
<1>3. PICK ttl \in Ttl, needs_cid \in BOOLEAN :
        \E m \in InsertWithCid(store, v, Placeholder(ttl), needs_cid) :
          store' = m /\ Enter(t, "create", v, "provision", m[v])
  BY DEF Create
<1>4. Placeholder(ttl) \in VmRecord /\ Placeholder(ttl).guest_cid = 0
  BY LifecycleAssumption DEF Placeholder, VmRecord, Status
<1>5. /\ store'[v] \in VmRecord
      /\ store'[v].guest_cid \in FreeCid(store) \cup {0}
      /\ \A w \in Vm \ {v} : store'[w] = store[w]
  BY <1>3, <1>4, InsertTypes DEF TypeOK
<1>6. Enter(t, "create", v, "provision", store'[v]) /\ todo' = todo
  BY <1>3 DEF Create, loopVars
<1>7. \A u \in Task : tvm'[u] = v => rec'[u] \in {NoRec, store'[v]}
  BY <1>2, <1>6 DEF Enter, TypeOK, TaskType
<1> QED
  BY <1>2, <1>5, <1>6, <1>7 DEF HasCid

\* Ids are only added, and one that is not yet deleted is stored.
LEMMA BornStep ==
  ASSUME TypeOK, CopiedIsBorn, born \ gone \subseteq Stored(store), [Next]_vars
  PROVE  /\ born \subseteq born' /\ gone \subseteq gone'
         /\ born' \ gone' \subseteq Stored(store')
<1> DEFINE Goal == /\ born \subseteq born' /\ gone \subseteq gone'
                   /\ born' \ gone' \subseteq Stored(store')
<1>1. CASE UNCHANGED <<store, born, gone>>
  BY <1>1
<1>2. ASSUME NEW t \in Task, NEW v \in Vm, Create(t, v)
      PROVE  Goal
  <2>1. store'[v] # NoRec /\ \A w \in Vm \ {v} : store'[w] = store[w]
    BY <1>2, CreateStep, NoRecAssumption
  <2> QED
    BY <1>2, <2>1 DEF Create, Stored
<1>3. ASSUME NEW t \in Task, Save(t)
      PROVE  Goal
  <2>1. rec[t] \in VmRecord /\ tvm[t] \in Vm
    BY <1>3 DEF Save, TypeOK, TaskType
  <2> QED
    BY <1>3, <2>1, NoRecAssumption
       DEF Save, Update, Put, Stored, TypeOK, RecordMap, idVars
<1>4. ASSUME NEW t \in Task, RemoveRecord(t)
      PROVE  Goal
  BY <1>4 DEF RemoveRecord, Remove, Stored, TypeOK, RecordMap
<1>5. ASSUME NEW t \in Task, Request(t)
      PROVE  Goal
  BY <1>1, <1>2, <1>5 DEF Request, Start, Stop, Pause, Resume, Delete, idVars
<1>6. ASSUME NEW t \in Task, Advance(t)
      PROVE  Goal
  BY <1>1, <1>3, <1>4, <1>6
     DEF Advance, RefuseQga, Provision, Prepare, ApplyPolicy, Launch, AttachCgroup, Undo,
         Kill, Clean, Signal, DeleteGet, StopGet, Reclaim, ReconcileClean,
         Reload, idVars
<1>7. ASSUME NEW t \in Task, Loop(t)
      PROVE  Goal
  BY <1>1, <1>7
     DEF Loop, Tick, Repair, FoundAlive, FoundDead, ReapStuck, ReapExpired, PassOver,
         idVars
<1>8. ASSUME Host
      PROVE  Goal
  BY <1>1, <1>8 DEF Host, ProcessDies, TaskKilled, Expire, idVars
<1> QED
  BY <1>1, <1>5, <1>6, <1>7, <1>8 DEF Next, vars, idVars

\* CidInv is inductive, given the types.
LEMMA CidStep ==
  ASSUME TypeOK, TypeOK', CidInv, [Next]_vars
  PROVE  CidInv'
<1>1. ASSUME NEW v \in Vm, NEW c \in Cids \cup {0}, NEW d \in Cids \cup {0},
             HasCid(v, c)', HasCid(v, d)'
      PROVE  c = d
  <2>1. CASE \A t \in Task : ~Create(t, v)
    BY <1>1, <2>1, CopyStep DEF CidInv, CopiesAgree
  <2>2. CASE \E t \in Task : Create(t, v)
    BY <1>1, <2>2, CreateStep DEF CidInv
  <2> QED
    BY <2>1, <2>2
<1>2. /\ born \subseteq born' /\ gone \subseteq gone'
      /\ born' \ gone' \subseteq Stored(store')
  BY BornStep DEF CidInv
<1>3. ASSUME NEW v \in Vm, NEW c \in Cids \cup {0}, HasCid(v, c)'
      PROVE  v \in born'
  <2>1. CASE \A t \in Task : ~Create(t, v)
    BY <1>2, <1>3, <2>1, CopyStep DEF CidInv, CopiedIsBorn
  <2>2. CASE \E t \in Task : Create(t, v)
    BY <2>2 DEF Create
  <2> QED
    BY <2>1, <2>2
<1>4. \A v \in Stored(store) : /\ HasCid(v, store[v].guest_cid)
                               /\ store[v].guest_cid \in Cids \cup {0}
  BY DEF Stored, HasCid, TypeOK, RecordMap, VmRecord
<1>5. ASSUME NEW v \in Stored(store')
      PROVE  /\ v \in Vm
             /\ \E c \in Cids \cup {0} : c = store'[v].guest_cid /\ HasCid(v, c)'
  BY <1>5 DEF Stored, HasCid, TypeOK, RecordMap, VmRecord
<1>6. ASSUME NEW v \in Stored(store') \ gone', \A t \in Task : ~Create(t, v)
      PROVE  v \in Stored(store) \ gone /\ store'[v].guest_cid = store[v].guest_cid
  <2>1. HasCid(v, store'[v].guest_cid)
    BY <1>5, <1>6, CopyStep
  <2>2. v \in Stored(store) \ gone
    BY <1>2, <1>5, <1>6, <2>1 DEF CidInv, CopiedIsBorn
  <2> QED
    BY <1>4, <1>5, <1>6, <2>1, <2>2 DEF CidInv, CopiesAgree
<1>7. ASSUME NEW v \in Stored(store') \ gone', NEW w \in Stored(store') \ gone',
             v # w, store'[v].guest_cid = store'[w].guest_cid,
             NEW t \in Task, Create(t, v)
      PROVE  store'[v].guest_cid = 0
  <2>1. /\ store'[v].guest_cid \in FreeCid(store) \cup {0}
        /\ store'[w] = store[w]
    BY <1>5, <1>7, CreateStep DEF CidInv
  <2>2. store[w].guest_cid \in UsedCids(store)
    BY <1>5, <1>7, <2>1 DEF UsedCids, Stored
  <2> QED
    BY <1>7, <2>1, <2>2 DEF FreeCid
<1>8. UniqueCids'
  <2> SUFFICES ASSUME NEW v \in Stored(store') \ gone',
                      NEW w \in Stored(store') \ gone',
                      v # w, store'[v].guest_cid = store'[w].guest_cid
               PROVE  store'[v].guest_cid = 0
    BY DEF UniqueCids
  <2>1. CASE \A t \in Task : ~Create(t, v) /\ ~Create(t, w)
    BY <1>6, <2>1 DEF CidInv, UniqueCids
  <2>2. CASE \E t \in Task : Create(t, v) \/ Create(t, w)
    BY <1>7, <2>2
  <2> QED
    BY <2>1, <2>2
<1> QED
  BY <1>1, <1>2, <1>3, <1>8 DEF CidInv, CopiesAgree, CopiedIsBorn

\* The initial state has no copies.
LEMMA InitCidInv == Init => CidInv
BY DEF Init, CidInv, CopiesAgree, CopiedIsBorn, UniqueCids, HasCid, Stored, Empty

\* However operations interleave and wherever their processes are killed, two
\* VMs that were never deleted have different guest CIDs (create through
\* insert_with_cid, and every whole-record write since).
THEOREM CidsStayUnique == Spec => []UniqueCids
<1>1. Init => TypeOK /\ CidInv
  BY InitTypeOK, InitCidInv
<1>2. TypeOK /\ CidInv /\ [Next]_vars => TypeOK' /\ CidInv'
  BY TypeStep, CidStep
<1>3. CidInv => UniqueCids
  BY DEF CidInv
<1> QED
  BY <1>1, <1>2, <1>3, PTL DEF Spec

\* No write of a stale copy, by any operation, changes the CID in a record.
THEOREM CidsNeverChange == Spec => CidNeverChanges
<1>1. Init => TypeOK /\ CidInv
  BY InitTypeOK, InitCidInv
<1>2. TypeOK /\ CidInv /\ [Next]_vars => TypeOK' /\ CidInv'
  BY TypeStep, CidStep
<1> DEFINE Kept == \A v \in Stored(store) \cap Stored(store') :
                     store'[v].guest_cid = store[v].guest_cid
<1>3. ASSUME TypeOK, TypeOK', CidInv, [Next]_vars
      PROVE  Kept
  <2> SUFFICES ASSUME NEW v \in Stored(store) \cap Stored(store')
               PROVE  store'[v].guest_cid = store[v].guest_cid
    OBVIOUS
  <2>1. /\ v \in Vm
        /\ HasCid(v, store[v].guest_cid) /\ store[v].guest_cid \in Cids \cup {0}
        /\ \E c \in Cids \cup {0} : c = store'[v].guest_cid /\ HasCid(v, c)'
    BY <1>3 DEF Stored, HasCid, TypeOK, RecordMap, VmRecord
  <2>2. \A t \in Task : ~Create(t, v)
    BY <1>3, <2>1 DEF CidInv, CopiedIsBorn, Create
  <2>3. HasCid(v, store'[v].guest_cid)
    BY <1>3, <2>1, <2>2, CopyStep
  <2> QED
    BY <1>3, <2>1, <2>3 DEF CidInv, CopiesAgree
<1>4. TypeOK /\ TypeOK' /\ CidInv /\ [Next]_vars => [Kept]_vars
  BY <1>3
<1> QED
  BY <1>1, <1>2, <1>4, PTL DEF Spec, CidNeverChanges

-----------------------------------------------------------------------------
(* Operations that do not overlap on a VM.                                 *)
(*                                                                         *)
(* Four properties of VmLifecycle are about Quiet states, or hold because  *)
(* an operation that is under way knows what it has done.  What makes them *)
(* inductive is, for a VM nobody is at work on, how its record and the     *)
(* host agree (Settled), and for each step of the one task that is at work *)
(* on it, what of that is so already (Stage).                              *)

\* Task t is at work on v, or has it on a reaper's list.
Busy(t, v) == tvm[t] = v \/ todo[t][v] # NoRec

\* Operations on one VM do not overlap.
OnePerVm == \A t, u \in Task : \A v \in Vm : Busy(t, v) /\ Busy(u, v) => t = u

Up == {"Running", "Paused"}

Launches == 1 .. MaxLaunch

\* No VMM of v runs.
Down(v) == \A k \in Launches : <<v, k>> \notin alive

\* Nothing runs or is wired for v, but for what a failed clean-up left.
Vacated(v) ==
  /\ Down(v)
  /\ v \in net => Left("net", v)
  /\ v \in policy => Left("policy", v)
  /\ v \in cgroup => Left("cgroup", v)

\* The VMM <<v, k>> is what record r of v says.
Serves(v, k, r) ==
  /\ k = r.pid /\ k = r.virtiofsd /\ k = launched[v] /\ r.status \in Up
  /\ <<v, k>> \in suspended <=> r.status = "Paused"
  /\ <<v, k>> \in vfs
  /\ v \in disk /\ v \in wsp
  /\ FailClosed /\ v \in NetnsVm => v \in policy \/ v \in bare

\* Record r names what there is of v's namespace, cgroup and thin volume.
Names(v, r) ==
  /\ v \in net => r.netns \/ Left("net", v)
  /\ r.cgroup => v \in cgroup
  /\ v \in cgroup => r.cgroup \/ Left("cgroup", v)
  /\ v \in disk /\ v \in LvmVm => r.lvm_lv \/ Left("disk", v)

\* Record r and the host agree on v.
Coherent(v, r) ==
  /\ Names(v, r)
  /\ \A k \in Launches : <<v, k>> \in alive => Serves(v, k, r)
  /\ v \in policy => v \in net \/ Left("policy", v)
  /\ r.status \in Up => r.pid # 0
  /\ r.status \notin Up =>
       /\ ~r.cgroup
       /\ v \in net => Left("net", v)
       /\ v \in policy => Left("policy", v)

\* What is so of v while nobody is at work on it.
Settled(v) ==
  IF store[v] = NoRec
    THEN /\ Vacated(v)
         /\ v \in disk => Left("disk", v)
         /\ v \in wsp => Left("wsp", v)
    ELSE Coherent(v, store[v])

\* What is so of v when task t is at work on it.
Stage(t, v) ==
  /\ pc[t] # "idle"
  /\ pc[t] \notin {"dget", "reclaim"} => store[v] # NoRec
  /\ pc[t] \in {"provision", "prepare", "apply", "launch"} => kind[t] \in {"create", "start"}
  /\ pc[t] = "provision" => Vacated(v) /\ rec[t] = store[v] /\ Coherent(v, store[v])
  /\ pc[t] \in {"prepare", "apply", "launch", "undo", "clean", "rclean"} =>
       Down(v) /\ Names(v, rec[t])
  /\ pc[t] \in {"provision", "prepare", "apply", "launch", "undo"} => ~rec[t].cgroup
  /\ pc[t] \in {"prepare", "apply", "launch"} => v \in disk
  /\ pc[t] \in {"prepare", "apply"} => (v \in policy => Left("policy", v))
  /\ pc[t] = "prepare" => (v \in net => Left("net", v))
  /\ pc[t] = "apply" => (v \in NetnsVm => v \in net)
  /\ pc[t] = "launch" => /\ v \in policy => v \in net \/ Left("policy", v)
                         /\ FailClosed /\ v \in NetnsVm => v \in policy
  /\ pc[t] = "save" => Coherent(v, rec[t]) /\ (kind[t] = "delete" => Vacated(v))
  /\ pc[t] \in {"kill", "signal"} => rec[t] = store[v] /\ Coherent(v, store[v])
  /\ pc[t] = "sget" => Coherent(v, store[v])
  /\ pc[t] = "reload" => Coherent(v, store[v]) /\ store[v].status \in Up /\ v \in net
  /\ pc[t] = "dget" => Settled(v)
  /\ pc[t] = "remove" => Vacated(v) /\ Names(v, store[v])
  /\ pc[t] = "reclaim" => store[v] = NoRec /\ Vacated(v) /\ Names(v, rec[t])

Sane(v) ==
  /\ (\A t \in Task : tvm[t] # v) => Settled(v)
  /\ \A t \in Task : tvm[t] = v => Stage(t, v)

AllSane == \A v \in Vm : Sane(v)

\* A task that is idle has no VM and one between passes no list; lists hold
\* what is stored, and only VMs that were created are.
Bookkeeping ==
  /\ \A t \in Task : pc[t] = "idle" => tvm[t] = NoVm
  /\ \A t \in Task : \A v \in Vm : pass[t] = "none" => todo[t][v] = NoRec
  /\ \A t \in Task : \A v \in Vm :
       todo[t][v] # NoRec => todo[t][v] = store[v] /\ tvm[t] # v
  /\ \A v \in Vm : store[v] # NoRec => v \in born

SeqInv == Bookkeeping /\ AllSane

\* Under the types, the VMMs of v are its launches that are alive.
LEMMA ProcsOf ==
  ASSUME TypeOK, NEW v \in Vm
  PROVE  /\ Procs(v) = {} <=> Down(v)
         /\ \A p \in Procs(v) : \E k \in Launches : p = <<v, k>> /\ p \in alive
<1>1. \A p \in Procs(v) : \E k \in Launches : p = <<v, k>> /\ p \in alive
  BY DEF TypeOK, ProcType, Procs, Launches
<1>2. \A k \in Launches : <<v, k>> \in alive => <<v, k>> \in Procs(v)
  BY DEF Procs
<1> QED
  BY <1>1, <1>2 DEF Down

\* The step leaves v as it is, except that VMMs may die and that the policy of
\* a VM without a record may go.
Kept(v) ==
  /\ store'[v] = store[v] /\ launched'[v] = launched[v]
  /\ (v \in net') = (v \in net) /\ (v \in bare') = (v \in bare)
  /\ (v \in disk') = (v \in disk) /\ (v \in wsp') = (v \in wsp)
  /\ (v \in cgroup') = (v \in cgroup)
  /\ \A what \in Resource \ {"policy"} : Left(what, v)' <=> Left(what, v)
  /\ \/ /\ (v \in policy') = (v \in policy)
        /\ Left("policy", v)' <=> Left("policy", v)
     \/ store[v] = NoRec /\ v \notin policy'
  /\ \A k \in Launches :
       <<v, k>> \in alive' =>
         /\ <<v, k>> \in alive
         /\ (<<v, k>> \in suspended') = (<<v, k>> \in suspended)
         /\ (<<v, k>> \in vfs') = (<<v, k>> \in vfs)

\* The step is not one of task u.
SameTask(u) ==
  pc'[u] = pc[u] /\ kind'[u] = kind[u] /\ tvm'[u] = tvm[u] /\ rec'[u] = rec[u]

\* The step is one of t, on v.
Works(t, v) ==
  /\ \A w \in Vm : w # v => Kept(w)
  /\ \A u \in Task : u # t => SameTask(u)

\* A VM that is kept stays down, and in accord with a record it accorded with.
LEMMA KeptCoherent ==
  ASSUME NEW v \in Vm, Kept(v)
  PROVE  /\ Down(v) => Down(v)'
         /\ Vacated(v) => Vacated(v)'
         /\ \A r : Names(v, r) => Names(v, r)'
         /\ store[v] # NoRec => \A r : Coherent(v, r) => Coherent(v, r)'
<1>0. /\ Left("net", v)' <=> Left("net", v)
      /\ Left("disk", v)' <=> Left("disk", v)
      /\ Left("cgroup", v)' <=> Left("cgroup", v)
  BY DEF Kept, Resource
<1>1. Down(v) => Down(v)'
  BY DEF Kept, Down
<1>2. Vacated(v) => Vacated(v)'
  BY <1>0, <1>1 DEF Kept, Vacated
<1>3. ASSUME NEW r, Names(v, r)
      PROVE  Names(v, r)'
  BY <1>0, <1>3 DEF Kept, Names
<1>4. ASSUME NEW r, Coherent(v, r), store[v] # NoRec
      PROVE  Coherent(v, r)'
  <2>1. Names(v, r)'
    BY <1>3, <1>4 DEF Coherent
  <2>2. ASSUME NEW k \in Launches, <<v, k>> \in alive'
        PROVE  Serves(v, k, r)'
    <3>1. Serves(v, k, r)
      BY <1>4, <2>2 DEF Coherent, Kept
    <3> QED
      BY <1>4, <2>2, <3>1 DEF Serves, Kept
  <2> QED
    BY <1>0, <1>4, <2>1, <2>2 DEF Coherent, Kept
<1> QED
  BY <1>1, <1>2, <1>3, <1>4

\* A settled VM that is kept stays settled.
LEMMA KeptSettled ==
  ASSUME NEW v \in Vm, Kept(v), Settled(v)
  PROVE  Settled(v)'
<1>1. CASE store[v] = NoRec
  <2>1. Vacated(v)' /\ store'[v] = NoRec
    BY <1>1, KeptCoherent DEF Settled, Kept
  <2>2. (v \in disk' => Left("disk", v)') /\ (v \in wsp' => Left("wsp", v)')
    BY <1>1 DEF Settled, Kept, Resource
  <2> QED
    BY <2>1, <2>2 DEF Settled
<1>2. CASE store[v] # NoRec
  <2>1. PICK r : r = store[v]
    OBVIOUS
  <2>2. store'[v] = r /\ r # NoRec /\ Coherent(v, r)
    BY <1>2, <2>1 DEF Settled, Kept, Coherent, Names, Serves
  <2>3. Coherent(v, r)'
    BY <1>2, <2>2, KeptCoherent
  <2> QED
    BY <2>2, <2>3 DEF Settled, Coherent, Names, Serves
<1> QED
  BY <1>1, <1>2

\* And what is so of it at a stage of a task stays so.
LEMMA KeptStage ==
  ASSUME NEW t \in Task, NEW v \in Vm, Kept(v), SameTask(t), Stage(t, v)
  PROVE  Stage(t, v)'
<1>1. PICK r : r = rec[t]
  OBVIOUS
<1>2. PICK q : q = store[v]
  OBVIOUS
<1>3. PICK s : s = pc[t]
  OBVIOUS
<1>4. /\ rec'[t] = r /\ store'[v] = q /\ pc'[t] = s /\ kind'[t] = kind[t]
      /\ (v \in net') = (v \in net) /\ (Left("net", v)' <=> Left("net", v))
      /\ (v \in disk') = (v \in disk)
      /\ q # NoRec => /\ (v \in policy') = (v \in policy)
                      /\ Left("policy", v)' <=> Left("policy", v)
  BY <1>1, <1>2, <1>3 DEF Kept, SameTask, Resource
<1>5. /\ Down(v) => Down(v)'
      /\ Vacated(v) => Vacated(v)'
      /\ Names(v, r) => Names(v, r)'
      /\ q # NoRec /\ Coherent(v, r) => Coherent(v, r)'
      /\ Names(v, q) => Names(v, q)'
      /\ q # NoRec /\ Coherent(v, q) => Coherent(v, q)'
      /\ Settled(v) => Settled(v)'
  BY <1>2, KeptCoherent, KeptSettled
<1>6. /\ s # "idle"
      /\ s \notin {"dget", "reclaim"} => q # NoRec
      /\ s \in {"provision", "prepare", "apply", "launch"} => kind[t] \in {"create", "start"}
      /\ s = "provision" => Vacated(v) /\ r = q /\ Coherent(v, q)
      /\ s \in {"prepare", "apply", "launch", "undo", "clean", "rclean"} =>
           Down(v) /\ Names(v, r)
      /\ s \in {"provision", "prepare", "apply", "launch", "undo"} => ~r.cgroup
      /\ s \in {"prepare", "apply", "launch"} => v \in disk
      /\ s \in {"prepare", "apply"} => (v \in policy => Left("policy", v))
      /\ s = "prepare" => (v \in net => Left("net", v))
      /\ s = "apply" => (v \in NetnsVm => v \in net)
      /\ s = "launch" => /\ v \in policy => v \in net \/ Left("policy", v)
                         /\ FailClosed /\ v \in NetnsVm => v \in policy
      /\ s = "save" => Coherent(v, r) /\ (kind[t] = "delete" => Vacated(v))
      /\ s \in {"kill", "signal"} => r = q /\ Coherent(v, q)
      /\ s = "sget" => Coherent(v, q)
      /\ s = "reload" => Coherent(v, q) /\ q.status \in Up /\ v \in net
      /\ s = "dget" => Settled(v)
      /\ s = "remove" => Vacated(v) /\ Names(v, q)
      /\ s = "reclaim" => q = NoRec /\ Vacated(v) /\ Names(v, r)
  BY <1>1, <1>2, <1>3 DEF Stage
<1>7. /\ Names(v, r)' => Names(v, rec[t])'
      /\ Coherent(v, r)' => Coherent(v, rec[t])'
      /\ Names(v, q)' => Names(v, store[v])'
      /\ Coherent(v, q)' => Coherent(v, store[v])'
  BY <1>4 DEF Names, Coherent, Serves
<1> QED
  BY <1>4, <1>5, <1>6, <1>7 DEF Stage

\* A step that only lets VMMs die keeps every VM as it should be.
LEMMA AllKept ==
  ASSUME AllSane, \A w \in Vm : Kept(w), \A u \in Task : SameTask(u)
  PROVE  AllSane'
<1> SUFFICES ASSUME NEW w \in Vm
             PROVE  Sane(w)'
  BY DEF AllSane
<1>1. Sane(w) /\ Kept(w)
  BY DEF AllSane
<1>2. (\A u \in Task : tvm'[u] # w) => Settled(w)'
  BY <1>1, KeptSettled DEF Sane, SameTask
<1>3. ASSUME NEW u \in Task, tvm'[u] = w
      PROVE  Stage(u, w)'
  BY <1>1, <1>3, KeptStage DEF Sane, SameTask
<1> QED
  BY <1>2, <1>3 DEF Sane

\* A step of t on v has to see to v only.
LEMMA Local ==
  ASSUME AllSane, OnePerVm, OnePerVm', NEW t \in Task, NEW v \in Vm,
         Works(t, v), Busy(t, v) \/ Busy(t, v)',
         tvm[t] \in {v, NoVm}, tvm'[t] \in {v, NoVm},
         tvm'[t] = v => Stage(t, v)', tvm'[t] = NoVm => Settled(v)'
  PROVE  AllSane'
<1>0. NoVm \notin Vm
  BY LifecycleAssumption
<1>1. ASSUME NEW w \in Vm, w # v
      PROVE  Sane(w)'
  <2>1. Sane(w) /\ Kept(w) /\ tvm[t] # w /\ tvm'[t] # w
    BY <1>0, <1>1 DEF AllSane, Works
  <2>2. \A u \in Task : tvm'[u] = w => tvm[u] = w /\ SameTask(u)
    BY <2>1 DEF Works, SameTask
  <2>3. (\A u \in Task : tvm'[u] # w) => \A u \in Task : tvm[u] # w
    BY <2>1 DEF Works, SameTask
  <2>4. (\A u \in Task : tvm'[u] # w) => Settled(w)'
    BY <2>1, <2>3, KeptSettled DEF Sane
  <2>5. ASSUME NEW u \in Task, tvm'[u] = w
        PROVE  Stage(u, w)'
    BY <2>1, <2>2, <2>5, KeptStage DEF Sane
  <2> QED
    BY <2>4, <2>5 DEF Sane
<1>2. Sane(v)'
  <2>1. \A u \in Task : tvm'[u] = v => u = t
    BY DEF Works, SameTask, OnePerVm, Busy
  <2>2. (\A u \in Task : tvm'[u] # v) => tvm'[t] = NoVm
    OBVIOUS
  <2> QED
    BY <2>1, <2>2 DEF Sane
<1> QED
  BY <1>1, <1>2 DEF AllSane

\* A step of an operation that is under way on v writes no other record, and
\* keeps the books.
LEMMA AdvanceLocal ==
  ASSUME TypeOK, TypeOK', SeqInv, OnePerVm, OnePerVm', NEW t \in Task, NEW v \in Vm,
         tvm[t] = v, Works(t, v), UNCHANGED <<loopVars, born>>,
         store'[v] # NoRec => store[v] # NoRec,
         \/ tvm'[t] = v /\ Stage(t, v)'
         \/ tvm'[t] = NoVm /\ Settled(v)'
  PROVE  SeqInv'
<1>0. NoVm \notin Vm
  BY LifecycleAssumption
<1>1. Busy(t, v)
  BY DEF Busy
<1>2. AllSane'
  BY <1>0, <1>1, Local DEF SeqInv
<1>3. Bookkeeping'
  <2>1. \A u \in Task : pc'[u] = "idle" => tvm'[u] = NoVm
    BY DEF SeqInv, Bookkeeping, Works, SameTask, Stage
  <2>2. \A u \in Task, w \in Vm : pass'[u] = "none" => todo'[u][w] = NoRec
    BY DEF SeqInv, Bookkeeping, loopVars
  <2>3. ASSUME NEW u \in Task, NEW w \in Vm, todo'[u][w] # NoRec
        PROVE  todo'[u][w] = store'[w] /\ tvm'[u] # w
    <3>1. todo[u][w] = store[w] /\ tvm[u] # w /\ Busy(u, w) /\ todo' = todo
      BY <2>3 DEF SeqInv, Bookkeeping, loopVars, Busy
    <3>2. w # v
      BY <1>1, <3>1 DEF OnePerVm
    <3>3. store'[w] = store[w]
      BY <3>2 DEF Works, Kept
    <3>4. tvm'[u] # w
      BY <1>0, <3>1, <3>2 DEF Works, SameTask
    <3> QED
      BY <3>1, <3>3, <3>4
  <2>4. \A w \in Vm : store'[w] # NoRec => w \in born'
    BY DEF SeqInv, Bookkeeping, Works, Kept
  <2> QED
    BY <2>1, <2>2, <2>3, <2>4 DEF Bookkeeping
<1> QED
  BY <1>2, <1>3 DEF SeqInv

\* An operation that is under way is at its stage.
LEMMA AtStage ==
  ASSUME TypeOK, SeqInv, NEW t \in Task, pc[t] # "idle"
  PROVE  tvm[t] \in Vm /\ Stage(t, tvm[t])
BY DEF TypeOK, TaskType, SeqInv, AllSane, Sane

\* A clean-up of v concerns v alone, and what is left of what it tried is what
\* failed.
LEMMA CleanupLeaves ==
  ASSUME NEW v, NEW tried, NEW failed \in Failures(v, tried),
         leaked' = Leaks(v, tried, failed)
  PROVE  /\ \A w, what : w # v => (Left(what, w)' <=> Left(what, w))
         /\ \A what : what \notin tried => (Left(what, v)' <=> Left(what, v))
         /\ \A what \in tried : Left(what, v)' <=> what \in failed
BY DEF Failures, Leaks, Left

\* What v has after the clean-up of what its record recalls is what failed to go.
LEMMA CleanupVacates ==
  ASSUME NEW t \in Task, NEW v, Names(v, rec[t]),
         NEW tried, tried \in {Recalled(t), Recalled(t) \ {"cgroup"}},
         NEW failed \in Failures(v, tried), leaked' = Leaks(v, tried, failed),
         policy' = Without(policy, v, "policy" \notin failed),
         net' = Without(net, v, "net" \in tried \ failed)
  PROVE  /\ v \in policy' => Left("policy", v)'
         /\ v \in net' => Left("net", v)'
         /\ Left("disk", v)' <=> Left("disk", v)
         /\ \A w : w # v => /\ (w \in policy') = (w \in policy)
                           /\ (w \in net') = (w \in net)
                           /\ \A what : Left(what, w)' <=> Left(what, w)
<1>1. "policy" \in tried /\ "disk" \notin tried /\ ("net" \in tried <=> rec[t].netns)
  BY DEF Recalled
<1>2. v \in policy' => Left("policy", v)'
  BY <1>1, CleanupLeaves DEF Without
<1>3. v \in net' => Left("net", v)'
  <2>1. CASE "net" \in tried
    BY <2>1, CleanupLeaves DEF Without
  <2>2. CASE "net" \notin tried
    <3>1. v \in net' => v \in net
      BY DEF Without
    <3>2. v \in net => Left("net", v)
      BY <1>1, <2>2 DEF Names
    <3> QED
      BY <2>2, <3>1, <3>2, CleanupLeaves
  <2> QED
    BY <2>1, <2>2
<1>4. Left("disk", v)' <=> Left("disk", v)
  BY <1>1, CleanupLeaves
<1>5. \A w : w # v => /\ (w \in policy') = (w \in policy)
                      /\ (w \in net') = (w \in net)
                      /\ \A what : Left(what, w)' <=> Left(what, w)
  BY CleanupLeaves DEF Without
<1> QED
  BY <1>2, <1>3, <1>4, <1>5

\* A refused create leaves a placeholder that accords with an empty host.
LEMMA RefuseQgaSeq ==
  ASSUME TypeOK, TypeOK', SeqInv, OnePerVm, OnePerVm', NEW t \in Task, RefuseQga(t)
  PROVE  SeqInv'
<1>1. PICK v \in Vm : v = tvm[t] /\ Stage(t, v)
  BY AtStage DEF RefuseQga
<1>2. Works(t, v)
  BY <1>1 DEF RefuseQga, Done, Goto, Works, Kept, SameTask, procVars, hostVars, auxVars, Left, TypeOK, TaskType
<1>3. tvm'[t] = NoVm
  BY DEF RefuseQga, Done, Goto, TypeOK, TaskType
<1>4. store[v] # NoRec /\ Coherent(v, store[v]) /\ UNCHANGED <<store, procVars, hostVars>>
  BY <1>1 DEF RefuseQga, Stage
<1>5. Settled(v)'
  BY <1>4 DEF Settled, Coherent, Names, Serves, procVars, hostVars, auxVars, Left
<1> QED
  BY <1>1, <1>2, <1>3, <1>4, <1>5, AdvanceLocal DEF RefuseQga, idVars

\* Provisioning makes the disk, and the record says so of a thin volume.
LEMMA ProvisionSeq ==
  ASSUME TypeOK, TypeOK', SeqInv, OnePerVm, OnePerVm', NEW t \in Task, Provision(t)
  PROVE  SeqInv'
<1>1. PICK v \in Vm : v = tvm[t] /\ Stage(t, v)
  BY AtStage DEF Provision
<1>2. Works(t, v)
  BY <1>1 DEF Provision, Continue, Goto, Works, Kept, Left, SameTask, procVars, TypeOK, TaskType
<1> DEFINE r == rec[t]
           q == [r EXCEPT !.lvm_lv = v \in LvmVm]
<1>3. /\ tvm'[t] = v /\ kind'[t] = kind[t] /\ kind[t] \in {"create", "start"}
      /\ Vacated(v) /\ store[v] # NoRec /\ ~r.cgroup
      /\ Names(v, r) /\ r \in VmRecord
      /\ UNCHANGED <<store, procVars, net, policy, wsp, vfs, cgroup>>
  BY <1>1 DEF Provision, Continue, Stage, Coherent, TypeOK, TaskType
<1>4. q.netns = r.netns /\ q.cgroup = r.cgroup /\ q.lvm_lv = (v \in LvmVm)
  BY <1>3 DEF VmRecord
<1>5. /\ Left("net", v)' <=> Left("net", v)
      /\ Left("policy", v)' <=> Left("policy", v)
      /\ Left("cgroup", v)' <=> Left("cgroup", v)
      /\ Left("disk", v) => Left("disk", v)'
  BY <1>1 DEF Provision, Left
<1>6. \/ pc'[t] = "prepare" /\ rec'[t] = q /\ disk' = disk \cup {v}
      \/ /\ pc'[t] = "undo" /\ rec'[t] = r
         /\ v \in disk' /\ v \in LvmVm => v \in disk \/ Left("disk", v)'
  BY <1>1 DEF Provision, Continue, Goto, Left, TypeOK, TaskType
<1> HIDE DEF r, q
<1>7. /\ Down(v)' /\ (v \in net' => Left("net", v)')
      /\ v \in policy' => Left("policy", v)'
  BY <1>3, <1>5 DEF Vacated, Down, procVars
<1>8. Names(v, rec[t])' /\ ~rec'[t].cgroup
  BY <1>3, <1>4, <1>5, <1>6 DEF Names, Vacated
<1>9. Stage(t, v)'
  BY <1>3, <1>6, <1>7, <1>8 DEF Stage
<1> QED
  BY <1>1, <1>2, <1>3, <1>9, AdvanceLocal DEF Provision, idVars

\* The namespace is built, or what there is of it is named by the record.
LEMMA PrepareSeq ==
  ASSUME TypeOK, TypeOK', SeqInv, OnePerVm, OnePerVm', NEW t \in Task, Prepare(t)
  PROVE  SeqInv'
<1>1. PICK v \in Vm : v = tvm[t] /\ Stage(t, v)
  BY AtStage DEF Prepare
<1>2. Works(t, v)
  BY <1>1 DEF Prepare, Continue, Goto, Works, Kept, Leaks, Left, SameTask, procVars, TypeOK, TaskType
<1> DEFINE r == rec[t]
           q == [r EXCEPT !.netns = TRUE]
           n == [r EXCEPT !.netns = FALSE]
<1>3. /\ tvm'[t] = v /\ kind'[t] = kind[t] /\ kind[t] \in {"create", "start"}
      /\ v \in disk /\ store[v] # NoRec /\ ~r.cgroup
      /\ v \in policy => Left("policy", v)
      /\ v \in net => Left("net", v)
      /\ Down(v) /\ Names(v, r) /\ r \in VmRecord
      /\ UNCHANGED <<store, procVars, policy, disk, wsp, vfs, cgroup>>
  BY <1>1 DEF Prepare, Continue, Stage, TypeOK, TaskType
<1>4. /\ q.netns = TRUE /\ q.cgroup = r.cgroup /\ q.lvm_lv = r.lvm_lv
      /\ n.netns = FALSE /\ n.cgroup = r.cgroup /\ n.lvm_lv = r.lvm_lv
  BY <1>3 DEF VmRecord
<1>5. \A what : what # "net" => (Left(what, v)' <=> Left(what, v))
  BY <1>1 DEF Prepare, Leaks, Left
<1>6. \/ v \in net' /\ pc'[t] = "apply" /\ rec'[t] = q
      \/ (v \in net' => Left("net", v)') /\ pc'[t] = "undo" /\ rec'[t] = r
      \/ /\ v \notin NetnsVm /\ net' = net /\ (Left("net", v)' <=> Left("net", v))
         /\ pc'[t] = "apply" /\ rec'[t] = n
  BY <1>1 DEF Prepare, Leaks, Left, Continue, Goto, TypeOK, TaskType
<1> HIDE DEF r, q, n
<1>7. Down(v)' /\ (v \in policy' => Left("policy", v)')
  BY <1>3, <1>5 DEF Down, procVars
<1>8. /\ Left("cgroup", v)' <=> Left("cgroup", v)
      /\ Left("disk", v)' <=> Left("disk", v)
  BY <1>5
<1>9. Names(v, rec[t])' /\ ~rec'[t].cgroup
  BY <1>3, <1>4, <1>6, <1>8 DEF Names
<1>10. Stage(t, v)'
  BY <1>3, <1>6, <1>7, <1>9 DEF Stage
<1> QED
  BY <1>1, <1>2, <1>3, <1>10, AdvanceLocal DEF Prepare, idVars

\* Where the dataplane fails closed, launch is reached with the policy on.
LEMMA ApplyPolicySeq ==
  ASSUME TypeOK, TypeOK', SeqInv, OnePerVm, OnePerVm', NEW t \in Task, ApplyPolicy(t)
  PROVE  SeqInv'
<1>1. PICK v \in Vm : v = tvm[t] /\ Stage(t, v)
  BY AtStage DEF ApplyPolicy
<1>2. Works(t, v)
  BY <1>1 DEF ApplyPolicy, Continue, Goto, Works, Kept, Left, SameTask, procVars, TypeOK, TaskType
<1> DEFINE r == rec[t]
           q == [r EXCEPT !.seed = r.seed \/ kind[t] = "create"]
<1>3. /\ tvm'[t] = v /\ kind'[t] = kind[t] /\ kind[t] \in {"create", "start"}
      /\ v \in policy => Left("policy", v)
      /\ (v \in NetnsVm => v \in net) /\ v \in disk /\ store[v] # NoRec
      /\ Down(v) /\ Names(v, r) /\ r \in VmRecord /\ ~r.cgroup
      /\ UNCHANGED <<store, procVars, net, disk, wsp, vfs, cgroup>>
  BY <1>1 DEF ApplyPolicy, Continue, Stage, TypeOK, TaskType
<1>4. /\ q.netns = r.netns /\ q.cgroup = r.cgroup /\ q.lvm_lv = r.lvm_lv
  BY <1>3 DEF VmRecord
<1>5. \/ /\ policy' = policy \cup ({v} \cap NetnsVm) \/ ~FailClosed
         /\ pc'[t] = "launch" /\ rec'[t] = q
      \/ pc'[t] = "undo" /\ rec'[t] \in {r, q}
  BY <1>1 DEF ApplyPolicy, Continue, Goto, TypeOK, TaskType
<1>6. v \notin NetnsVm =>
        (v \in policy' <=> v \in policy) /\ (Left("policy", v)' <=> Left("policy", v))
  BY <1>1 DEF ApplyPolicy, Left
<1>7. \A what : what # "policy" => (Left(what, v)' <=> Left(what, v))
  BY <1>1 DEF ApplyPolicy, Left
<1> HIDE DEF r, q
<1>8. Down(v)' /\ (v \in policy' => v \in net' \/ Left("policy", v)')
  BY <1>3, <1>6 DEF Down, procVars
<1>9. /\ Left("net", v)' <=> Left("net", v)
      /\ Left("cgroup", v)' <=> Left("cgroup", v)
      /\ Left("disk", v)' <=> Left("disk", v)
  BY <1>7
<1>10. Names(v, rec[t])' /\ ~rec'[t].cgroup
  BY <1>3, <1>4, <1>5, <1>9 DEF Names
<1>11. Stage(t, v)'
  BY <1>3, <1>5, <1>8, <1>10 DEF Stage
<1> QED
  BY <1>1, <1>2, <1>3, <1>11, AdvanceLocal DEF ApplyPolicy, idVars

\* The VMM that is launched is the one the record names, and runs with its
\* disk, its shares and its policy.
LEMMA LaunchSeq ==
  ASSUME TypeOK, TypeOK', SeqInv, OnePerVm, OnePerVm', NEW t \in Task, Launch(t)
  PROVE  SeqInv'
<1>1. PICK v \in Vm : v = tvm[t] /\ Stage(t, v)
  BY AtStage DEF Launch
<1> DEFINE r == rec[t]
           k == launched[v] + 1
           q == [r EXCEPT !.pid = k, !.virtiofsd = k, !.status = "Running"]
           g == [q EXCEPT !.cgroup = TRUE]
<1>2. Works(t, v)
  <2>1. \A u \in Task : u # t => SameTask(u)
    BY DEF Launch, AttachCgroup, Continue, Goto, SameTask, TypeOK, TaskType
  <2>2. \A w, what : w # v => (Left(what, w)' <=> Left(what, w))
    BY <1>1 DEF Launch, AttachCgroup, Leaks, Left
  <2>3. \A w \in Vm : w # v => Kept(w)
    BY <1>1, <2>2 DEF Launch, AttachCgroup, Kept, TypeOK, ProcType
  <2> QED
    BY <2>1, <2>3 DEF Works
<1>3. /\ tvm'[t] = v /\ kind'[t] = kind[t] /\ kind[t] \in {"create", "start"}
      /\ v \in disk /\ store[v] # NoRec /\ ~r.cgroup
      /\ v \in policy => v \in net \/ Left("policy", v)
      /\ FailClosed /\ v \in NetnsVm => v \in policy
      /\ Down(v) /\ Names(v, r) /\ r \in VmRecord
      /\ UNCHANGED <<store, loopVars, suspended, net, policy, disk, wsp, born>>
  BY <1>1 DEF Launch, AttachCgroup, Continue, Stage, TypeOK, TaskType, idVars
<1>4. /\ q.netns = r.netns /\ q.cgroup = r.cgroup /\ q.lvm_lv = r.lvm_lv
      /\ q.pid = k /\ q.virtiofsd = k /\ q.status = "Running"
      /\ g.netns = r.netns /\ g.cgroup = TRUE /\ g.lvm_lv = r.lvm_lv
      /\ g.pid = k /\ g.virtiofsd = k /\ g.status = "Running"
  BY <1>3 DEF VmRecord
<1>5. \/ /\ k <= MaxLaunch /\ v \in wsp /\ launched' = [launched EXCEPT ![v] = k]
         /\ alive' = alive \cup {<<v, k>>} /\ vfs' = vfs \cup {<<v, k>>}
         /\ pc'[t] = "save"
         /\ \/ rec'[t] = g /\ cgroup' = cgroup \cup {v}
            \/ rec'[t] = q /\ UNCHANGED <<cgroup, leaked>>
            \/ rec'[t] = q /\ Left("cgroup", v)'
      \/ /\ pc'[t] = "undo" /\ rec'[t] = r
         /\ UNCHANGED <<launched, alive, cgroup, leaked>>
  BY <1>1 DEF Launch, AttachCgroup, Leaks, Left, Continue, Goto, TypeOK, TaskType
<1>11. \A what : what # "cgroup" => (Left(what, v)' <=> Left(what, v))
  BY <1>1 DEF Launch, AttachCgroup, Leaks, Left
<1>12. /\ Left("net", v)' <=> Left("net", v)
       /\ Left("policy", v)' <=> Left("policy", v)
       /\ Left("disk", v)' <=> Left("disk", v)
  BY <1>11
<1>6. k \in Nat /\ k # 0 /\ launched' = [launched EXCEPT ![v] = k] => launched'[v] = k
  BY <1>1 DEF TypeOK, ProcType
<1>7. launched[v] \in Nat
  BY <1>1, LifecycleAssumption DEF TypeOK, ProcType
<1>8. k \in Nat /\ k # 0 /\ <<v, k>> \notin suspended
  <2>1. k \in Nat /\ k # 0
    BY <1>7
  <2>2. <<v, k>> \notin suspended
    BY <1>3 DEF TypeOK, ProcType, Down, Launches
  <2> QED
    BY <2>1, <2>2
<1> HIDE DEF r, q, g, k
<1>9. CASE pc'[t] = "undo"
  <2>1. Down(v)' /\ Names(v, rec[t])' /\ ~rec'[t].cgroup
    BY <1>3, <1>5, <1>9 DEF Down, Names, Left
  <2> QED
    BY <1>1, <1>2, <1>3, <1>9, <2>1, AdvanceLocal DEF Stage
<1>10. CASE pc'[t] = "save"
  <2>0. Left("cgroup", v) => Left("cgroup", v)' \/ rec'[t] = g
    BY <1>5, <1>10 DEF Left
  <2>1. Names(v, rec[t])'
    BY <1>3, <1>4, <1>5, <1>10, <1>12, <2>0 DEF Names
  <2>2. ASSUME NEW j \in Launches, <<v, j>> \in alive'
        PROVE  j = k
    BY <1>3, <1>5, <1>10, <2>2 DEF Down
  <2>3. /\ rec'[t].pid = k /\ rec'[t].virtiofsd = k /\ rec'[t].status = "Running"
        /\ launched'[v] = k /\ <<v, k>> \in vfs' /\ v \in wsp
    BY <1>4, <1>5, <1>6, <1>8, <1>10
  <2>4. ASSUME NEW j \in Launches, <<v, j>> \in alive'
        PROVE  Serves(v, j, rec[t])'
    BY <1>3, <1>8, <2>2, <2>3, <2>4 DEF Serves, Up
  <2>5. Coherent(v, rec[t])'
    BY <1>3, <1>8, <1>12, <2>1, <2>3, <2>4 DEF Coherent, Up
  <2>6. Stage(t, v)'
    BY <1>3, <1>10, <2>5 DEF Stage
  <2> QED
    BY <1>1, <1>2, <1>3, <2>6, AdvanceLocal
<1> QED
  BY <1>5, <1>9, <1>10

\* The error path leaves a Failed record and a VM nothing runs or is wired for,
\* but for what it failed to take down.
LEMMA UndoSeq ==
  ASSUME TypeOK, TypeOK', SeqInv, OnePerVm, OnePerVm', NEW t \in Task, Undo(t)
  PROVE  SeqInv'
<1>1. PICK v \in Vm : v = tvm[t] /\ Stage(t, v)
  BY AtStage DEF Undo
<1> DEFINE r == rec[t]
           q == [r EXCEPT !.status = "Failed"]
           tried == Recalled(t) \ {"cgroup"}
<1>2. PICK failed \in Failures(v, tried) :
        /\ policy' = Without(policy, v, "policy" \notin failed)
        /\ net' = Without(net, v, "net" \in tried \ failed)
        /\ leaked' = Leaks(v, tried, failed)
  BY <1>1 DEF Undo
<1>3. /\ tvm'[t] = v /\ pc'[t] = "save" /\ rec'[t] = q
      /\ store[v] # NoRec /\ Down(v) /\ Names(v, r) /\ r \in VmRecord /\ ~r.cgroup
      /\ disk' \subseteq disk /\ \A w \in Vm : w # v => (w \in disk') = (w \in disk)
      /\ UNCHANGED <<store, loopVars, procVars, wsp, vfs, cgroup, bare, born>>
  BY <1>1 DEF Undo, Without, Continue, Goto, Stage, TypeOK, TaskType, idVars
<1>4. /\ q.netns = r.netns /\ q.cgroup = r.cgroup /\ q.lvm_lv = r.lvm_lv
      /\ q.status = "Failed"
  BY <1>3 DEF VmRecord
<1>5. /\ v \in policy' => Left("policy", v)'
      /\ v \in net' => Left("net", v)'
      /\ Left("disk", v)' <=> Left("disk", v)
      /\ \A w : w # v => /\ (w \in policy') = (w \in policy)
                        /\ (w \in net') = (w \in net)
                        /\ \A what : Left(what, w)' <=> Left(what, w)
  BY <1>2, <1>3, CleanupVacates
<1>6. Left("cgroup", v)' <=> Left("cgroup", v)
  <2>1. "cgroup" \notin tried
    OBVIOUS
  <2> HIDE DEF tried
  <2> QED
    BY <1>2, <2>1, CleanupLeaves
<1> HIDE DEF r, q, tried
<1>7. Works(t, v)
  <2>1. \A u \in Task : u # t => SameTask(u)
    BY DEF Undo, Continue, Goto, SameTask, TypeOK, TaskType
  <2>2. \A w \in Vm : w # v => Kept(w)
    BY <1>3, <1>5 DEF Kept, procVars
  <2> QED
    BY <2>1, <2>2 DEF Works
<1>8. Names(v, rec[t])'
  BY <1>3, <1>4, <1>5, <1>6 DEF Names
<1>9. Vacated(v)'
  BY <1>3, <1>4, <1>5, <1>8 DEF Vacated, Down, Names, procVars
<1>10. Coherent(v, rec[t])'
  BY <1>3, <1>4, <1>8, <1>9 DEF Coherent, Vacated, Down, Up
<1>11. Stage(t, v)'
  BY <1>3, <1>9, <1>10 DEF Stage
<1> QED
  BY <1>1, <1>3, <1>7, <1>11, AdvanceLocal

\* The record that is written accords with the host.
LEMMA SaveSeq ==
  ASSUME TypeOK, TypeOK', SeqInv, OnePerVm, OnePerVm', NEW t \in Task, Save(t)
  PROVE  SeqInv'
<1>1. PICK v \in Vm : v = tvm[t] /\ Stage(t, v)
  BY AtStage DEF Save
<1>2. PICK r \in VmRecord : r = rec[t]
  BY DEF Save, TypeOK, TaskType
<1>3. /\ store'[v] = r /\ r # NoRec /\ \A w \in Vm : w # v => store'[w] = store[w]
  BY <1>1, <1>2, NoRecAssumption DEF Save, Update, Put, TypeOK, RecordMap
<1>4. Works(t, v)
  BY <1>1, <1>3 DEF Save, Done, Continue, Goto, Works, Kept, SameTask, procVars, hostVars, auxVars, Left, TypeOK, TaskType
<1>5. /\ store[v] # NoRec /\ Coherent(v, r) /\ (kind[t] = "delete" => Vacated(v))
      /\ UNCHANGED <<loopVars, procVars, hostVars, born>>
  BY <1>1, <1>2 DEF Save, Stage, idVars
<1>6. Coherent(v, r)' /\ Coherent(v, store[v])'
  BY <1>3, <1>5 DEF Coherent, Names, Serves, procVars, hostVars, auxVars, Left
<1>7. CASE kind[t] = "delete"
  <2>1. tvm'[t] = v /\ pc'[t] = "remove"
    BY <1>1, <1>7 DEF Save, Continue, Goto, TypeOK, TaskType
  <2>2. Vacated(v)'
    BY <1>5, <1>7 DEF Vacated, Down, procVars, hostVars, auxVars, Left
  <2>3. Stage(t, v)'
    BY <1>3, <1>6, <2>1, <2>2 DEF Stage, Coherent
  <2> QED
    BY <1>1, <1>4, <1>5, <2>1, <2>3, AdvanceLocal
<1>8. CASE kind[t] # "delete"
  <2>1. tvm'[t] = NoVm
    BY <1>8 DEF Save, Done, Goto, TypeOK, TaskType
  <2>2. Settled(v)'
    BY <1>3, <1>6 DEF Settled
  <2> QED
    BY <1>1, <1>4, <1>5, <2>1, <2>2, AdvanceLocal
<1> QED
  BY <1>7, <1>8

\* A stop that goes on has killed the only VMM; one that gives up leaves the
\* record as true as it was.
LEMMA KillSeq ==
  ASSUME TypeOK, TypeOK', SeqInv, OnePerVm, OnePerVm', NEW t \in Task, Kill(t)
  PROVE  SeqInv'
<1>1. PICK v \in Vm : v = tvm[t] /\ Stage(t, v)
  BY AtStage DEF Kill
<1> DEFINE p == <<v, rec[t].pid>>
<1>2. /\ rec[t] = store[v] /\ store[v] # NoRec /\ Coherent(v, store[v])
      /\ alive' \subseteq alive /\ suspended' = suspended \cap alive'
      /\ \A a \in alive : a[1] # v => a \in alive'
      /\ UNCHANGED <<store, loopVars, launched, hostVars, born>>
  BY <1>1 DEF Kill, Stage, Recorded, Answering, idVars
<1>3. \/ pc'[t] = "clean" /\ rec'[t] = rec[t] /\ tvm'[t] = v /\ p \notin alive'
      \/ tvm'[t] = NoVm
  BY <1>1 DEF Kill, Recorded, TerminatePid, Continue, Done, Goto, TypeOK, TaskType
<1>4. Works(t, v)
  <2>1. \A u \in Task : u # t => SameTask(u)
    BY DEF Kill, Done, Continue, Goto, SameTask, TypeOK, TaskType
  <2>2. \A w \in Vm : w # v => Kept(w)
    BY <1>2 DEF Kept, hostVars, auxVars, Left
  <2> QED
    BY <2>1, <2>2 DEF Works
<1>5. \A k \in Launches : <<v, k>> \in alive' => <<v, k>> = p
  BY <1>2 DEF Coherent, Serves
<1>6. Kept(v)
  BY <1>2 DEF Kept, hostVars, auxVars, Left
<1>7. Settled(v)'
  BY <1>2, <1>6, KeptSettled DEF Settled
<1>8. CASE tvm'[t] = NoVm
  BY <1>1, <1>2, <1>4, <1>7, <1>8, AdvanceLocal
<1>9. CASE pc'[t] = "clean" /\ rec'[t] = rec[t] /\ tvm'[t] = v /\ p \notin alive'
  <2>1. Down(v)'
    BY <1>5, <1>9 DEF Down
  <2>2. Names(v, rec[t])'
    BY <1>2, <1>9 DEF Coherent, Names, hostVars, auxVars, Left
  <2>3. Stage(t, v)'
    BY <1>2, <1>9, <2>1, <2>2 DEF Stage
  <2> QED
    BY <1>1, <1>2, <1>4, <1>9, <2>3, AdvanceLocal
<1> QED
  BY <1>3, <1>8, <1>9

\* The rest of stop, and of reconcile, leaves a Stopped record and a VM
\* nothing runs or is wired for, but for what it failed to take down.
LEMMA CleanSeq ==
  ASSUME TypeOK, TypeOK', SeqInv, OnePerVm, OnePerVm', NEW t \in Task,
         Clean(t) \/ ReconcileClean(t)
  PROVE  SeqInv'
<1>1. PICK v \in Vm : v = tvm[t] /\ Stage(t, v)
  BY AtStage DEF Clean, ReconcileClean
<1> DEFINE r == rec[t]
           q == [r EXCEPT !.netns = FALSE, !.virtiofsd = 0, !.cgroup = FALSE,
                          !.status = "Stopped", !.pid = 0]
           c == [r EXCEPT !.netns = FALSE, !.cgroup = FALSE,
                          !.status = "Stopped", !.pid = 0]
<1>2. PICK failed \in Failures(v, Recalled(t)) :
        /\ policy' = Without(policy, v, "policy" \notin failed)
        /\ net' = Without(net, v, "net" \in Recalled(t) \ failed)
        /\ cgroup' = Without(cgroup, v, "cgroup" \in Recalled(t) \ failed)
        /\ leaked' = Leaks(v, Recalled(t), failed)
  BY <1>1 DEF Clean, ReconcileClean
<1>3. /\ tvm'[t] = v /\ pc'[t] = "save" /\ rec'[t] \in {q, c}
      /\ store[v] # NoRec /\ Down(v) /\ Names(v, r) /\ r \in VmRecord
      /\ vfs' \subseteq vfs /\ \A a \in vfs : a[1] # v => a \in vfs'
      /\ UNCHANGED <<store, loopVars, procVars, disk, wsp, bare, born>>
  <2>1. CASE Clean(t)
    BY <1>1, <2>1 DEF Clean, Continue, Goto, Stage, TypeOK, TaskType, idVars
  <2>2. CASE ReconcileClean(t)
    BY <1>1, <2>2 DEF ReconcileClean, Continue, Goto, Stage, TypeOK, TaskType, idVars
  <2> QED
    BY <2>1, <2>2
<1>4. /\ q.cgroup = FALSE /\ q.lvm_lv = r.lvm_lv /\ q.status = "Stopped"
      /\ c.cgroup = FALSE /\ c.lvm_lv = r.lvm_lv /\ c.status = "Stopped"
  BY <1>3 DEF VmRecord
<1>5. /\ v \in policy' => Left("policy", v)'
      /\ v \in net' => Left("net", v)'
      /\ Left("disk", v)' <=> Left("disk", v)
      /\ \A w : w # v => /\ (w \in policy') = (w \in policy)
                        /\ (w \in net') = (w \in net)
                        /\ \A what : Left(what, w)' <=> Left(what, w)
  BY <1>2, <1>3, CleanupVacates
<1>6. v \in cgroup' => Left("cgroup", v)'
  <2>1. CASE "cgroup" \in Recalled(t)
    BY <1>2, <2>1, CleanupLeaves DEF Without
  <2>2. CASE "cgroup" \notin Recalled(t)
    <3>1. v \in cgroup' => v \in cgroup
      BY <1>2 DEF Without
    <3>2. v \in cgroup => Left("cgroup", v)
      BY <1>3, <2>2 DEF Names, Recalled
    <3> QED
      BY <1>2, <2>2, <3>1, <3>2, CleanupLeaves
  <2> QED
    BY <2>1, <2>2
<1> HIDE DEF r, q, c
<1>7. Works(t, v)
  <2>1. \A u \in Task : u # t => SameTask(u)
    BY DEF Clean, ReconcileClean, Continue, Goto, SameTask, TypeOK, TaskType
  <2>2. \A w \in Vm : w # v => (w \in cgroup') = (w \in cgroup)
    BY <1>2 DEF Without
  <2>3. \A w \in Vm, k \in Launches : w # v => (<<w, k>> \in vfs') = (<<w, k>> \in vfs)
    <3>1. \A w, k : <<w, k>>[1] = w
      OBVIOUS
    <3> QED
      BY <1>3, <3>1
  <2>4. \A w \in Vm : w # v => Kept(w)
    BY <1>3, <1>5, <2>2, <2>3 DEF Kept, procVars
  <2> QED
    BY <2>1, <2>4 DEF Works
<1>8. Vacated(v)'
  BY <1>3, <1>5, <1>6 DEF Vacated, Down, procVars
<1>9. Names(v, rec[t])'
  BY <1>3, <1>4, <1>5, <1>6 DEF Names
<1>10. Coherent(v, rec[t])'
  BY <1>3, <1>4, <1>8, <1>9 DEF Coherent, Vacated, Down, Up
<1>11. Stage(t, v)'
  BY <1>3, <1>8, <1>10 DEF Stage
<1> QED
  BY <1>1, <1>3, <1>7, <1>11, AdvanceLocal

\* pause and resume reach the VMM on record.
LEMMA SignalSeq ==
  ASSUME TypeOK, TypeOK', SeqInv, OnePerVm, OnePerVm', NEW t \in Task, Signal(t)
  PROVE  SeqInv'
<1>1. PICK v \in Vm : v = tvm[t] /\ Stage(t, v)
  BY AtStage DEF Signal
<1> DEFINE r == rec[t]
           p == <<v, launched[v]>>
           s == [r EXCEPT !.status = "Paused"]
           q == [r EXCEPT !.status = "Running"]
<1>2. /\ r = store[v] /\ store[v] # NoRec /\ Coherent(v, r) /\ r \in VmRecord
      /\ kind'[t] = kind[t] \/ tvm'[t] = NoVm
      /\ UNCHANGED <<store, loopVars, launched, alive, hostVars, born>>
  BY <1>1 DEF Signal, Stage, Continue, Done, TypeOK, TaskType, idVars
<1>3. \/ /\ p \in alive /\ kind[t] \in {"pause", "resume"} /\ tvm'[t] = v /\ pc'[t] = "save"
         /\ kind'[t] = kind[t]
         /\ \/ suspended' = suspended \cup {p} /\ rec'[t] = s
            \/ suspended' = suspended \ {p} /\ rec'[t] = q
      \/ tvm'[t] = NoVm /\ suspended' = suspended
  BY <1>1 DEF Signal, Answering, Continue, Done, Goto, TypeOK, TaskType
<1>4. Works(t, v)
  <2>1. \A u \in Task : u # t => SameTask(u)
    BY DEF Signal, Done, Continue, Goto, SameTask, TypeOK, TaskType
  <2>2. \A w \in Vm : w # v => Kept(w)
    BY <1>2, <1>3 DEF Kept, hostVars, auxVars, Left
  <2> QED
    BY <2>1, <2>2 DEF Works
<1>5. /\ s.netns = r.netns /\ s.cgroup = r.cgroup /\ s.lvm_lv = r.lvm_lv
      /\ s.pid = r.pid /\ s.virtiofsd = r.virtiofsd /\ s.status = "Paused"
      /\ q.netns = r.netns /\ q.cgroup = r.cgroup /\ q.lvm_lv = r.lvm_lv
      /\ q.pid = r.pid /\ q.virtiofsd = r.virtiofsd /\ q.status = "Running"
  BY <1>2 DEF VmRecord
<1>6. CASE tvm'[t] = NoVm /\ suspended' = suspended
  <2>1. Kept(v) /\ Settled(v)
    BY <1>2, <1>6 DEF Kept, Settled, hostVars, auxVars, Left
  <2> QED
    BY <1>1, <1>2, <1>4, <1>6, <2>1, KeptSettled, AdvanceLocal
<1>7. CASE /\ p \in alive /\ kind[t] \in {"pause", "resume"} /\ tvm'[t] = v
           /\ pc'[t] = "save" /\ kind'[t] = kind[t]
           /\ \/ suspended' = suspended \cup {p} /\ rec'[t] = s
              \/ suspended' = suspended \ {p} /\ rec'[t] = q
  <2>1. PICK k \in Launches : k = launched[v]
    BY <1>7 DEF TypeOK, ProcType, Launches
  <2>2. Serves(v, k, r) /\ k # 0
    BY <1>2, <1>7, <2>1 DEF Coherent, Launches
  <2>3. /\ rec'[t].pid = k /\ rec'[t].virtiofsd = k /\ rec'[t].status \in Up
        /\ rec'[t].netns = r.netns /\ rec'[t].cgroup = r.cgroup /\ rec'[t].lvm_lv = r.lvm_lv
        /\ (<<v, k>> \in suspended') <=> rec'[t].status = "Paused"
    BY <1>5, <1>7, <2>1, <2>2 DEF Serves, Up
  <2>4. \A j \in Launches : <<v, j>> \in alive' => j = k
    BY <1>2, <2>1 DEF Coherent, Serves
  <2> HIDE DEF r, s, q, p
  <2>5. Names(v, rec[t])'
    BY <1>2, <2>3 DEF Coherent, Names, hostVars, auxVars, Left
  <2>6. Serves(v, k, rec[t])'
    BY <1>2, <2>1, <2>2, <2>3 DEF Serves, hostVars, auxVars, Left
  <2>7. Coherent(v, rec[t])'
    <3>1. /\ \A j \in Launches : <<v, j>> \in alive' => Serves(v, j, rec[t])'
      BY <2>4, <2>6
    <3>2. v \in policy' => v \in net' \/ Left("policy", v)'
      BY <1>2 DEF Coherent, hostVars, auxVars, Left
    <3> QED
      BY <2>2, <2>3, <2>5, <3>1, <3>2 DEF Coherent
  <2>8. Stage(t, v)'
    BY <1>2, <1>7, <2>7 DEF Stage
  <2> QED
    BY <1>1, <1>2, <1>4, <1>7, <2>8, AdvanceLocal
<1> QED
  BY <1>3, <1>6, <1>7

\* delete finds nothing, a VMM to stop, or a VM it can take off the host.
LEMMA GetSeq ==
  ASSUME TypeOK, TypeOK', SeqInv, OnePerVm, OnePerVm', NEW t \in Task,
         DeleteGet(t) \/ StopGet(t)
  PROVE  SeqInv'
<1>1. PICK v \in Vm : v = tvm[t] /\ Stage(t, v)
  BY AtStage DEF DeleteGet, StopGet
<1>2. UNCHANGED <<store, loopVars, procVars, hostVars, born>>
  BY DEF DeleteGet, StopGet, idVars
<1>3. Settled(v)
  BY <1>1 DEF DeleteGet, StopGet, Stage, Settled
<1>4. \A w \in Vm : Kept(w)
  BY <1>2 DEF Kept, procVars, hostVars, auxVars, Left
<1>5. Works(t, v)
  <2>1. \A u \in Task : u # t => SameTask(u)
    BY DEF DeleteGet, StopGet, Done, Continue, Goto, SameTask, TypeOK, TaskType
  <2> QED
    BY <1>4, <2>1 DEF Works
<1>6. Settled(v)'
  BY <1>3, <1>4, KeptSettled
<1>7. \/ tvm'[t] = NoVm
      \/ /\ tvm'[t] = v /\ store[v] # NoRec /\ rec'[t] = store[v]
         /\ \/ pc'[t] = "sget" \/ pc'[t] = "kill"
            \/ pc'[t] = "remove" /\ store[v].pid = 0
  BY <1>1 DEF DeleteGet, StopGet, Done, Continue, Goto, TypeOK, TaskType
<1>8. CASE tvm'[t] = NoVm
  BY <1>1, <1>2, <1>5, <1>6, <1>8, AdvanceLocal
<1>9. CASE /\ tvm'[t] = v /\ store[v] # NoRec /\ rec'[t] = store[v]
           /\ \/ pc'[t] = "sget" \/ pc'[t] = "kill"
              \/ pc'[t] = "remove" /\ store[v].pid = 0
  <2>1. Coherent(v, store[v])' /\ store'[v] = store[v] /\ store'[v] # NoRec
    BY <1>2, <1>6, <1>9 DEF Settled
  <2>2. ASSUME store[v].pid = 0
        PROVE  Vacated(v)' /\ Names(v, store[v])'
    <3>1. store'[v].status \notin Up /\ Names(v, store[v])'
      BY <2>1, <2>2 DEF Coherent
    <3>2. Down(v)'
      BY <2>1, <2>2 DEF Down, Coherent, Serves, Launches
    <3> QED
      BY <2>1, <3>1, <3>2 DEF Coherent, Names, Vacated
  <2>3. Stage(t, v)'
    BY <1>9, <2>1, <2>2 DEF Stage
  <2> QED
    BY <1>1, <1>2, <1>5, <1>9, <2>3, AdvanceLocal
<1> QED
  BY <1>7, <1>8, <1>9

\* The record goes when nothing runs or is wired; the copy still names the
\* thin volume.
LEMMA RemoveRecordSeq ==
  ASSUME TypeOK, TypeOK', SeqInv, OnePerVm, OnePerVm', NEW t \in Task, RemoveRecord(t)
  PROVE  SeqInv'
<1>1. PICK v \in Vm : v = tvm[t] /\ Stage(t, v)
  BY AtStage DEF RemoveRecord
<1>2. /\ store[v] # NoRec /\ Vacated(v) /\ Names(v, store[v])
      /\ UNCHANGED <<loopVars, procVars, hostVars, born>>
  BY <1>1 DEF RemoveRecord, Stage
<1>3. store'[v] = NoRec /\ \A w \in Vm : w # v => store'[w] = store[w]
  BY <1>1 DEF RemoveRecord, Remove, TypeOK, RecordMap
<1>4. Works(t, v)
  <2>1. \A u \in Task : u # t => SameTask(u)
    BY DEF RemoveRecord, Done, Continue, Goto, SameTask, TypeOK, TaskType
  <2> QED
    BY <1>2, <1>3, <2>1 DEF Works, Kept, procVars, hostVars, auxVars, Left
<1>5. tvm'[t] = v /\ pc'[t] = "reclaim" /\ rec'[t] = store[v]
  BY <1>1, <1>2 DEF RemoveRecord, Continue, Goto, TypeOK, TaskType
<1>6. Vacated(v)' /\ Names(v, rec[t])'
  BY <1>2, <1>5 DEF Vacated, Down, Names, procVars, hostVars, auxVars, Left
<1>7. Stage(t, v)'
  BY <1>3, <1>5, <1>6 DEF Stage
<1> QED
  BY <1>1, <1>2, <1>3, <1>4, <1>5, <1>7, AdvanceLocal

\* Reclaiming takes the disk and the workspace: nothing of the VM is left but
\* what failed to go.
LEMMA ReclaimSeq ==
  ASSUME TypeOK, TypeOK', SeqInv, OnePerVm, OnePerVm', NEW t \in Task, Reclaim(t)
  PROVE  SeqInv'
<1>1. PICK v \in Vm : v = tvm[t] /\ Stage(t, v)
  BY AtStage DEF Reclaim
<1> DEFINE tried == {"policy", "wsp"}
                      \cup (IF v \in LvmVm /\ ~rec[t].lvm_lv THEN {} ELSE {"disk"})
<1>2. PICK failed \in Failures(v, tried) :
        /\ policy' = Without(policy, v, "policy" \notin failed)
        /\ disk' = Without(disk, v, "disk" \in tried \ failed)
        /\ wsp' = Without(wsp, v, "wsp" \notin failed)
        /\ leaked' = Leaks(v, tried, failed)
  BY <1>1 DEF Reclaim
<1>3. /\ store[v] = NoRec /\ Vacated(v) /\ Names(v, rec[t])
      /\ UNCHANGED <<store, loopVars, procVars, net, vfs, cgroup, bare, born>>
  BY <1>1 DEF Reclaim, Stage, idVars
<1>4. /\ "policy" \in tried /\ "wsp" \in tried /\ "net" \notin tried
      /\ "cgroup" \notin tried
      /\ "disk" \notin tried => v \in LvmVm /\ ~rec[t].lvm_lv
  OBVIOUS
<1> HIDE DEF tried
<1>5. /\ \A w, what : w # v => (Left(what, w)' <=> Left(what, w))
      /\ \A what : what \notin tried => (Left(what, v)' <=> Left(what, v))
      /\ \A what \in tried : Left(what, v)' <=> what \in failed
  BY <1>2, CleanupLeaves
<1>6. Works(t, v)
  <2>1. \A u \in Task : u # t => SameTask(u)
    BY DEF Reclaim, Done, Goto, SameTask, TypeOK, TaskType
  <2>2. \A w \in Vm : w # v => Kept(w)
    BY <1>2, <1>3, <1>5 DEF Kept, Without, procVars
  <2> QED
    BY <2>1, <2>2 DEF Works
<1>7. tvm'[t] = NoVm
  BY DEF Reclaim, Done, Goto, TypeOK, TaskType
<1>8. Vacated(v)'
  BY <1>2, <1>3, <1>4, <1>5 DEF Vacated, Down, Without, procVars
<1>9. (v \in disk' => Left("disk", v)') /\ (v \in wsp' => Left("wsp", v)')
  BY <1>2, <1>3, <1>4, <1>5 DEF Names, Without
<1>10. Settled(v)'
  BY <1>3, <1>8, <1>9 DEF Settled
<1> QED
  BY <1>1, <1>3, <1>6, <1>7, <1>10, AdvanceLocal

\* A reload that succeeds leaves the policy on, one that fails the VM as it was.
LEMMA ReloadSeq ==
  ASSUME TypeOK, TypeOK', SeqInv, OnePerVm, OnePerVm', NEW t \in Task, Reload(t)
  PROVE  SeqInv'
<1>1. PICK v \in Vm : v = tvm[t] /\ Stage(t, v)
  BY AtStage DEF Reload
<1>2. /\ store[v] # NoRec /\ Coherent(v, store[v]) /\ store[v].status \in Up /\ v \in net
      /\ UNCHANGED <<store, loopVars, procVars, net, disk, wsp, vfs, cgroup, leaked, born>>
      /\ \/ policy' = policy \cup {v} /\ bare' = bare \ {v}
         \/ UNCHANGED <<policy, bare>>
  BY <1>1 DEF Reload, Stage, idVars
<1>3. Works(t, v)
  <2>1. \A u \in Task : u # t => SameTask(u)
    BY DEF Reload, Done, Goto, SameTask, TypeOK, TaskType
  <2>2. \A w \in Vm : w # v => Kept(w)
    BY <1>2 DEF Kept, Left, procVars
  <2> QED
    BY <2>1, <2>2 DEF Works
<1>4. tvm'[t] = NoVm
  BY DEF Reload, Done, Goto, TypeOK, TaskType
<1>5. \A k \in Launches : <<v, k>> \in alive' => Serves(v, k, store[v])'
  BY <1>2 DEF Coherent, Serves, procVars
<1>6. Names(v, store[v])'
  BY <1>2 DEF Coherent, Names, Left
<1>7. Settled(v)'
  BY <1>2, <1>5, <1>6 DEF Settled, Coherent
<1> QED
  BY <1>1, <1>2, <1>3, <1>4, <1>7, AdvanceLocal

\* Every step of an operation that is under way.
LEMMA AdvanceSeq ==
  ASSUME TypeOK, TypeOK', SeqInv, OnePerVm, OnePerVm', NEW t \in Task, Advance(t)
  PROVE  SeqInv'
BY RefuseQgaSeq, ProvisionSeq, PrepareSeq, ApplyPolicySeq, LaunchSeq, UndoSeq,
   SaveSeq, KillSeq, CleanSeq, SignalSeq, GetSeq, RemoveRecordSeq, ReclaimSeq,
   ReloadSeq
   DEF Advance

\* An operation begins on a VM that nobody is at work on, and that is settled.
LEMMA FoundSettled ==
  ASSUME TypeOK, SeqInv, OnePerVm', NEW t \in Task, NEW v \in Vm,
         pc[t] = "idle", tvm'[t] = v, \A u \in Task : u # t => SameTask(u)
  PROVE  Settled(v)
<1>1. \A u \in Task : tvm[u] # v
  BY LifecycleAssumption DEF SeqInv, Bookkeeping, OnePerVm, Busy, SameTask
<1> QED
  BY <1>1 DEF SeqInv, AllSane, Sane

\* It keeps the books if it is not on the task's own list any more.
LEMMA EnterLocal ==
  ASSUME TypeOK, TypeOK', SeqInv, OnePerVm, OnePerVm', NEW t \in Task, NEW v \in Vm,
         pc[t] = "idle", tvm'[t] = v, Works(t, v), Stage(t, v)', pass' = pass,
         \A u \in Task : \A w \in Vm : todo'[u][w] \in {todo[u][w], NoRec},
         todo'[t][v] = NoRec, born \subseteq born', store'[v] # NoRec => v \in born'
  PROVE  SeqInv'
<1>0. tvm[t] = NoVm /\ NoVm \notin Vm
  BY LifecycleAssumption DEF SeqInv, Bookkeeping
<1>1. Busy(t, v)'
  BY DEF Busy
<1>2. AllSane'
  BY <1>0, <1>1, Local DEF SeqInv
<1>3. Bookkeeping'
  <2>1. \A u \in Task : pc'[u] = "idle" => tvm'[u] = NoVm
    BY DEF SeqInv, Bookkeeping, Works, SameTask, Stage
  <2>2. \A u \in Task, w \in Vm : pass'[u] = "none" => todo'[u][w] = NoRec
    BY DEF SeqInv, Bookkeeping
  <2>3. ASSUME NEW u \in Task, NEW w \in Vm, todo'[u][w] # NoRec
        PROVE  todo'[u][w] = store'[w] /\ tvm'[u] # w
    <3>1. todo'[u][w] = todo[u][w] /\ todo[u][w] = store[w] /\ tvm[u] # w
      BY <2>3 DEF SeqInv, Bookkeeping
    <3>2. Busy(u, w)'
      BY <2>3 DEF Busy
    <3>3. w # v
      BY <1>1, <2>3, <3>2 DEF OnePerVm
    <3>4. store'[w] = store[w]
      BY <3>3 DEF Works, Kept
    <3>5. tvm'[u] # w
      BY <3>1, <3>3 DEF Works, SameTask
    <3> QED
      BY <3>1, <3>4, <3>5
  <2>4. \A w \in Vm : store'[w] # NoRec => w \in born'
    BY DEF SeqInv, Bookkeeping, Works, Kept
  <2> QED
    BY <2>1, <2>2, <2>3, <2>4 DEF Bookkeeping
<1> QED
  BY <1>2, <1>3 DEF SeqInv

\* create inserts a placeholder for a VM of which nothing runs or is wired.
LEMMA CreateSeq ==
  ASSUME TypeOK, TypeOK', SeqInv, OnePerVm, OnePerVm', NEW t \in Task, NEW v \in Vm,
         Create(t, v)
  PROVE  SeqInv'
<1>1. PICK ttl \in Ttl, needs_cid \in BOOLEAN :
        \E m \in InsertWithCid(store, v, Placeholder(ttl), needs_cid) :
          store' = m /\ Enter(t, "create", v, "provision", m[v])
  BY DEF Create
<1>2. PICK m \in InsertWithCid(store, v, Placeholder(ttl), needs_cid) :
        store' = m /\ Enter(t, "create", v, "provision", m[v])
  BY <1>1
<1>3. Placeholder(ttl) \in VmRecord
  BY LifecycleAssumption DEF Placeholder, VmRecord, Status
<1>4. /\ m[v] \in VmRecord /\ \A w \in Vm \ {v} : m[w] = store[w]
  BY <1>3, InsertTypes DEF TypeOK
<1>5. m[v].status = "Creating" /\ m[v].netns = FALSE /\ m[v].cgroup = FALSE
  <2>1. CASE needs_cid
    <3>1. PICK c \in FreeCid(store) :
            m = Put(store, v, [Placeholder(ttl) EXCEPT !.guest_cid = c])
      BY <1>2, <2>1, Zenon DEF InsertWithCid
    <3>2. m[v] = [Placeholder(ttl) EXCEPT !.guest_cid = c]
      BY <3>1 DEF Put, TypeOK, RecordMap
    <3> QED
      BY <3>2 DEF Placeholder
  <2>2. CASE ~needs_cid
    <3>1. m = Put(store, v, Placeholder(ttl))
      BY <1>2, <2>2, Zenon DEF InsertWithCid
    <3>2. m[v] = Placeholder(ttl)
      BY <3>1 DEF Put, TypeOK, RecordMap
    <3> QED
      BY <3>2 DEF Placeholder
  <2> QED
    BY <2>1, <2>2
<1>6. /\ pc[t] = "idle" /\ pc'[t] = "provision" /\ kind'[t] = "create" /\ tvm'[t] = v
      /\ rec'[t] = store'[v] /\ store'[v] = m[v] /\ store'[v] # NoRec
      /\ pass[t] = "none" /\ v \notin born /\ v \in born' /\ born \subseteq born'
      /\ UNCHANGED <<loopVars, procVars, net, policy, disk, vfs, cgroup, auxVars>>
      /\ wsp' = wsp \cup {v}
  BY <1>2, <1>4, NoRecAssumption DEF Create, Enter, Goto, TypeOK, TaskType
<1>7. Works(t, v)
  <2>1. \A u \in Task : u # t => SameTask(u)
    BY <1>2 DEF Enter, Goto, SameTask, TypeOK, TaskType
  <2>2. \A w \in Vm : w # v => Kept(w)
    BY <1>2, <1>4, <1>6 DEF Kept, procVars, auxVars, Left
  <2> QED
    BY <2>1, <2>2 DEF Works
<1>8. Settled(v) /\ store[v] = NoRec
  BY <1>6, <1>7, FoundSettled DEF Works, SeqInv, Bookkeeping
<1>9. Vacated(v)' /\ (v \in disk' => Left("disk", v)')
  BY <1>6, <1>8 DEF Settled, Vacated, Down, procVars, auxVars, Left
<1>10. Coherent(v, store[v])'
  BY <1>5, <1>6, <1>9 DEF Coherent, Names, Vacated, Down, Up
<1>11. Stage(t, v)'
  BY <1>5, <1>6, <1>9, <1>10 DEF Stage
<1> QED
  BY <1>6, <1>7, <1>11, EnterLocal DEF SeqInv, Bookkeeping, loopVars

\* A request that only reads begins with a record that accords with the host.
LEMMA CallSeq ==
  ASSUME TypeOK, TypeOK', SeqInv, OnePerVm, OnePerVm', "Paused" \notin StartFrom,
         NEW t \in Task, NEW v \in Vm,
         Start(t, v) \/ Stop(t, v) \/ Pause(t, v) \/ Resume(t, v) \/ Delete(t, v)
  PROVE  SeqInv'
<1>1. /\ pc[t] = "idle" /\ tvm'[t] = v /\ pass[t] = "none" /\ v \in born
      /\ UNCHANGED <<store, loopVars, procVars, hostVars, born>>
      /\ \/ /\ pc'[t] = "dget"
         \/ /\ v \in Stored(store) /\ rec'[t] = store[v]
            /\ pc'[t] \in {"kill", "signal"}
         \/ /\ v \in Stored(store) /\ rec'[t] = store[v]
            /\ pc'[t] = "prepare" /\ kind'[t] = "start" /\ v \in disk
            /\ store[v].status \notin Up
  BY DEF Start, Stop, Pause, Resume, Delete, Call, Enter, Goto, TypeOK, TaskType,
         Up, SeqInv, Bookkeeping, Stored, idVars
<1>2. \A u \in Task : u # t => SameTask(u)
  BY DEF Start, Stop, Pause, Resume, Delete, Call, Enter, Goto, TypeOK, TaskType, SameTask
<1>3. \A w \in Vm : Kept(w)
  BY <1>1 DEF Kept, procVars, hostVars, auxVars, Left
<1>4. Works(t, v)
  BY <1>2, <1>3 DEF Works
<1>5. Settled(v) /\ Settled(v)' /\ store'[v] = store[v]
  BY <1>1, <1>2, <1>3, FoundSettled, KeptSettled DEF Kept
<1>6. Stage(t, v)'
  <2>1. CASE pc'[t] = "dget"
    BY <1>5, <2>1 DEF Stage
  <2>2. CASE v \in Stored(store) /\ rec'[t] = store[v] /\ pc'[t] \in {"kill", "signal"}
    BY <1>5, <2>2 DEF Stage, Settled, Stored
  <2>3. CASE /\ v \in Stored(store) /\ rec'[t] = store[v]
             /\ pc'[t] = "prepare" /\ kind'[t] = "start" /\ v \in disk
             /\ store[v].status \notin Up
    <3>1. Coherent(v, store[v])' /\ store'[v] # NoRec /\ v \in disk'
      BY <1>1, <1>5, <2>3 DEF Settled, Stored, hostVars, auxVars, Left
    <3>2. /\ Down(v)' /\ ~store'[v].cgroup
          /\ v \in net' => Left("net", v)'
          /\ v \in policy' => Left("policy", v)'
      BY <1>5, <2>3, <3>1 DEF Coherent, Serves, Down
    <3>3. Names(v, rec[t])'
      BY <1>5, <2>3, <3>1 DEF Coherent, Names
    <3> QED
      BY <1>5, <2>3, <3>1, <3>2, <3>3 DEF Stage
  <2> QED
    BY <1>1, <2>1, <2>2, <2>3
<1> QED
  BY <1>1, <1>4, <1>6, EnterLocal DEF SeqInv, Bookkeeping, loopVars

\* The reaper takes up a VM it finds dead, stuck or expired.
LEMMA ReapSeq ==
  ASSUME TypeOK, TypeOK', SeqInv, OnePerVm, OnePerVm', NEW t \in Task, NEW v \in Vm,
         FoundDead(t, v) \/ ReapStuck(t, v) \/ ReapExpired(t, v)
  PROVE  SeqInv'
<1>1. /\ pc[t] = "idle" /\ tvm'[t] = v /\ todo[t][v] # NoRec
      /\ todo' = [todo EXCEPT ![t] = Remove(todo[t], v)] /\ pass' = pass
      /\ UNCHANGED <<store, procVars, hostVars, born>>
      /\ \/ pc'[t] = "dget"
         \/ /\ pc'[t] = "rclean" /\ rec'[t] = todo[t][v]
            /\ <<v, todo[t][v].pid>> \notin alive
  BY DEF FoundDead, ReapStuck, ReapExpired, Visits, Enter, Goto, TypeOK, TaskType, idVars
<1>2. todo[t][v] = store[v] /\ store[v] # NoRec /\ v \in born
  BY <1>1 DEF SeqInv, Bookkeeping
<1>3. \A u \in Task : u # t => SameTask(u)
  BY DEF FoundDead, ReapStuck, ReapExpired, Enter, Goto, TypeOK, TaskType, SameTask
<1>4. \A w \in Vm : Kept(w)
  BY <1>1 DEF Kept, procVars, hostVars, auxVars, Left
<1>5. Works(t, v)
  BY <1>3, <1>4 DEF Works
<1>6. /\ todo'[t][v] = NoRec
      /\ \A u \in Task : \A w \in Vm : todo'[u][w] \in {todo[u][w], NoRec}
  BY <1>1 DEF Remove, TypeOK, LoopType, RecordMap
<1>7. Settled(v)' /\ store'[v] = store[v]
  BY <1>1, <1>3, <1>4, FoundSettled, KeptSettled DEF Kept
<1>8. Stage(t, v)'
  <2>1. CASE pc'[t] = "dget"
    BY <1>7, <2>1 DEF Stage
  <2>2. CASE /\ pc'[t] = "rclean" /\ rec'[t] = todo[t][v]
             /\ <<v, todo[t][v].pid>> \notin alive
    <3>1. Coherent(v, store[v])' /\ alive' = alive
      BY <1>1, <1>2, <1>7 DEF Settled, procVars
    <3>2. Down(v)'
      BY <1>2, <1>7, <2>2, <3>1 DEF Coherent, Serves, Down
    <3>3. Names(v, rec[t])'
      BY <1>2, <1>7, <2>2, <3>1 DEF Coherent, Names
    <3> QED
      BY <1>2, <1>7, <2>2, <3>2, <3>3 DEF Stage
  <2> QED
    BY <1>1, <2>1, <2>2
<1> QED
  BY <1>1, <1>2, <1>5, <1>6, <1>8, EnterLocal

\* A reaper's list is what is stored, and the pins it collects between its
\* passes are nobody's.
LEMMA TickSeq ==
  ASSUME TypeOK, TypeOK', SeqInv, NEW t \in Task, Tick(t)
  PROVE  SeqInv'
<1>1. /\ pc[t] = "idle" /\ tvm[t] = NoVm /\ NoVm \notin Vm
      /\ UNCHANGED <<store, taskVars, procVars, net, disk, wsp, vfs, cgroup, bare, born>>
  BY LifecycleAssumption DEF Tick, SeqInv, Bookkeeping, idVars
<1>2. \/ UNCHANGED <<policy, leaked>>
      \/ /\ policy' = policy \cap Stored(store)
         /\ leaked' = leaked \ ({"policy"} \X (Vm \ Stored(store)))
  BY DEF Tick
<1>3. /\ \A w \in Vm : Kept(w)
      /\ \A u \in Task : SameTask(u)
  BY <1>1, <1>2 DEF Kept, Left, Stored, SameTask, taskVars, procVars
<1>4. AllSane'
  BY <1>3, AllKept DEF SeqInv
<1>5. Bookkeeping'
  <2>1. \A u \in Task : u # t => todo'[u] = todo[u] /\ pass'[u] = pass[u]
    BY DEF Tick, TypeOK, LoopType
  <2>2. \A w \in Vm : todo'[t][w] # NoRec => todo'[t][w] = store[w]
    <3>1. \A w \in Vm : Listed[w] \in {NoRec, store[w]}
      BY DEF Listed
    <3>2. todo'[t] \in {todo[t], Listed, store}
      BY DEF Tick, TypeOK, LoopType
    <3> QED
      BY <3>1, <3>2 DEF SeqInv, Bookkeeping
  <2>3. pass'[t] = "none" => \A w \in Vm : todo'[t][w] = NoRec
    BY DEF Tick, TypeOK, LoopType, Empty
  <2> QED
    BY <1>1, <2>1, <2>2, <2>3 DEF SeqInv, Bookkeeping, taskVars
<1> QED
  BY <1>4, <1>5 DEF SeqInv

\* A repair begins on a live VM, which is bare once its policy is off.
LEMMA RepairSeq ==
  ASSUME TypeOK, TypeOK', SeqInv, OnePerVm, OnePerVm', NEW t \in Task, NEW v \in Vm,
         Repair(t, v)
  PROVE  SeqInv'
<1>1. /\ pc[t] = "idle" /\ pc'[t] = "reload" /\ kind'[t] = "reconcile" /\ tvm'[t] = v
      /\ todo[t][v] # NoRec /\ SaysUp(todo[t][v]) /\ v \in net
      /\ todo' = [todo EXCEPT ![t] = Remove(todo[t], v)] /\ pass' = pass
      /\ UNCHANGED <<store, procVars, net, disk, wsp, vfs, cgroup, leaked, born>>
      /\ policy' \in {policy, policy \ {v}} /\ bare' = bare \cup ({v} \ policy')
  BY DEF Repair, Visits, Enter, Goto, TypeOK, TaskType, idVars
<1>2. /\ todo[t][v] = store[v] /\ store[v] # NoRec /\ v \in born
      /\ store[v].status \in Up
  BY <1>1 DEF SeqInv, Bookkeeping, SaysUp, Up
<1>3. \A u \in Task : u # t => SameTask(u)
  BY DEF Repair, Enter, Goto, TypeOK, TaskType, SameTask
<1>4. Works(t, v)
  <2>1. \A w \in Vm : w # v => Kept(w)
    BY <1>1 DEF Kept, Left, procVars
  <2> QED
    BY <1>3, <2>1 DEF Works
<1>5. /\ todo'[t][v] = NoRec
      /\ \A u \in Task : \A w \in Vm : todo'[u][w] \in {todo[u][w], NoRec}
  BY <1>1 DEF Remove, TypeOK, LoopType, RecordMap
<1>6. Coherent(v, store[v])
  BY <1>1, <1>2, <1>3, FoundSettled DEF Settled
<1>7. \A k \in Launches : <<v, k>> \in alive' => Serves(v, k, store[v])'
  BY <1>1, <1>6 DEF Coherent, Serves, procVars
<1>8. Names(v, store[v])'
  BY <1>1, <1>6 DEF Coherent, Names, Left
<1>9. Coherent(v, store[v])'
  BY <1>1, <1>2, <1>6, <1>7, <1>8 DEF Coherent
<1>10. Stage(t, v)'
  BY <1>1, <1>2, <1>9 DEF Stage
<1> QED
  BY <1>1, <1>2, <1>4, <1>5, <1>10, EnterLocal

\* A record that needs nothing done is taken off the list.
LEMMA VisitSeq ==
  ASSUME TypeOK, TypeOK', SeqInv, NEW t \in Task, NEW v \in Vm,
         FoundAlive(t, v) \/ PassOver(t, v)
  PROVE  SeqInv'
<1>1. /\ todo' = [todo EXCEPT ![t] = Remove(todo[t], v)] /\ pass' = pass
      /\ UNCHANGED <<store, taskVars, procVars, hostVars, born>>
  BY DEF FoundAlive, PassOver, Visits, idVars
<1>2. /\ \A w \in Vm : Kept(w)
      /\ \A u \in Task : SameTask(u)
  BY <1>1 DEF Kept, SameTask, taskVars, procVars, hostVars, auxVars, Left
<1>3. AllSane'
  BY <1>2, AllKept DEF SeqInv
<1>4. \A u \in Task : \A w \in Vm : todo'[u][w] \in {todo[u][w], NoRec}
  BY <1>1 DEF Remove, TypeOK, LoopType, RecordMap
<1>5. Bookkeeping'
  BY <1>1, <1>4 DEF SeqInv, Bookkeeping, taskVars
<1> QED
  BY <1>3, <1>5 DEF SeqInv

\* A VMM that dies takes nothing from the accord of record and host.
LEMMA HostSeq ==
  ASSUME TypeOK, TypeOK', SeqInv, Killable = {}, Host
  PROVE  SeqInv'
<1>1. /\ UNCHANGED <<store, taskVars, loopVars, launched, hostVars, born>>
      /\ \/ \E p : alive' = alive \ {p} /\ suspended' = suspended \ {p}
         \/ alive' = alive /\ suspended' = suspended
  BY DEF Host, ProcessDies, TaskKilled, Expire, procVars, idVars
<1>2. /\ \A w \in Vm : Kept(w)
      /\ \A u \in Task : SameTask(u)
  BY <1>1 DEF Kept, SameTask, taskVars, hostVars, auxVars, Left
<1>3. AllSane'
  BY <1>2, AllKept DEF SeqInv
<1>4. Bookkeeping'
  BY <1>1 DEF SeqInv, Bookkeeping, taskVars, loopVars
<1> QED
  BY <1>3, <1>4 DEF SeqInv

\* SeqInv is inductive where operations on one VM do not overlap.
LEMMA SeqStep ==
  ASSUME TypeOK, TypeOK', SeqInv, OnePerVm, OnePerVm',
         Killable = {}, "Paused" \notin StartFrom, [Next]_vars
  PROVE  SeqInv'
<1>1. ASSUME NEW t \in Task, Request(t)
      PROVE  SeqInv'
  BY <1>1, CreateSeq, CallSeq DEF Request
<1>2. ASSUME NEW t \in Task, Advance(t)
      PROVE  SeqInv'
  BY <1>2, AdvanceSeq
<1>3. ASSUME NEW t \in Task, Loop(t)
      PROVE  SeqInv'
  BY <1>3, TickSeq, RepairSeq, VisitSeq, ReapSeq DEF Loop
<1>4. CASE Host
  BY <1>4, HostSeq
<1>5. CASE UNCHANGED vars
  <2>1. /\ \A w \in Vm : Kept(w)
        /\ \A u \in Task : SameTask(u)
    BY <1>5 DEF Kept, SameTask, vars, taskVars, procVars, hostVars, auxVars, Left
  <2>2. AllSane'
    BY <2>1, AllKept DEF SeqInv
  <2> QED
    BY <1>5, <2>2 DEF SeqInv, Bookkeeping, vars, taskVars, loopVars, idVars
<1> QED
  BY <1>1, <1>2, <1>3, <1>4, <1>5 DEF Next

\* At first nothing runs and nobody works.
LEMMA InitSeqInv == Init => SeqInv
<1> SUFFICES ASSUME Init PROVE SeqInv
  OBVIOUS
<1>1. \A v \in Vm : Settled(v)
  BY DEF Init, Settled, Vacated, Down, Empty
<1>2. \A t \in Task : tvm[t] = NoVm
  BY DEF Init
<1> QED
  BY <1>1, <1>2, LifecycleAssumption
     DEF SeqInv, AllSane, Sane, Bookkeeping, Init, Empty

\* What a live VMM has, whatever its operation is at.
LEMMA LiveHas ==
  ASSUME TypeOK, SeqInv, NEW v \in Vm, NEW k \in Launches, <<v, k>> \in alive
  PROVE  /\ v \in disk /\ v \in wsp
         /\ FailClosed /\ v \in NetnsVm => v \in policy \/ v \in bare
<1>1. ASSUME NEW r, Coherent(v, r)
      PROVE  Serves(v, k, r)
  BY <1>1 DEF Coherent
<1>2. ~Down(v) /\ ~Vacated(v)
  BY DEF Down, Vacated
<1>3. CASE \A t \in Task : tvm[t] # v
  <2>1. Coherent(v, store[v])
    BY <1>2, <1>3 DEF SeqInv, AllSane, Sane, Settled
  <2> QED
    BY <1>1, <2>1 DEF Serves
<1>4. ASSUME NEW t \in Task, tvm[t] = v
      PROVE  \E r : Coherent(v, r)
  <2>1. Stage(t, v) /\ pc[t] \in Step
    BY <1>4 DEF SeqInv, AllSane, Sane, TypeOK, TaskType
  <2> QED
    BY <1>2, <2>1 DEF Stage, Settled, Step
<1> QED
  BY <1>1, <1>3, <1>4 DEF Serves

\* Between operations every VM is settled.
LEMMA QuietSettled ==
  ASSUME SeqInv, Quiet, NEW v \in Vm
  PROVE  Settled(v)
BY LifecycleAssumption DEF Quiet, SeqInv, Bookkeeping, AllSane, Sane

\* The inductive invariant along every behaviour whose operations on one VM do
\* not overlap.
LEMMA AlwaysSequential ==
  ASSUME Killable = {}, "Paused" \notin StartFrom
  PROVE  Spec /\ []OnePerVm => [](TypeOK /\ SeqInv)
<1>1. Init => TypeOK /\ SeqInv
  BY InitTypeOK, InitSeqInv
<1>2. /\ TypeOK /\ SeqInv /\ OnePerVm /\ OnePerVm' /\ [Next]_vars
      => TypeOK' /\ SeqInv'
  BY TypeStep, SeqStep
<1> QED
  BY <1>1, <1>2, PTL DEF Spec

\* Where operations on one VM do not overlap and the daemon is not killed, no
\* delete, failed start or reaper takes the disk or the workspace of a live
\* VMM, for any number of VMs, tasks and launches (delete stops by pid, not by
\* status).  A VM is not started while Paused: start_impl would launch a
\* second VMM.
THEOREM DisksOutlive ==
  ASSUME Killable = {}, "Paused" \notin StartFrom
  PROVE  Spec /\ []OnePerVm => []DiskOutlivesProcess
<1>1. TypeOK /\ SeqInv => DiskOutlivesProcess
  BY ProcsOf, LiveHas DEF DiskOutlivesProcess, Down
<1> QED
  BY <1>1, AlwaysSequential, PTL

\* Where the dataplane fails closed, a VM with a host edge is launched with its
\* policy on and no operation takes it off while the VM runs: a guest without
\* one is always one whose filter a repair of the reaper has taken off to load a
\* new one, and whose reload is under way or has failed (apply_policy before
\* launch, removal after the kill, ebpf::apply's remove).
THEOREM GuestsFilteredFromLaunch ==
  ASSUME Killable = {}, "Paused" \notin StartFrom
  PROVE  Spec /\ []OnePerVm => []FilteredFromLaunch
<1>1. TypeOK /\ SeqInv => FilteredFromLaunch
  BY ProcsOf, LiveHas, LifecycleAssumption DEF FilteredFromLaunch, Down
<1> QED
  BY <1>1, AlwaysSequential, PTL

\* Between operations nothing on the host is without a record that names it,
\* unless the clean-up of that very thing failed (the error paths of create,
\* start, stop, delete and reconcile, each of whose steps may fail).
THEOREM NothingIsOrphaned ==
  ASSUME Killable = {}, "Paused" \notin StartFrom
  PROVE  Spec /\ []OnePerVm => []NothingOrphaned
<1>1. ASSUME TypeOK, SeqInv, Quiet, NEW v \in Vm
      PROVE  /\ Procs(v) # {} =>
                  v \in Stored(store) /\ Procs(v) = {<<v, store[v].pid>>}
             /\ v \in net => (v \in Stored(store) /\ store[v].netns) \/ Left("net", v)
             /\ v \in policy => v \in net \/ Left("policy", v)
             /\ v \in disk => v \in Stored(store) \/ Left("disk", v)
             /\ v \in wsp => v \in Stored(store) \/ Left("wsp", v)
             /\ v \in cgroup =>
                  (v \in Stored(store) /\ store[v].cgroup) \/ Left("cgroup", v)
  <2>1. Settled(v)
    BY <1>1, QuietSettled
  <2>2. CASE store[v] = NoRec
    <3>1. Procs(v) = {}
      BY <1>1, <2>1, <2>2, ProcsOf DEF Settled, Vacated
    <3> QED
      BY <2>1, <2>2, <3>1 DEF Settled, Vacated
  <2>3. CASE store[v] # NoRec
    <3>1. Coherent(v, store[v]) /\ v \in Stored(store)
      BY <2>1, <2>3 DEF Settled, Stored
    <3>2. \A p \in Procs(v) : p = <<v, store[v].pid>>
      BY <1>1, <3>1, ProcsOf DEF Coherent, Serves
    <3> QED
      BY <3>1, <3>2 DEF Coherent, Names
  <2> QED
    BY <2>2, <2>3
<1>2. TypeOK /\ SeqInv => NothingOrphaned
  BY <1>1 DEF NothingOrphaned
<1> QED
  BY <1>2, AlwaysSequential, PTL

\* Between operations every record tells what runs: its VMM, whether the guest
\* is suspended, its shares and its cgroup; and one that says the VM is down is
\* right about its network, policy and cgroup too, but for what a failed
\* clean-up left (stop and reconcile clear the fields all the same).
THEOREM RecordsAlwaysTruthful ==
  ASSUME Killable = {}, "Paused" \notin StartFrom
  PROVE  Spec /\ []OnePerVm => []RecordTruthful
<1>1. ASSUME TypeOK, SeqInv, Quiet, NEW v \in Stored(store)
      PROVE  /\ store[v].status \in {"Stopped", "Failed", "Creating"} =>
                  /\ Procs(v) = {}
                  /\ v \in net => Left("net", v)
                  /\ v \in policy => Left("policy", v)
                  /\ v \in cgroup => Left("cgroup", v)
             /\ \A p \in Procs(v) :
                  /\ p \in suspended <=> store[v].status = "Paused"
                  /\ p = <<v, store[v].virtiofsd>> /\ p \in vfs
                  /\ store[v].cgroup => v \in cgroup
  <2>1. Coherent(v, store[v]) /\ v \in Vm
    BY <1>1, QuietSettled DEF Settled, Stored
  <2>2. ASSUME NEW p \in Procs(v)
        PROVE  \E k \in Launches : p = <<v, k>> /\ Serves(v, k, store[v])
    BY <1>1, <2>1, <2>2, ProcsOf DEF Coherent
  <2>3. store[v].status \in {"Stopped", "Failed", "Creating"} =>
          /\ Procs(v) = {}
          /\ v \in net => Left("net", v)
          /\ v \in policy => Left("policy", v)
          /\ v \in cgroup => Left("cgroup", v)
    BY <2>1, <2>2 DEF Coherent, Names, Serves, Up
  <2> QED
    BY <2>1, <2>2, <2>3 DEF Coherent, Names, Serves
<1>2. TypeOK /\ SeqInv => RecordTruthful
  BY <1>1 DEF RecordTruthful
<1> QED
  BY <1>2, AlwaysSequential, PTL
=============================================================================
