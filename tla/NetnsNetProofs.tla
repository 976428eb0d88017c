---------------------------- MODULE NetnsNetProofs ----------------------------
(***************************************************************************)
(* Proofs about NetnsNet for any number of VMs, tasks and blocks: the type *)
(* invariant, that a prepared VM stays wired, that prepared VMs never      *)
(* share a subnet, and that cleanup leaves nothing.                        *)
(*                                                                         *)
(* The inductive invariant adds to those that ipam.json never gives one    *)
(* block to two VMs, that a VM nobody contends for has one task at a time, *)
(* and what each step of that task has already built.  An action touches   *)
(* one VM and one task, so lemma Local reduces every action to what it     *)
(* makes of these two.                                                     *)
(***************************************************************************)
EXTENDS NetnsNet, TLAPS

\* ipam.json gives a block to one VM at most.
Injective ==
  \A v, w \in Vm : ipam[v] = ipam[w] /\ ipam[v] \in Block => v = w

\* At most one task is at work on a VM that is not contended.
Alone ==
  \A t, u \in Task : tvm[t] \in Vm \ Contended /\ tvm[u] = tvm[t] => u = t

\* What task t, at work on v, has done so far.
Progress(t, v) ==
  /\ pc[t] \in Building => blk[t] = ipam[v]
  /\ pc[t] \in Building \ {"netns"} => v \in netns
  /\ pc[t] \notin {"idle", "netns"} => v \notin ready
  /\ pc[t] \in {"configure", "spawn", "pidfile"} => veth[v] = "moved"
  /\ pc[t] \in {"spawn", "pidfile"} => addr[v] = blk[t] /\ v \in nat
  /\ pc[t] = "pidfile" => v \in dns

Sequenced == \A t \in Task : tvm[t] \in Vm \ Contended => Progress(t, tvm[t])

Wired(v) ==
  v \in ready =>
    /\ v \in netns /\ veth[v] = "moved" /\ v \in nat /\ v \in dns /\ v \in pidfile
    /\ addr[v] \in Block /\ ipam[v] = addr[v]

AllWired == \A v \in Vm \ Contended : Wired(v)

Inv == TypeOK /\ Injective /\ Alone /\ Sequenced /\ AllWired

-----------------------------------------------------------------------------
(* Nothing of VM w, or of task u, changes.                                 *)

SameVm(w) ==
  /\ ipam'[w] = ipam[w] /\ veth'[w] = veth[w] /\ addr'[w] = addr[w]
  /\ (w \in netns') = (w \in netns)
  /\ (w \in nat') = (w \in nat)
  /\ (w \in dns') = (w \in dns)
  /\ (w \in pidfile') = (w \in pidfile)
  /\ (w \in ready') = (w \in ready)

SameTask(u) == pc'[u] = pc[u] /\ tvm'[u] = tvm[u] /\ blk'[u] = blk[u]

\* A step of task t on v keeps the invariant if it leaves the others alone
\* and keeps what the invariant says of t and v.
LEMMA Local ==
  ASSUME Inv, NEW t \in Task, NEW v \in Vm,
         \A w \in Vm : w # v => SameVm(w),
         \A u \in Task : u # t => SameTask(u),
         tvm'[t] \in {v, NoVm},
         tvm[t] = v \/ v \in Contended \/ (\A u \in Task : tvm[u] # v),
         v \notin Contended => Wired(v)',
         v \notin Contended /\ tvm'[t] = v => Progress(t, v)'
  PROVE  Alone' /\ Sequenced' /\ AllWired'
<1>0. NoVm \notin Vm
  BY NetAssumption
<1>1. ASSUME NEW u \in Task, u # t, tvm'[u] = v
      PROVE  v \in Contended
  BY <1>1 DEF Inv, Alone, SameTask
<1>2. Alone'
  <2> SUFFICES ASSUME NEW u \in Task, NEW x \in Task,
                      tvm'[u] \in Vm \ Contended, tvm'[x] = tvm'[u]
               PROVE  x = u
    BY DEF Alone
  <2>1. CASE u = t
    BY <2>1, <1>0, <1>1
  <2>2. CASE x = t
    BY <2>2, <1>0, <1>1
  <2>3. CASE u # t /\ x # t
    BY <2>3 DEF Inv, Alone, SameTask
  <2> QED
    BY <2>1, <2>2, <2>3
<1>3. Sequenced'
  <2> SUFFICES ASSUME NEW u \in Task, tvm'[u] \in Vm \ Contended
               PROVE  Progress(u, tvm[u])'
    BY DEF Sequenced
  <2>1. CASE u = t
    <3>1. tvm'[t] = v /\ v \notin Contended
      BY <2>1, <1>0
    <3>2. Progress(t, v)'
      BY <3>1
    <3> QED
      BY <2>1, <3>1, <3>2 DEF Progress
  <2>2. CASE u # t
    <3>1. tvm'[u] # v
      BY <2>2, <1>1
    <3>2. SameVm(tvm[u]) /\ SameTask(u)
      BY <2>2, <3>1 DEF SameTask
    <3>3. Progress(u, tvm[u])
      BY <3>2 DEF Inv, Sequenced, SameTask
    <3> QED
      BY <3>2, <3>3 DEF Progress, SameVm, SameTask
  <2> QED
    BY <2>1, <2>2
<1>4. AllWired'
  <2> SUFFICES ASSUME NEW w \in Vm \ Contended
               PROVE  Wired(w)'
    BY DEF AllWired
  <2>1. CASE w = v
    BY <2>1
  <2>2. CASE w # v
    <3>1. SameVm(w) /\ Wired(w)
      BY <2>2 DEF Inv, AllWired
    <3> QED
      BY <3>1 DEF SameVm, Wired
  <2> QED
    BY <2>1, <2>2
<1> QED
  BY <1>2, <1>3, <1>4

-----------------------------------------------------------------------------
(* Types.                                                                  *)

\* allocate_in returns a block that no other VM has.
LEMMA AllocatedIsFree ==
  ASSUME TypeOK, NEW v \in Vm, NEW b \in AllocateIn(ipam, v)
  PROVE  /\ b \in Block
         /\ Injective => \A w \in Vm : w # v => ipam[w] # b
<1>1. CASE ipam[v] # NoBlock
  BY <1>1 DEF AllocateIn, TypeOK, Injective
<1>2. CASE ipam[v] = NoBlock
  <2>1. b \in Block /\ b \notin Used(ipam)
    BY <1>2 DEF AllocateIn
  <2>2. b # NoBlock
    BY <2>1, NetAssumption DEF Block, NoBlock
  <2> QED
    BY <2>1, <2>2 DEF Used
<1> QED
  BY <1>1, <1>2

\* Every action keeps the types, and gives a task its VM and its block before
\* the steps that use them.
LEMMA TypingStep ==
  ASSUME TypeOK, [Next]_vars
  PROVE  TypeOK'
<1>0. NoVm \notin Vm
  BY NetAssumption
<1> USE <1>0 DEF TypeOK
<1>1. ASSUME NEW t \in Task, NEW v \in Vm, Prepare(t, v)
      PROVE  TypeOK'
  <2>1. PICK b \in AllocateIn(ipam, v) :
          ipam' = [ipam EXCEPT ![v] = b] /\ blk' = [blk EXCEPT ![t] = b]
    BY <1>1 DEF Prepare
  <2>2. b \in Block
    BY AllocatedIsFree
  <2> QED
    BY <1>1, <2>1, <2>2 DEF Prepare, Enter, Goto, hostVars, Steps, Building
<1>2. ASSUME NEW t \in Task, NEW v \in Vm, Cleanup(t, v)
      PROVE  TypeOK'
  BY <1>2 DEF Cleanup, Enter, Goto, hostVars, Steps, Building
<1>3. ASSUME NEW t \in Task, AddNetns(t)
      PROVE  TypeOK'
  BY <1>3 DEF AddNetns, Continue, Abort, Goto, Steps, Building
<1>4. ASSUME NEW t \in Task, AddVeth(t)
      PROVE  TypeOK'
  BY <1>4 DEF AddVeth, Continue, Abort, Goto, Steps, Building
<1>5. ASSUME NEW t \in Task, MoveVeth(t)
      PROVE  TypeOK'
  BY <1>5 DEF MoveVeth, Continue, Abort, Goto, Steps, Building
<1>6. ASSUME NEW t \in Task, Configure(t)
      PROVE  TypeOK'
  BY <1>6 DEF Configure, Continue, Abort, Goto, Steps, Building
<1>7. ASSUME NEW t \in Task, SpawnDns(t)
      PROVE  TypeOK'
  BY <1>7 DEF SpawnDns, Continue, Abort, Goto, Steps, Building
<1>8. ASSUME NEW t \in Task, WritePid(t)
      PROVE  TypeOK'
  BY <1>8 DEF WritePid, Done, Abort, Goto, Steps, Building
<1>9. ASSUME NEW t \in Task, KillDns(t)
      PROVE  TypeOK'
  BY <1>9 DEF KillDns, Goto, Steps, Building
<1>10. ASSUME NEW t \in Task, Release(t)
       PROVE  TypeOK'
  BY <1>10 DEF Release, Goto, hostVars, Steps, Building
<1>11. ASSUME NEW t \in Task, DelNetns(t)
       PROVE  TypeOK'
  BY <1>11 DEF DelNetns, Done, Goto, Steps, Building
<1>12. ASSUME NEW t \in Task, Killed(t)
       PROVE  TypeOK'
  BY <1>12 DEF Killed, Done, Goto, hostVars, Steps, Building
<1>13. ASSUME UNCHANGED vars
       PROVE  TypeOK'
  BY <1>13 DEF vars, hostVars, taskVars
<1> QED
  BY <1>1, <1>2, <1>3, <1>4, <1>5, <1>6, <1>7, <1>8, <1>9, <1>10, <1>11,
     <1>12, <1>13 DEF Next

-----------------------------------------------------------------------------
(* One lemma per action: the rest of the invariant.                        *)

\* prepare is given a block nobody else has; a VM that is ready keeps its own.
LEMMA PrepareStep ==
  ASSUME Inv, NEW t \in Task, NEW v \in Vm, Prepare(t, v)
  PROVE  Injective' /\ Alone' /\ Sequenced' /\ AllWired'
<1>1. TypeOK /\ NoVm \notin Vm
  BY NetAssumption DEF Inv
<1>2. PICK b \in AllocateIn(ipam, v) :
        ipam' = [ipam EXCEPT ![v] = b] /\ blk' = [blk EXCEPT ![t] = b]
  BY DEF Prepare
<1>3. b \in Block /\ \A w \in Vm : w # v => ipam[w] # b
  BY <1>1, AllocatedIsFree DEF Inv
<1>4. Injective'
  BY <1>1, <1>2, <1>3 DEF Inv, Injective, TypeOK
<1>5. \A w \in Vm : w # v => SameVm(w)
  BY <1>1, <1>2 DEF SameVm, Prepare, hostVars, TypeOK
<1>6. /\ pc' = [pc EXCEPT ![t] = "netns"] /\ tvm' = [tvm EXCEPT ![t] = v]
      /\ v \in Contended \/ \A u \in Task : tvm[u] # v
  BY DEF Prepare, Enter, Goto
<1>7. \A u \in Task : u # t => SameTask(u)
  BY <1>1, <1>2, <1>6 DEF SameTask, TypeOK
<1>8. v \notin Contended => Wired(v)'
  <2> SUFFICES ASSUME v \notin Contended, v \in ready
               PROVE  Wired(v)'
    BY DEF Wired, Prepare
  <2>1. Wired(v)
    BY DEF Inv, AllWired
  <2>2. ipam[v] # NoBlock
    BY <2>1, NetAssumption DEF Wired, Block, NoBlock
  <2>3. b = ipam[v]
    BY <2>2 DEF AllocateIn
  <2> QED
    BY <2>1, <2>3, <1>1, <1>2 DEF Wired, Prepare, hostVars, TypeOK
<1>9. Progress(t, v)'
  <2>1. pc'[t] = "netns" /\ blk'[t] = b /\ ipam'[v] = b
    BY <1>1, <1>2, <1>6 DEF TypeOK
  <2> QED
    BY <2>1 DEF Progress
<1>10. tvm'[t] = v
  BY <1>1, <1>6 DEF TypeOK
<1> QED
  BY <1>4, <1>5, <1>6, <1>7, <1>8, <1>9, <1>10, Local

\* A cleanup begins: its VM is no longer ready.
LEMMA CleanupStep ==
  ASSUME Inv, NEW t \in Task, NEW v \in Vm, Cleanup(t, v)
  PROVE  Injective' /\ Alone' /\ Sequenced' /\ AllWired'
<1>1. TypeOK
  BY DEF Inv
<1>2. Injective'
  BY DEF Inv, Injective, Cleanup
<1>3. \A w \in Vm : w # v => SameVm(w)
  BY DEF SameVm, Cleanup, hostVars
<1>4. /\ pc' = [pc EXCEPT ![t] = "kill"] /\ tvm' = [tvm EXCEPT ![t] = v]
      /\ v \in Contended \/ \A u \in Task : tvm[u] # v
      /\ v \notin ready' /\ blk' = blk
  BY DEF Cleanup, Enter, Goto
<1>5. \A u \in Task : u # t => SameTask(u)
  BY <1>1, <1>4 DEF SameTask, TypeOK
<1>6. Wired(v)'
  BY <1>4 DEF Wired
<1>7. pc'[t] = "kill" /\ tvm'[t] = v
  BY <1>1, <1>4 DEF TypeOK
<1>8. Progress(t, v)'
  BY <1>4, <1>7 DEF Progress, Building
<1> QED
  BY <1>2, <1>3, <1>4, <1>5, <1>6, <1>7, <1>8, Local

\* A step of prepare that succeeds or fails by itself changes its own VM only.
LEMMA BuildStep ==
  ASSUME Inv, NEW t \in Task, pc[t] \in Building,
         UNCHANGED <<ipam, tvm, blk, pidfile>>,
         \A w \in Vm : w # tvm[t] => SameVm(w),
         NEW step \in Steps \ {"idle"}, pc' = [pc EXCEPT ![t] = step],
         Progress(t, tvm[t]) /\ Wired(tvm[t]) => Progress(t, tvm[t])',
         Progress(t, tvm[t]) /\ Wired(tvm[t]) => Wired(tvm[t])'
  PROVE  Injective' /\ Alone' /\ Sequenced' /\ AllWired'
<1>1. TypeOK
  BY DEF Inv
<1>2. tvm[t] \in Vm
  BY <1>1 DEF TypeOK, Building
<1> DEFINE v == tvm[t]
<1>3. Injective'
  BY DEF Inv, Injective
<1>4. \A u \in Task : u # t => SameTask(u)
  BY <1>1 DEF SameTask, TypeOK
<1>5. ASSUME v \notin Contended
      PROVE  Progress(t, v)' /\ Wired(v)'
  <2>1. Progress(t, tvm[t]) /\ Wired(tvm[t])
    BY <1>2, <1>5 DEF Inv, Sequenced, AllWired
  <2>2. Progress(t, tvm[t])' /\ Wired(tvm[t])'
    BY <2>1
  <2>3. tvm'[t] = v
    OBVIOUS
  <2> QED
    BY <2>2, <2>3 DEF Progress, Wired
<1>6. tvm'[t] = v /\ \A w \in Vm : w # v => SameVm(w)
  OBVIOUS
<1> HIDE DEF v
<1> QED
  BY <1>2, <1>3, <1>4, <1>5, <1>6, Local DEF v

\* A namespace is added where there was none, so the VM was not ready.
LEMMA AddNetnsStep ==
  ASSUME Inv, NEW t \in Task, AddNetns(t)
  PROVE  Injective' /\ Alone' /\ Sequenced' /\ AllWired'
<1>1. TypeOK /\ pc[t] \in Building
  BY DEF Inv, AddNetns, Building
<1>2. UNCHANGED <<ipam, tvm, blk, pidfile>>
  BY DEF AddNetns, Continue, Abort
<1>3. \A w \in Vm : w # tvm[t] => SameVm(w)
  BY <1>1 DEF SameVm, AddNetns, Continue, Abort, TypeOK
<1>4. PICK step \in Steps \ {"idle"} : pc' = [pc EXCEPT ![t] = step]
  BY DEF AddNetns, Continue, Abort, Goto, Steps
<1>5. pc'[t] = step /\ tvm[t] \in Vm
  BY <1>1, <1>4 DEF TypeOK, Building
<1>6. Progress(t, tvm[t]) /\ Wired(tvm[t]) => Progress(t, tvm[t])'
  BY <1>1, <1>2, <1>4, <1>5 DEF Progress, Wired, AddNetns, Continue, Abort, Goto, Building, TypeOK
<1>7. Progress(t, tvm[t]) /\ Wired(tvm[t]) => Wired(tvm[t])'
  BY <1>1, <1>2 DEF Progress, Wired, AddNetns, Continue, Abort, Building, TypeOK
<1> QED
  BY <1>1, <1>2, <1>3, <1>4, <1>6, <1>7, BuildStep

\* The pair is added for a VM that is not ready.
LEMMA AddVethStep ==
  ASSUME Inv, NEW t \in Task, AddVeth(t)
  PROVE  Injective' /\ Alone' /\ Sequenced' /\ AllWired'
<1>1. TypeOK /\ pc[t] \in Building
  BY DEF Inv, AddVeth, Building
<1>2. UNCHANGED <<ipam, tvm, blk, pidfile>>
  BY DEF AddVeth, Continue, Abort
<1>3. \A w \in Vm : w # tvm[t] => SameVm(w)
  BY <1>1 DEF SameVm, AddVeth, Continue, Abort, TypeOK
<1>4. PICK step \in Steps \ {"idle"} : pc' = [pc EXCEPT ![t] = step]
  BY DEF AddVeth, Continue, Abort, Goto, Steps
<1>5. pc'[t] = step /\ tvm[t] \in Vm
  BY <1>1, <1>4 DEF TypeOK, Building
<1>6. Progress(t, tvm[t]) /\ Wired(tvm[t]) => Progress(t, tvm[t])'
  BY <1>1, <1>2, <1>4, <1>5 DEF Progress, AddVeth, Continue, Abort, Goto, Building, TypeOK
<1>7. Progress(t, tvm[t]) /\ Wired(tvm[t]) => Wired(tvm[t])'
  BY <1>1, <1>2 DEF Progress, Wired, AddVeth, Continue, Abort, Building, TypeOK
<1> QED
  BY <1>1, <1>2, <1>3, <1>4, <1>6, <1>7, BuildStep

\* One end is moved into the namespace.
LEMMA MoveVethStep ==
  ASSUME Inv, NEW t \in Task, MoveVeth(t)
  PROVE  Injective' /\ Alone' /\ Sequenced' /\ AllWired'
<1>1. TypeOK /\ pc[t] \in Building
  BY DEF Inv, MoveVeth, Building
<1>2. UNCHANGED <<ipam, tvm, blk, pidfile>>
  BY DEF MoveVeth, Continue, Abort
<1>3. \A w \in Vm : w # tvm[t] => SameVm(w)
  BY <1>1 DEF SameVm, MoveVeth, Continue, Abort, TypeOK
<1>4. PICK step \in Steps \ {"idle"} : pc' = [pc EXCEPT ![t] = step]
  BY DEF MoveVeth, Continue, Abort, Goto, Steps
<1>5. pc'[t] = step /\ tvm[t] \in Vm
  BY <1>1, <1>4 DEF TypeOK, Building
<1>6. Progress(t, tvm[t]) /\ Wired(tvm[t]) => Progress(t, tvm[t])'
  BY <1>1, <1>2, <1>4, <1>5 DEF Progress, MoveVeth, Continue, Abort, Goto, Building, TypeOK
<1>7. Progress(t, tvm[t]) /\ Wired(tvm[t]) => Wired(tvm[t])'
  BY <1>1, <1>2 DEF Progress, Wired, MoveVeth, Continue, Abort, Building, TypeOK
<1> QED
  BY <1>1, <1>2, <1>3, <1>4, <1>6, <1>7, BuildStep

\* The host end is given the block of the task, which is the VM's.
LEMMA ConfigureStep ==
  ASSUME Inv, NEW t \in Task, Configure(t)
  PROVE  Injective' /\ Alone' /\ Sequenced' /\ AllWired'
<1>1. TypeOK /\ pc[t] \in Building
  BY DEF Inv, Configure, Building
<1>2. UNCHANGED <<ipam, tvm, blk, pidfile>>
  BY DEF Configure, Continue, Abort
<1>3. \A w \in Vm : w # tvm[t] => SameVm(w)
  BY <1>1 DEF SameVm, Configure, Continue, Abort, TypeOK
<1>4. PICK step \in Steps \ {"idle"} : pc' = [pc EXCEPT ![t] = step]
  BY DEF Configure, Continue, Abort, Goto, Steps
<1>5. pc'[t] = step /\ tvm[t] \in Vm
  BY <1>1, <1>4 DEF TypeOK, Building
<1>6. Progress(t, tvm[t]) /\ Wired(tvm[t]) => Progress(t, tvm[t])'
  BY <1>1, <1>2, <1>4, <1>5 DEF Progress, Configure, Continue, Abort, Goto, Building, TypeOK
<1>7. Progress(t, tvm[t]) /\ Wired(tvm[t]) => Wired(tvm[t])'
  BY <1>1, <1>2 DEF Progress, Wired, Configure, Continue, Abort, Building, TypeOK
<1> QED
  BY <1>1, <1>2, <1>3, <1>4, <1>6, <1>7, BuildStep

\* dnsmasq joins what Progress records.
LEMMA SpawnDnsStep ==
  ASSUME Inv, NEW t \in Task, SpawnDns(t)
  PROVE  Injective' /\ Alone' /\ Sequenced' /\ AllWired'
<1>1. TypeOK /\ pc[t] \in Building
  BY DEF Inv, SpawnDns, Building
<1>2. UNCHANGED <<ipam, tvm, blk, pidfile>>
  BY DEF SpawnDns, Continue, Abort
<1>3. \A w \in Vm : w # tvm[t] => SameVm(w)
  BY <1>1 DEF SameVm, SpawnDns, Continue, Abort, TypeOK
<1>4. PICK step \in Steps \ {"idle"} : pc' = [pc EXCEPT ![t] = step]
  BY DEF SpawnDns, Continue, Abort, Goto, Steps
<1>5. pc'[t] = step /\ tvm[t] \in Vm
  BY <1>1, <1>4 DEF TypeOK, Building
<1>6. Progress(t, tvm[t]) /\ Wired(tvm[t]) => Progress(t, tvm[t])'
  BY <1>1, <1>2, <1>4, <1>5 DEF Progress, SpawnDns, Continue, Abort, Goto, Building, TypeOK
<1>7. Progress(t, tvm[t]) /\ Wired(tvm[t]) => Wired(tvm[t])'
  BY <1>1, <1>2 DEF Progress, Wired, SpawnDns, Continue, Abort, Building, TypeOK
<1> QED
  BY <1>1, <1>2, <1>3, <1>4, <1>6, <1>7, BuildStep

\* prepare returns: Progress at its last step is what Wired asks for.
LEMMA WritePidStep ==
  ASSUME Inv, NEW t \in Task, WritePid(t)
  PROVE  Injective' /\ Alone' /\ Sequenced' /\ AllWired'
<1>1. TypeOK /\ NoVm \notin Vm /\ pc[t] = "pidfile"
  BY NetAssumption DEF Inv, WritePid
<1>2. tvm[t] \in Vm /\ blk[t] \in Block
  BY <1>1 DEF TypeOK, Building
<1>v. PICK v \in Vm : v = tvm[t]
  BY <1>2
<1>3. Injective'
  BY DEF Inv, Injective, WritePid
<1>4. \A w \in Vm : w # v => SameVm(w)
  BY <1>v DEF SameVm, WritePid, Abort
<1>5. \A u \in Task : u # t => SameTask(u)
  BY <1>1 DEF SameTask, WritePid, Abort, Done, Goto, TypeOK
<1>6. tvm'[t] = NoVm \/ (tvm'[t] = v /\ pc'[t] = "kill" /\ v \notin ready')
  BY <1>v, <1>1 DEF WritePid, Abort, Done, Goto, TypeOK
<1>7. ASSUME v \notin Contended
      PROVE  Wired(v)'
  <2>1. Progress(t, v) /\ Wired(v)
    BY <1>v, <1>7 DEF Inv, Sequenced, AllWired
  <2> QED
    BY <1>v, <1>1, <1>2, <2>1 DEF Progress, Wired, WritePid, Abort, Building
<1>8. tvm'[t] = v => Progress(t, v)'
  BY <1>v, <1>1, <1>2, <1>6 DEF Progress, Building
<1> QED
  BY <1>v, <1>2, <1>3, <1>4, <1>5, <1>6, <1>7, <1>8, Local

\* cleanup removes dnsmasq and the table of a VM that is not ready.
LEMMA KillDnsStep ==
  ASSUME Inv, NEW t \in Task, KillDns(t)
  PROVE  Injective' /\ Alone' /\ Sequenced' /\ AllWired'
<1>1. TypeOK /\ pc[t] = "kill" /\ tvm' = tvm /\ blk' = blk /\ ready' = ready
  BY DEF Inv, KillDns
<1>2. tvm[t] \in Vm /\ pc'[t] = "release"
  BY <1>1 DEF TypeOK, KillDns, Goto
<1>v. PICK v \in Vm : v = tvm[t]
  BY <1>2
<1>3. Injective'
  BY DEF Inv, Injective, KillDns
<1>4. \A w \in Vm : w # v => SameVm(w)
  BY <1>v DEF SameVm, KillDns
<1>5. \A u \in Task : u # t => SameTask(u)
  BY <1>1 DEF SameTask, KillDns, Goto, TypeOK
<1>6. v \notin Contended => v \notin ready'
  BY <1>v, <1>1, <1>2 DEF Inv, Sequenced, Progress
<1>7. v \notin Contended => Wired(v)' /\ Progress(t, v)'
  BY <1>v, <1>2, <1>6 DEF Wired, Progress, Building
<1>8. tvm'[t] = v
  BY <1>v, <1>1
<1> QED
  BY <1>v, <1>2, <1>3, <1>4, <1>5, <1>7, <1>8, Local

\* The block is released by a VM that is not ready.
LEMMA ReleaseStep ==
  ASSUME Inv, NEW t \in Task, Release(t)
  PROVE  Injective' /\ Alone' /\ Sequenced' /\ AllWired'
<1>1. TypeOK /\ pc[t] = "release" /\ tvm' = tvm /\ blk' = blk /\ ready' = ready
  BY DEF Inv, Release
<1>2. tvm[t] \in Vm /\ pc'[t] = "del"
  BY <1>1 DEF TypeOK, Release, Goto
<1>v. PICK v \in Vm : v = tvm[t]
  BY <1>2
<1>3. Injective'
  <2>1. NoBlock \notin Block
    BY NetAssumption DEF Block, NoBlock
  <2> QED
    BY <1>1, <1>2, <2>1 DEF Inv, Injective, Release, TypeOK
<1>4. \A w \in Vm : w # v => SameVm(w)
  BY <1>v, <1>1 DEF SameVm, Release, hostVars, TypeOK
<1>5. \A u \in Task : u # t => SameTask(u)
  BY <1>1 DEF SameTask, Release, Goto, TypeOK
<1>6. v \notin Contended => v \notin ready'
  BY <1>v, <1>1, <1>2 DEF Inv, Sequenced, Progress
<1>7. v \notin Contended => Wired(v)' /\ Progress(t, v)'
  BY <1>v, <1>2, <1>6 DEF Wired, Progress, Building
<1>8. tvm'[t] = v
  BY <1>v, <1>1
<1> QED
  BY <1>v, <1>2, <1>3, <1>4, <1>5, <1>7, <1>8, Local

\* The namespace of a VM that is not ready goes.
LEMMA DelNetnsStep ==
  ASSUME Inv, NEW t \in Task, DelNetns(t)
  PROVE  Injective' /\ Alone' /\ Sequenced' /\ AllWired'
<1>1. TypeOK /\ NoVm \notin Vm /\ pc[t] = "del" /\ ready' = ready
  BY NetAssumption DEF Inv, DelNetns
<1>2. tvm[t] \in Vm /\ tvm'[t] = NoVm
  BY <1>1 DEF TypeOK, DelNetns, Done
<1>v. PICK v \in Vm : v = tvm[t]
  BY <1>2
<1>3. Injective'
  BY DEF Inv, Injective, DelNetns
<1>4. \A w \in Vm : w # v => SameVm(w)
  BY <1>v, <1>1 DEF SameVm, DelNetns, TypeOK
<1>5. \A u \in Task : u # t => SameTask(u)
  BY <1>1 DEF SameTask, DelNetns, Done, Goto, TypeOK
<1>6. v \notin Contended => Wired(v)'
  BY <1>v, <1>1, <1>2 DEF Inv, Sequenced, Progress, Wired
<1> QED
  BY <1>v, <1>1, <1>2, <1>3, <1>4, <1>5, <1>6, Local

\* A killed task leaves the host as it is.
LEMMA KilledStep ==
  ASSUME Inv, NEW t \in Task, Killed(t)
  PROVE  Injective' /\ Alone' /\ Sequenced' /\ AllWired'
<1>1. TypeOK /\ NoVm \notin Vm /\ pc[t] # "idle"
  BY NetAssumption DEF Inv, Killed
<1>2. tvm[t] \in Vm /\ tvm'[t] = NoVm
  BY <1>1 DEF TypeOK, Killed, Done
<1>v. PICK v \in Vm : v = tvm[t]
  BY <1>2
<1>3. Injective'
  BY DEF Inv, Injective, Killed
<1>4. \A w \in Vm : SameVm(w)
  BY DEF SameVm, Killed, hostVars
<1>5. \A u \in Task : u # t => SameTask(u)
  BY <1>1 DEF SameTask, Killed, Done, Goto, TypeOK
<1>6. v \notin Contended => Wired(v)'
  BY <1>v, <1>2, <1>4 DEF Inv, AllWired, Wired, SameVm
<1> QED
  BY <1>v, <1>1, <1>2, <1>3, <1>4, <1>5, <1>6, Local

-----------------------------------------------------------------------------
(* Theorems.                                                               *)

\* Every step keeps the inductive invariant.
LEMMA InvStep ==
  ASSUME Inv, [Next]_vars
  PROVE  Inv'
<1>1. TypeOK'
  BY TypingStep DEF Inv
<1>2. Injective' /\ Alone' /\ Sequenced' /\ AllWired'
  <2>1. CASE UNCHANGED vars
    BY <2>1 DEF Inv, vars, hostVars, taskVars, Injective, Alone, Sequenced,
                Progress, AllWired, Wired
  <2>2. CASE Next
    BY <2>2, PrepareStep, CleanupStep, AddNetnsStep, AddVethStep, MoveVethStep,
       ConfigureStep, SpawnDnsStep, WritePidStep, KillDnsStep, ReleaseStep,
       DelNetnsStep, KilledStep DEF Next
  <2> QED
    BY <2>1, <2>2
<1> QED
  BY <1>1, <1>2 DEF Inv

\* The invariant holds before the first operation.
LEMMA InvInit == Init => Inv
<1> SUFFICES ASSUME Init
             PROVE  Inv
  OBVIOUS
<1>1. TypeOK
  BY DEF Init, TypeOK, Steps, Building
<1>2. Injective
  <2>1. NoBlock \notin Block
    BY NetAssumption DEF Block, NoBlock
  <2> QED
    BY <2>1 DEF Init, Injective
<1>3. Alone /\ Sequenced /\ AllWired
  BY NetAssumption DEF Init, Alone, Sequenced, AllWired, Wired
<1> QED
  BY <1>1, <1>2, <1>3 DEF Inv

\* The inductive invariant holds throughout.
LEMMA Invariance == Spec => []Inv
<1>1. Init => Inv
  BY InvInit
<1>2. Inv /\ [Next]_vars => Inv'
  BY InvStep
<1> QED
  BY <1>1, <1>2, PTL DEF Spec

\* Every variable keeps its type, and a task past its first step has a VM and,
\* while it builds, the block it was allocated.
THEOREM NetTyping == Spec => []TypeOK
<1>1. Inv => TypeOK
  BY DEF Inv
<1> QED
  BY <1>1, Invariance, PTL

\* What prepare reported ready stays wired until the VM's own cleanup, for any
\* number of VMs, tasks, failures and kills.
THEOREM PreparedStaysWired == Spec => []ReadyStaysWired
<1>1. Inv => ReadyStaysWired
  <2> SUFFICES ASSUME Inv, NEW v \in ready \ Contended
               PROVE  /\ v \in netns /\ veth[v] = "moved" /\ v \in nat \cap dns \cap pidfile
                      /\ addr[v] \in Block /\ ipam[v] = addr[v]
    BY DEF ReadyStaysWired
  <2>1. v \in Vm
    BY DEF Inv, TypeOK
  <2> QED
    BY <2>1 DEF Inv, AllWired, Wired
<1> QED
  BY <1>1, Invariance, PTL

\* block_to_octets gives different blocks different subnets.
LEMMA OctetsInjective ==
  ASSUME NEW b \in Block, NEW c \in Block, BlockToOctets(b) = BlockToOctets(c)
  PROVE  b = c
<1>1. b \in Nat /\ c \in Nat
  BY NetAssumption DEF Block
<1>2. b \div 16 = c \div 16 /\ b % 16 = c % 16
  BY <1>1 DEF BlockToOctets
<1> QED
  BY <1>1, <1>2

\* No two prepared VMs share a subnet, for any number of VMs, tasks and blocks,
\* through failures, cleanups and kills, if no two tasks were at work on
\* either at once.
THEOREM SubnetsStayDistinct == Spec => []ReadySubnetsDistinct
<1>1. Inv => ReadySubnetsDistinct
  <2> SUFFICES ASSUME Inv, NEW v \in ready \ Contended, NEW w \in ready \ Contended,
                      BlockToOctets(addr[v]) = BlockToOctets(addr[w])
               PROVE  v = w
    BY DEF ReadySubnetsDistinct
  <2>1. v \in Vm /\ w \in Vm
    BY DEF Inv, TypeOK
  <2>2. /\ addr[v] \in Block /\ ipam[v] = addr[v]
        /\ addr[w] \in Block /\ ipam[w] = addr[w]
    BY <2>1 DEF Inv, AllWired, Wired
  <2>3. addr[v] = addr[w]
    BY <2>2, OctetsInjective
  <2> QED
    BY <2>1, <2>2, <2>3 DEF Inv, Injective
<1> QED
  BY <1>1, Invariance, PTL
-----------------------------------------------------------------------------
(* What cleanup leaves.  TornDown is not inductive: it rests on what each   *)
(* step of prepare and of cleanup finds of a VM that nobody contends for    *)
(* and whose tasks are not killed.                                          *)

Calm == Vm \ (Contended \cup Unlucky)

\* Nothing of v is on the host.
Bare(v) == v \notin netns /\ v \notin nat /\ v \notin dns /\ v \notin pidfile /\ veth[v] = "none"

\* The namespace of v stands, and what prepare adds later does not.
Begun(v) == v \in netns /\ v \notin nat /\ v \notin dns /\ v \notin pidfile

\* What is left of v goes with its namespace.
Bound(v) == veth[v] # "unmoved" /\ (veth[v] = "moved" => v \in netns)

\* What of v there is when task t is at work on it.
Stage(t, v) ==
  /\ pc[t] = "netns" => v \in ready \/ Bare(v)
  /\ pc[t] = "veth" => Begun(v) /\ veth[v] = "none"
  /\ pc[t] = "move" => Begun(v) /\ veth[v] = "unmoved"
  /\ pc[t] = "configure" => Begun(v) /\ veth[v] = "moved"
  /\ pc[t] \in {"spawn", "pidfile"} => v \in netns /\ veth[v] = "moved" /\ v \notin pidfile
  /\ pc[t] = "spawn" => v \notin dns
  /\ pc[t] = "kill" => Bound(v) /\ (v \in dns => v \in pidfile)
  /\ pc[t] \in {"release", "del"} =>
       Bound(v) /\ v \notin nat /\ v \notin dns /\ v \notin pidfile
  /\ pc[t] = "del" => ipam[v] = NoBlock

Orderly(v) ==
  /\ v \notin nameless
  /\ AtRest(v) => Bare(v) /\ ipam[v] = NoBlock
  /\ \A t \in Task : tvm[t] = v => Stage(t, v)

AllOrderly == \A v \in Calm : Orderly(v)

\* A step of task t on v keeps AllOrderly if it leaves the others alone and
\* keeps what AllOrderly says of t and v.
LEMMA LocalOrder ==
  ASSUME Inv, Inv', AllOrderly, NEW t \in Task, NEW v \in Vm,
         \A w \in Vm : w # v => SameVm(w) /\ (w \in nameless') = (w \in nameless),
         \A u \in Task : u # t => SameTask(u),
         tvm[t] \in {v, NoVm}, tvm'[t] \in {v, NoVm}, tvm[t] = v \/ tvm'[t] = v,
         v \in Calm => /\ v \notin nameless'
                       /\ tvm'[t] = v => Stage(t, v)'
                       /\ tvm'[t] = NoVm /\ v \notin ready' => Bare(v)' /\ ipam'[v] = NoBlock
  PROVE  AllOrderly'
<1>0. NoVm \notin Vm
  BY NetAssumption
<1>1. ASSUME NEW w \in Calm, w # v
      PROVE  Orderly(w)'
  <2>1. w \in Vm /\ SameVm(w) /\ (w \in nameless') = (w \in nameless) /\ Orderly(w)
    BY <1>1 DEF Calm, AllOrderly
  <2>2. tvm[t] # w /\ tvm'[t] # w
    BY <1>0, <1>1, <2>1
  <2>3. AtRest(w)' => AtRest(w)
    BY <2>1, <2>2 DEF AtRest, SameVm, SameTask
  <2>4. Bare(w) /\ ipam[w] = NoBlock => Bare(w)' /\ ipam'[w] = NoBlock
    BY <2>1 DEF Bare, SameVm
  <2>5. ASSUME NEW u \in Task, tvm'[u] = w
        PROVE  Stage(u, w)'
    <3>1. SameTask(u) /\ Stage(u, w)
      BY <2>1, <2>2, <2>5 DEF Orderly, SameTask
    <3> QED
      BY <2>1, <3>1 DEF Stage, Bare, Begun, Bound, SameVm, SameTask
  <2> QED
    BY <2>1, <2>3, <2>4, <2>5 DEF Orderly
<1>2. ASSUME v \in Calm
      PROVE  Orderly(v)'
  <2>1. \A u \in Task : tvm'[u] = v => u = t /\ tvm'[t] = v
    <3> SUFFICES ASSUME NEW u \in Task, tvm'[u] = v, u # t PROVE FALSE
      OBVIOUS
    <3>1. tvm[u] = v /\ v \notin Contended
      BY <1>2 DEF SameTask, Calm
    <3> QED
      BY <3>1 DEF Inv, Alone
  <2>2. AtRest(v)' => tvm'[t] = NoVm /\ v \notin ready'
    BY DEF AtRest
  <2> QED
    BY <1>2, <2>1, <2>2 DEF Orderly
<1> QED
  BY <1>1, <1>2 DEF AllOrderly

\* prepare takes up a VM that is ready or of which there is nothing.
LEMMA PrepareOrder ==
  ASSUME Inv, Inv', AllOrderly, NEW t \in Task, NEW v \in Vm, Prepare(t, v)
  PROVE  AllOrderly'
<1>1. TypeOK /\ TypeOK' /\ NoVm \notin Vm
  BY NetAssumption DEF Inv
<1>2. \A w \in Vm : w # v => SameVm(w) /\ (w \in nameless') = (w \in nameless)
  BY <1>1 DEF SameVm, Prepare, hostVars, TypeOK
<1>3. \A u \in Task : u # t => SameTask(u)
  BY <1>1 DEF SameTask, Prepare, Enter, Goto, TypeOK
<1>4. tvm[t] = NoVm /\ tvm'[t] = v /\ pc'[t] = "netns"
  BY <1>1 DEF Prepare, Enter, Goto, TypeOK
<1>5. v \in Calm => v \notin nameless' /\ Stage(t, v)'
  BY <1>4 DEF AllOrderly, Orderly, AtRest, Calm, Prepare, Enter, hostVars, Stage, Bare
<1> QED
  BY <1>1, <1>2, <1>3, <1>4, <1>5, LocalOrder

\* So does cleanup.
LEMMA CleanupOrder ==
  ASSUME Inv, Inv', AllOrderly, NEW t \in Task, NEW v \in Vm, Cleanup(t, v)
  PROVE  AllOrderly'
<1>1. TypeOK /\ TypeOK' /\ NoVm \notin Vm
  BY NetAssumption DEF Inv
<1>2. \A w \in Vm : w # v => SameVm(w) /\ (w \in nameless') = (w \in nameless)
  BY <1>1 DEF SameVm, Cleanup, hostVars, TypeOK
<1>3. \A u \in Task : u # t => SameTask(u)
  BY <1>1 DEF SameTask, Cleanup, Enter, Goto, TypeOK
<1>4. tvm[t] = NoVm /\ tvm'[t] = v /\ pc'[t] = "kill"
  BY <1>1 DEF Cleanup, Enter, Goto, TypeOK
<1>5. ASSUME v \in Calm PROVE v \notin nameless' /\ Stage(t, v)'
  <2>1. Orderly(v) /\ Wired(v) /\ \A u \in Task : tvm[u] # v
    BY <1>5 DEF AllOrderly, Calm, Inv, AllWired, Cleanup, Enter
  <2>2. v \in ready \/ Bare(v)
    BY <2>1 DEF Orderly, AtRest
  <2>3. Bound(v) /\ (v \in dns => v \in pidfile)
    BY <2>1, <2>2 DEF Wired, Bare, Bound
  <2> QED
    BY <1>4, <2>1, <2>3 DEF Orderly, Stage, Bound, Cleanup, hostVars
<1> QED
  BY <1>1, <1>2, <1>3, <1>4, <1>5, LocalOrder

\* A step of prepare finds what the one before left; one that fails leaves
\* what cleanup can remove.
LEMMA BuildOrder ==
  ASSUME Inv, Inv', AllOrderly, NEW t \in Task,
         \/ AddNetns(t) \/ AddVeth(t) \/ MoveVeth(t) \/ Configure(t) \/ SpawnDns(t)
  PROVE  AllOrderly'
<1>1. TypeOK /\ TypeOK' /\ NoVm \notin Vm
  BY NetAssumption DEF Inv
<1>2. /\ pc[t] \in Building \ {"pidfile"}
      /\ UNCHANGED <<ipam, tvm, blk, pidfile, nameless>>
  BY DEF AddNetns, AddVeth, MoveVeth, Configure, SpawnDns, Continue, Abort, Building
<1>3. PICK v \in Vm : v = tvm[t]
  BY <1>1, <1>2 DEF TypeOK, Building
<1>4. \A w \in Vm : w # v => SameVm(w)
  <2>1. CASE AddNetns(t)
    BY <1>1, <1>3, <2>1 DEF SameVm, AddNetns, Continue, Abort, TypeOK
  <2>2. CASE AddVeth(t)
    BY <1>1, <1>3, <2>2 DEF SameVm, AddVeth, Continue, Abort, TypeOK
  <2>3. CASE MoveVeth(t)
    BY <1>1, <1>3, <2>3 DEF SameVm, MoveVeth, Continue, Abort, TypeOK
  <2>4. CASE Configure(t)
    BY <1>1, <1>3, <2>4 DEF SameVm, Configure, Continue, Abort, TypeOK
  <2>5. CASE SpawnDns(t)
    BY <1>1, <1>3, <2>5 DEF SameVm, SpawnDns, Continue, Abort, TypeOK
  <2> QED
    BY <2>1, <2>2, <2>3, <2>4, <2>5
<1>5. \A u \in Task : u # t => SameTask(u)
  BY <1>1 DEF SameTask, AddNetns, AddVeth, MoveVeth, Configure, SpawnDns,
              Continue, Abort, Goto, TypeOK
<1>6. ASSUME v \in Calm PROVE v \notin nameless' /\ Stage(t, v)'
  <2>1. /\ v \notin nameless /\ Stage(t, v) /\ Wired(v) /\ v \notin Unlucky
        /\ v = tvm[t] /\ tvm'[t] = v
    BY <1>2, <1>3, <1>6 DEF AllOrderly, Orderly, Calm, Inv, AllWired
  <2>2. CASE AddNetns(t)
    <3>1. CASE v \notin netns /\ netns' = netns \cup {v} /\ Continue(t, "veth")
      <4>1. pc'[t] = "veth" /\ pc[t] = "netns" /\ v \notin ready
        BY <1>1, <2>1, <2>2, <3>1 DEF AddNetns, Continue, Goto, TypeOK, Wired
      <4> QED
        BY <1>2, <2>1, <2>2, <3>1, <4>1 DEF Stage, Bare, Begun, AddNetns
    <3>2. CASE Abort(t) /\ UNCHANGED netns
      <4>1. pc'[t] = "kill" /\ pc[t] = "netns"
        BY <1>1, <2>2, <3>2 DEF AddNetns, Abort, Goto, TypeOK
      <4>2. Bound(v) /\ (v \in dns => v \in pidfile)
        BY <2>1, <4>1 DEF Stage, Bare, Bound, Wired
      <4> QED
        BY <1>2, <2>1, <2>2, <3>2, <4>1, <4>2 DEF Stage, Bound, AddNetns
    <3> QED
      BY <2>1, <2>2, <3>1, <3>2 DEF AddNetns
  <2>3. CASE AddVeth(t)
    <3>1. /\ pc[t] = "veth"
          /\ \/ pc'[t] = "move" /\ veth'[v] = "unmoved"
             \/ pc'[t] = "kill" /\ veth'[v] = veth[v]
      BY <1>1, <2>1, <2>3 DEF AddVeth, Continue, Abort, Goto, TypeOK
    <3> QED
      BY <1>2, <2>1, <2>3, <3>1 DEF Stage, Begun, Bound, AddVeth
  <2>4. CASE MoveVeth(t)
    <3>1. pc[t] = "move" /\ pc'[t] = "configure" /\ veth'[v] = "moved"
      <4>1. pc[t] = "move" /\ v \in netns /\ veth[v] = "unmoved"
        BY <2>1, <2>4 DEF MoveVeth, Stage, Begun
      <4>2. ~MayFail(v, "move")
        BY <2>1 DEF MayFail, Recoverable
      <4> QED
        BY <1>1, <2>1, <2>4, <4>1, <4>2 DEF MoveVeth, Continue, Goto, TypeOK
    <3> QED
      BY <1>2, <2>1, <2>4, <3>1 DEF Stage, Begun, MoveVeth
  <2>5. CASE Configure(t)
    <3>1. /\ pc[t] = "configure" /\ pc'[t] \in {"spawn", "kill"}
          /\ veth' = veth /\ netns' = netns /\ dns' = dns
      BY <1>1, <2>1, <2>5 DEF Configure, Continue, Abort, Goto, TypeOK
    <3> QED
      BY <1>2, <2>1, <3>1 DEF Stage, Begun, Bound
  <2>6. CASE SpawnDns(t)
    <3>1. /\ pc[t] = "spawn"
          /\ \/ pc'[t] = "pidfile"
             \/ pc'[t] = "kill" /\ dns' = dns
          /\ veth' = veth /\ netns' = netns
      BY <1>1, <2>1, <2>6 DEF SpawnDns, Continue, Abort, Goto, TypeOK
    <3> QED
      BY <1>2, <2>1, <3>1 DEF Stage, Bound
  <2> QED
    BY <2>2, <2>3, <2>4, <2>5, <2>6
<1> QED
  BY <1>1, <1>2, <1>3, <1>4, <1>5, <1>6, LocalOrder

\* The pid of a dnsmasq that cleanup will have to end is always recorded.
LEMMA WritePidOrder ==
  ASSUME Inv, Inv', AllOrderly, NEW t \in Task, WritePid(t)
  PROVE  AllOrderly'
<1>1. TypeOK /\ TypeOK' /\ NoVm \notin Vm /\ pc[t] = "pidfile"
  BY NetAssumption DEF Inv, WritePid
<1>2. PICK v \in Vm : v = tvm[t]
  BY <1>1 DEF TypeOK
<1>3. \A w \in Vm : w # v => SameVm(w) /\ (w \in nameless') = (w \in nameless)
  BY <1>2 DEF SameVm, WritePid, Abort
<1>4. \A u \in Task : u # t => SameTask(u)
  BY <1>1 DEF SameTask, WritePid, Abort, Done, Goto, TypeOK
<1>5. tvm'[t] \in {v, NoVm}
  BY <1>1, <1>2 DEF WritePid, Abort, Done, TypeOK
<1>6. ASSUME v \in Calm
      PROVE  v \notin nameless' /\ tvm'[t] = NoVm /\ v \in ready'
  <2>1. v \notin nameless /\ v \notin Unlucky
    BY <1>6 DEF AllOrderly, Orderly, Calm
  <2>2. ~MayFail(v, "pidfile")
    BY <2>1 DEF MayFail, Recoverable
  <2> QED
    BY <1>1, <1>2, <2>1, <2>2 DEF WritePid, Done, TypeOK
<1> QED
  BY <1>1, <1>2, <1>3, <1>4, <1>5, <1>6, LocalOrder

\* The steps of cleanup remove what the stages say there is.
LEMMA CleaningOrder ==
  ASSUME Inv, Inv', AllOrderly, NEW t \in Task, KillDns(t) \/ Release(t) \/ DelNetns(t)
  PROVE  AllOrderly'
<1>1. TypeOK /\ TypeOK' /\ NoVm \notin Vm /\ pc[t] \in {"kill", "release", "del"}
  BY NetAssumption DEF Inv, KillDns, Release, DelNetns
<1>2. PICK v \in Vm : v = tvm[t]
  BY <1>1 DEF TypeOK
<1>3. \A w \in Vm : w # v => SameVm(w) /\ (w \in nameless') = (w \in nameless)
  <2>1. CASE KillDns(t)
    BY <1>2, <2>1 DEF SameVm, KillDns
  <2>2. CASE Release(t)
    BY <1>1, <1>2, <2>2 DEF SameVm, Release, hostVars, TypeOK
  <2>3. CASE DelNetns(t)
    BY <1>1, <1>2, <2>3 DEF SameVm, DelNetns, TypeOK
  <2> QED
    BY <2>1, <2>2, <2>3
<1>4. \A u \in Task : u # t => SameTask(u)
  BY <1>1 DEF SameTask, KillDns, Release, DelNetns, Done, Goto, TypeOK
<1>5. tvm'[t] \in {v, NoVm}
  BY <1>1, <1>2 DEF KillDns, Release, DelNetns, Done, TypeOK
<1>6. ASSUME v \in Calm
      PROVE  /\ v \notin nameless'
             /\ tvm'[t] = v => Stage(t, v)'
             /\ tvm'[t] = NoVm => Bare(v)' /\ ipam'[v] = NoBlock
  <2>1. v \notin nameless /\ v \notin Unlucky /\ Stage(t, v)
    BY <1>2, <1>6 DEF AllOrderly, Orderly, Calm
  <2>2. CASE KillDns(t)
    <3>1. pc[t] = "kill" /\ pc'[t] = "release" /\ tvm'[t] = v
      BY <1>1, <1>2, <2>2 DEF KillDns, Goto, TypeOK
    <3> QED
      BY <1>1, <1>2, <2>1, <2>2, <3>1 DEF KillDns, Stage, Bound
  <2>3. CASE Release(t)
    <3>1. ~MayFail(v, "release")
      BY <2>1 DEF MayFail, Recoverable
    <3>2. pc[t] = "release" /\ pc'[t] = "del" /\ tvm'[t] = v /\ ipam'[v] = NoBlock
      BY <1>1, <1>2, <2>3, <3>1 DEF Release, Goto, TypeOK
    <3> QED
      BY <1>1, <1>2, <2>1, <2>3, <3>2 DEF Release, hostVars, Stage, Bound
  <2>4. CASE DelNetns(t)
    <3>1. ~MayFail(v, "del")
      BY <2>1 DEF MayFail, Recoverable
    <3>2. pc[t] = "del" /\ tvm'[t] = NoVm
      BY <1>1, <2>4 DEF DelNetns, Done, TypeOK
    <3>3. Bound(v) /\ v \notin nat /\ v \notin dns /\ v \notin pidfile /\ ipam[v] = NoBlock
      BY <2>1, <3>2 DEF Stage
    <3>4. v \notin netns' /\ v \notin nameless'
      BY <1>2, <2>1, <2>4, <3>1, <3>3 DEF DelNetns
    <3>5. veth'[v] = "none"
      BY <1>1, <1>2, <2>4, <3>1, <3>3 DEF DelNetns, Bound, TypeOK
    <3> QED
      BY <1>1, <2>4, <3>2, <3>3, <3>4, <3>5 DEF DelNetns, Bare
  <2> QED
    BY <2>2, <2>3, <2>4
<1> QED
  BY <1>1, <1>2, <1>3, <1>4, <1>5, <1>6, LocalOrder

\* A kill only ends tasks on VMs that are not calm.
LEMMA KilledOrder ==
  ASSUME Inv, Inv', AllOrderly, NEW t \in Task, Killed(t)
  PROVE  AllOrderly'
<1>1. TypeOK /\ TypeOK' /\ NoVm \notin Vm /\ pc[t] # "idle"
  BY NetAssumption DEF Inv, Killed
<1>2. PICK v \in Vm : v = tvm[t]
  BY <1>1 DEF TypeOK
<1>3. \A w \in Vm : w # v => SameVm(w) /\ (w \in nameless') = (w \in nameless)
  BY DEF SameVm, Killed, hostVars
<1>4. \A u \in Task : u # t => SameTask(u)
  BY <1>1 DEF SameTask, Killed, Done, Goto, TypeOK
<1>5. tvm'[t] = NoVm /\ v \notin Calm
  BY <1>1, <1>2 DEF Killed, Done, TypeOK, Calm
<1> QED
  BY <1>1, <1>2, <1>3, <1>4, <1>5, LocalOrder

\* Every step keeps the order.
LEMMA OrderStep == Inv /\ AllOrderly /\ [Next]_vars => AllOrderly'
<1> SUFFICES ASSUME Inv, AllOrderly, [Next]_vars PROVE AllOrderly'
  OBVIOUS
<1>1. Inv'
  BY InvStep
<1>2. CASE UNCHANGED vars
  BY <1>2 DEF vars, hostVars, taskVars, AllOrderly, Orderly, AtRest, Stage, Bare, Begun, Bound
<1>3. CASE Next
  BY <1>1, <1>3, PrepareOrder, CleanupOrder, BuildOrder, WritePidOrder, CleaningOrder,
     KilledOrder DEF Next
<1> QED
  BY <1>2, <1>3

\* A cleanup that is not interrupted leaves nothing of its VM, whichever step
\* of prepare had failed before it, for any number of VMs, tasks and blocks.
THEOREM CleanedUpIsGone == Spec => []TornDown
<1>1. Init => AllOrderly
  <2> SUFFICES ASSUME Init, NEW v \in Calm PROVE Orderly(v)
    BY DEF AllOrderly
  <2>1. v \in Vm /\ v # NoVm
    BY NetAssumption DEF Calm
  <2>2. \A t \in Task : tvm[t] # v
    BY <2>1 DEF Init
  <2>3. Bare(v) /\ ipam[v] = NoBlock /\ v \notin nameless
    BY <2>1 DEF Init, Bare
  <2> QED
    BY <2>2, <2>3 DEF Orderly
<1>2. Inv /\ AllOrderly /\ [Next]_vars => AllOrderly'
  BY OrderStep
<1>3. AllOrderly => TornDown
  BY DEF AllOrderly, Orderly, Bare, Calm, TornDown
<1> QED
  BY <1>1, <1>2, <1>3, Invariance, PTL DEF Spec
=============================================================================
