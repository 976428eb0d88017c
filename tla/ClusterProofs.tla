---------------------------- MODULE ClusterProofs ----------------------------
(***************************************************************************)
(* Proofs about the cluster, for any number of nodes, requests and objects:*)
(* a node that placement takes for healthy has been heard of within the    *)
(* window, and VMs that nobody knows of are at most as many as mishaps.    *)
(***************************************************************************)
EXTENDS Cluster, FiniteSetTheorems, TLAPS

-----------------------------------------------------------------------------
(* The VMs of the nodes.                                                   *)

\* Types of the records of the nodes: ids are given out in order.
VmsType == vms \in [Node -> SUBSET Id] /\ born \in 0 .. MaxVm

\* A node's VMs can be counted.
LEMMA VmsFinite ==
  ASSUME VmsType, NEW n \in Node
  PROVE  IsFiniteSet(vms[n]) /\ Cardinality(vms[n]) \in Nat
<1>1. IsFiniteSet(Id)
  BY DaemonAssumption, FS_Interval DEF Id
<1>2. vms[n] \subseteq Id
  BY DEF VmsType
<1>3. IsFiniteSet(vms[n])
  BY <1>1, <1>2, FS_Subset
<1> QED
  BY <1>3, FS_CardinalityType

\* Only handlers and the reaper write records.
LEMMA VmsStep ==
  ASSUME VmsType, [Next]_vars
  PROVE  VmsType'
<1> USE DaemonAssumption DEF VmsType, Id
<1>1. ASSUME NEW c \in Caller, Handle(c) PROVE VmsType'
  <2>1. CASE CreateVm(c)
    BY <2>1 DEF CreateVm
  <2>2. CASE DeleteVm(c)
    BY <2>2 DEF DeleteVm
  <2> QED
    BY <1>1, <2>1, <2>2 DEF Handle, Unreachable, Unauthorised, Admit, GetVm
<1>2. ASSUME NEW n \in Node, Expire(n) \/ StopDaemon(n) \/ StartDaemon(n) PROVE VmsType'
  BY <1>2 DEF Expire, StopDaemon, StartDaemon
<1>3. CASE FleetNext
  BY <1>3 DEF FleetNext, Beat, Register, BeatLost, Tick, CrashCentral, StartCentral, PassOn,
              CreateAnywhere, CreateOn, DeleteOn, daemonVars
<1>4. CASE KubeNext
  BY <1>4 DEF KubeNext, CreateCr, DeleteCr, WatchOperator, WatchPlacer, AddFinalizer, Apply,
              RecordCreated, Refresh, Cleanup, CleanedUp, PickNode, Place, CrashOperator, daemonVars
<1> QED
  BY <1>1, <1>2, <1>3, <1>4 DEF Next, DaemonNext, vars, daemonVars

-----------------------------------------------------------------------------
(* Heartbeats.                                                             *)

Age == 0 .. Window

NodeInfo == [known : BOOLEAN, count : Nat, age : Age]

\* Types of what the registry knows of the nodes.
FleetType ==
  /\ registry \in [Node -> NodeInfo] /\ disk \in [Node -> NodeInfo]
  /\ beat \in [Node -> Nat]
  /\ silence \in [Node -> Age]

\* In memory and on disk a node is at least as old as its silence.
Aged == \A n \in Node : silence[n] <= registry[n].age /\ silence[n] <= disk[n].age

FleetInv == VmsType /\ FleetType /\ Aged

\* Every record of a node that is written is at least as old as its silence.
LEMMA FleetInvStep ==
  ASSUME FleetInv, [Next]_vars
  PROVE  FleetInv'
<1> USE FleetAssumption DEF FleetInv, Age, NodeInfo
<1>0. VmsType'
  BY VmsStep
<1>1. CASE UNCHANGED fleetVars
  BY <1>0, <1>1 DEF fleetVars, FleetType, Aged
<1>2. ASSUME NEW n \in Node, Beat(n) PROVE FleetInv'
  <2>1. CountVms(n, FALSE) \in Nat
    BY VmsFinite DEF CountVms
  <2> QED
    BY <1>0, <1>2, <2>1 DEF Beat, FleetType, Aged
<1>3. ASSUME NEW n \in Node, Register(n) PROVE FleetInv'
  <2>1. registry' \in [Node -> NodeInfo] /\ disk' \in [Node -> NodeInfo]
    <3>1. beat[n] \in Nat /\ [known |-> TRUE, count |-> beat[n], age |-> 0] \in NodeInfo
      BY DEF FleetType
    <3> QED
      BY <1>3, <3>1 DEF Register, FleetType
  <2>2. beat' \in [Node -> Nat]
    BY <1>3, DaemonAssumption DEF Register, FleetType, Waiting
  <2>3. silence' \in [Node -> Age] /\ silence'[n] = 0 /\ \A m \in Node \ {n} : silence'[m] = silence[m]
    BY <1>3 DEF Register, FleetType
  <2>4. \A m \in Node \ {n} : registry'[m] = registry[m] /\ disk'[m] \in {registry[m], disk[m]}
    BY <1>3 DEF Register, FleetType
  <2>5. Aged'
    BY <2>1, <2>3, <2>4 DEF Aged
  <2> QED
    BY <1>0, <2>1, <2>2, <2>3, <2>5 DEF FleetType
<1>4. ASSUME NEW n \in Node, BeatLost(n) PROVE FleetInv'
  BY <1>0, <1>4, DaemonAssumption DEF BeatLost, FleetType, Waiting, Aged
<1>5. CASE Tick
  <2>1. ASSUME NEW info \in NodeInfo
        PROVE  /\ Older(info) \in NodeInfo
               /\ Older(info).age = IF info.age < Window THEN info.age + 1 ELSE info.age
    BY DEF Older
  <2>2. registry' \in [Node -> NodeInfo] /\ disk' \in [Node -> NodeInfo] /\ silence' \in [Node -> Age]
    BY <1>5, <2>1 DEF Tick, FleetType
  <2>3. ASSUME NEW n \in Node
        PROVE  silence'[n] <= registry'[n].age /\ silence'[n] <= disk'[n].age
    <3>1. /\ registry'[n] = Older(registry[n]) /\ disk'[n] = Older(disk[n])
          /\ silence'[n] = IF silence[n] < Window THEN silence[n] + 1 ELSE Window
          /\ registry[n] \in NodeInfo /\ disk[n] \in NodeInfo /\ silence[n] \in Age
      BY <1>5 DEF Tick, FleetType
    <3>2. silence[n] <= registry[n].age /\ silence[n] <= disk[n].age
      BY DEF Aged
    <3> QED
      BY <2>1, <3>1, <3>2
  <2> QED
    BY <1>0, <1>5, <2>2, <2>3 DEF Tick, FleetType, Aged
<1>6. CASE CrashCentral
  BY <1>0, <1>6 DEF CrashCentral, Unknown, FleetType, Aged
<1>7. CASE StartCentral
  BY <1>0, <1>7 DEF StartCentral, LoadPersisted, FleetType, Aged
<1>8. ASSUME NEW c \in FleetClient,
             PassOn(c) \/ CreateAnywhere(c) \/ \E n \in Node : CreateOn(c, n) \/ DeleteOn(c, n)
      PROVE  FleetInv'
  BY <1>0, <1>8 DEF PassOn, CreateAnywhere, CreateOn, DeleteOn, fleetVars, FleetType, Aged
<1> QED
  BY <1>1, <1>2, <1>3, <1>4, <1>5, <1>6, <1>7, <1>8 DEF Next, FleetNext, vars

\* A node that placement treats as healthy has been heard of within the
\* window, whatever restarts of the central and failed writes of
\* fleet-nodes.json lie in between (central.rs: healthy, load_persisted).
THEOREM HealthyHeardOf == Spec => []HealthyIsRecent
<1>1. Init => FleetInv
  BY DaemonAssumption, FleetAssumption
     DEF Init, DaemonInit, FleetInit, Unknown, Waiting, FleetInv, VmsType, FleetType, Aged, NodeInfo, Age
<1>2. FleetInv /\ [Next]_vars => FleetInv'
  BY FleetInvStep
<1>3. FleetInv => HealthyIsRecent
  BY FleetAssumption DEF FleetInv, FleetType, Aged, NodeInfo, Age, HealthyIsRecent, Healthy
<1> QED
  BY <1>1, <1>2, <1>3, PTL DEF Spec

-----------------------------------------------------------------------------
(* Leaks.  LeaksBounded counts what is lost already.  Its induction needs  *)
(* what is as good as lost: Debt has a token for every VM whose knowers    *)
(* are all about to forget it, for every pick of the placer that will move *)
(* an object that has a node, and for every reconcile, in flight or to     *)
(* come from the cached copy, that creates on a node the object has left.  *)
(* A step adds at most as many tokens as it adds mishaps.                  *)

\* k's object names VM v of node n.
Names(k, n, v) == cr[k].exists /\ cr[k].node = n /\ cr[k].vm = v

\* The reconcile in flight is about another VM than k's object names.
Misses(k) ==
  ~(cr[k].vm = rpc[Operator(k)].id /\ cr[k].node = rpc[Operator(k)].node)

\* The reconcile in flight will take from the object what it names.
Drops(k) ==
  LET r == rpc[Operator(k)] IN
  \/ r.op = "create"
  \/ r.op = "get" /\ (IF r.stage = "done" THEN r.reply = "notfound" ELSE Misses(k))
  \/ r.op = "delete"
     /\ (IF r.stage = "done" THEN r.reply \in {"ok", "notfound"} ELSE Misses(k))

\* The exchange of c has brought VM v of node n.
Brings(c, n, v) == Answered(c, "create") /\ rpc[c].node = n /\ rpc[c].id = v

\* Somebody knows of VM v of node n and is not about to forget it.
Secure(n, v) ==
  \/ \E k \in Cr : Names(k, n, v) /\ ~Drops(k)
  \/ \E c \in Caller : Brings(c, n, v)
  \/ v \in told

\* k's object names a VM that is there.
Holding(k) == cr[k].node \in Node /\ cr[k].vm \in vms[cr[k].node]

\* A reconcile from the cached copy would create on a node the object has left.
Estranged(k) ==
  /\ cache[k].finalizer /\ ~cache[k].deleting /\ cache[k].vm = 0
  /\ cache[k].node \in Node /\ cache[k].node # cr[k].node

\* The next create for k may be one too many.
Skewed(k) ==
  IF rpc[Operator(k)].op = "create"
    THEN rpc[Operator(k)].node # cr[k].node \/ Estranged(k)
    ELSE Holding(k) /\ Estranged(k)

\* The placer will move an object that has a node.
Astray(k) == pick[k] # 0 /\ cr[k].exists /\ cr[k].node # 0

VmToken == {<<"vm", n, v>> : n \in Node, v \in Id}

SkewToken == {<<"skew", k, 0>> : k \in Cr}

PickToken == {<<"pick", k, 0>> : k \in Cr}

Owed(d) ==
  \/ d \in VmToken /\ d[3] \in vms[d[2]] /\ ~Secure(d[2], d[3])
  \/ d \in SkewToken /\ Skewed(d[2])
  \/ d \in PickToken /\ Astray(d[2])

Debt == {d \in VmToken \cup SkewToken \cup PickToken : Owed(d)}

\* An object with a finalizer is replaced only by a cleanup that began when it
\* was deleted; that is what reconciles and cached copies may rely on.
Guarding(k) ==
  /\ cr[k].deleting => cr[k].finalizer
  /\ cr[k].finalizer => cr[k].exists
  /\ cr[k].vm # 0 => cr[k].finalizer /\ cr[k].node # 0
  /\ cache[k].deleting => cache[k].finalizer
  /\ cache[k].finalizer /\ ~cache[k].deleting =>
       cr[k].finalizer /\ (cache[k].node # 0 => cr[k].node # 0)
  /\ cache[k].deleting => cr[k].deleting \/ ~cr[k].finalizer
  /\ rpc[Operator(k)].op \in {"create", "get"} => cr[k].finalizer /\ cr[k].node # 0
  /\ rpc[Operator(k)].op = "delete" =>
       /\ cr[k].deleting \/ ~cr[k].finalizer
       /\ cache[k].finalizer => cache[k].deleting

AllGuarding == \A k \in Cr : Guarding(k)

\* Ids are given out once.
Fresh ==
  /\ \A m, n \in Node : \A v \in Id : v \in vms[m] /\ v \in vms[n] => m = n
  /\ \A n \in Node : \A v \in vms[n] : v <= born
  /\ \A k \in Cr : cr[k].vm <= born
  /\ \A k \in Cr : cache[k].vm <= born
  /\ \A c \in Caller : rpc[c].id <= born

\* An exchange, and an object.
Exchange ==
  [stage : {"idle", "sent", "admitted", "done"}, op : {"none", "create", "get", "delete"},
   node : Node \cup {0}, id : 0 .. MaxVm, bearer : BOOLEAN,
   reply : {"none", "ok", "notfound", "error", "unreachable"}]

CrObject ==
  [exists : BOOLEAN, node : Node \cup {0}, vm : 0 .. MaxVm, finalizer : BOOLEAN,
   deleting : BOOLEAN]

\* Types; an exchange has an operation and a node, is admitted to create, and
\* brings a VM only with a success.
LeakType ==
  /\ VmsType
  /\ rpc \in [Caller -> Exchange]
  /\ \A c \in Caller :
       /\ rpc[c].stage = "idle" <=> rpc[c].op = "none"
       /\ rpc[c].stage # "idle" => rpc[c].node # 0
       /\ rpc[c].stage = "admitted" => rpc[c].op = "create"
       /\ rpc[c].op = "create" /\ rpc[c].reply # "ok" => rpc[c].id = 0
  /\ cr \in [Cr -> CrObject] /\ cache \in [Cr -> CrObject]
  /\ pick \in [Cr -> Node \cup {0}]
  /\ mishaps \in Nat

LeakInv == LeakType /\ AllGuarding /\ Fresh /\ Cardinality(Debt) <= mishaps

\* Callers are told apart.
LEMMA Callers ==
  /\ \A k \in Cr : Operator(k) \in Caller
  /\ \A c \in FleetClient : FleetRequest(c) \in Caller
  /\ \A j, k \in Cr : Operator(j) = Operator(k) => j = k
  /\ \A k \in Cr, c \in FleetClient : Operator(k) # FleetRequest(c)
  /\ \A c \in Caller : \/ \E k \in Cr : c = Operator(k)
                       \/ \E f \in FleetClient : c = FleetRequest(f)
BY DEF Operator, FleetRequest, Caller

\* There are finitely many tokens.
LEMMA TokensFinite ==
  /\ IsFiniteSet(VmToken \cup SkewToken \cup PickToken)
  /\ IsFiniteSet(Debt) /\ Cardinality(Debt) \in Nat
  /\ IsFiniteSet(Debt') /\ Cardinality(Debt') \in Nat
<1>1. IsFiniteSet(VmToken)
  <2>1. IsFiniteSet(Id)
    BY DaemonAssumption, FS_Interval DEF Id
  <2>2. IsFiniteSet(Node \X Id)
    BY <2>1, DaemonAssumption, FS_Product
  <2> DEFINE f == [p \in Node \X Id |-> <<"vm", p[1], p[2]>>]
  <2>3. f \in Surjection(Node \X Id, VmToken)
    <3>1. \A n \in Node, v \in Id : <<n, v>> \in Node \X Id /\ f[<<n, v>>] = <<"vm", n, v>>
      OBVIOUS
    <3>2. \A p \in Node \X Id : f[p] \in VmToken
      BY DEF VmToken
    <3>3. ASSUME NEW d \in VmToken PROVE \E p \in Node \X Id : f[p] = d
      <4>1. PICK n \in Node, v \in Id : d = <<"vm", n, v>>
        BY DEF VmToken
      <4> HIDE DEF f
      <4>2. <<n, v>> \in Node \X Id /\ f[<<n, v>>] = d
        BY <3>1, <4>1
      <4> QED
        BY <4>2
    <3> QED
      BY <3>2, <3>3 DEF Surjection
  <2> QED
    BY <2>2, <2>3, FS_Surjection
<1>2. IsFiniteSet(SkewToken)
  <2> DEFINE f == [k \in Cr |-> <<"skew", k, 0>>]
  <2>1. f \in Surjection(Cr, SkewToken)
    BY DEF SkewToken, Surjection
  <2> QED
    BY <2>1, DaemonAssumption, FS_Surjection
<1>3. IsFiniteSet(PickToken)
  <2> DEFINE f == [k \in Cr |-> <<"pick", k, 0>>]
  <2>1. f \in Surjection(Cr, PickToken)
    BY DEF PickToken, Surjection
  <2> QED
    BY <2>1, DaemonAssumption, FS_Surjection
<1>4. IsFiniteSet(VmToken \cup SkewToken \cup PickToken)
  BY <1>1, <1>2, <1>3, FS_Union
<1>5. /\ Debt \subseteq VmToken \cup SkewToken \cup PickToken
      /\ Debt' \subseteq VmToken \cup SkewToken \cup PickToken
  BY DEF Debt
<1>6. IsFiniteSet(Debt) /\ IsFiniteSet(Debt')
  BY <1>4, <1>5, FS_Subset
<1> QED
  BY <1>4, <1>6, FS_CardinalityType

\* What the tokens of the debt are.
LEMMA DebtIs ==
  /\ \A n \in Node, v \in Id : <<"vm", n, v>> \in Debt <=> v \in vms[n] /\ ~Secure(n, v)
  /\ \A k \in Cr : <<"skew", k, 0>> \in Debt <=> Skewed(k)
  /\ \A k \in Cr : <<"pick", k, 0>> \in Debt <=> Astray(k)
  /\ \A d \in Debt : \/ \E n \in Node, v \in Id : d = <<"vm", n, v>>
                     \/ \E k \in Cr : d = <<"skew", k, 0>> \/ d = <<"pick", k, 0>>
<1>1. \A n \in Node, v \in Id : <<"vm", n, v>> \in Debt <=> v \in vms[n] /\ ~Secure(n, v)
  BY DEF Debt, Owed, VmToken, SkewToken, PickToken
<1>2. \A k \in Cr : <<"skew", k, 0>> \in Debt <=> Skewed(k)
  BY DEF Debt, Owed, VmToken, SkewToken, PickToken
<1>3. \A k \in Cr : <<"pick", k, 0>> \in Debt <=> Astray(k)
  BY DEF Debt, Owed, VmToken, SkewToken, PickToken
<1>4. \A d \in Debt : \/ \E n \in Node, v \in Id : d = <<"vm", n, v>>
                      \/ \E k \in Cr : d = <<"skew", k, 0>> \/ d = <<"pick", k, 0>>
  BY DEF Debt, VmToken, SkewToken, PickToken
<1> QED
  BY <1>1, <1>2, <1>3, <1>4

\* Debts that a step may add are bounded by what it pays for.
LEMMA Within ==
  ASSUME NEW X,
         \A n \in Node, v \in Id :
           v \in vms'[n] /\ ~Secure(n, v)' =>
             (v \in vms[n] /\ ~Secure(n, v)) \/ <<"vm", n, v>> \in X,
         \A k \in Cr : Skewed(k)' => Skewed(k) \/ <<"skew", k, 0>> \in X,
         \A k \in Cr : Astray(k)' => Astray(k) \/ <<"pick", k, 0>> \in X
  PROVE  Debt' \subseteq Debt \cup X
<1> SUFFICES ASSUME NEW d \in Debt' PROVE d \in Debt \cup X
  OBVIOUS
<1>1. d \in VmToken \cup SkewToken \cup PickToken /\ Owed(d)'
  BY DEF Debt
<1>2. CASE d \in VmToken
  <2>1. PICK n \in Node, v \in Id : d = <<"vm", n, v>>
    BY <1>2 DEF VmToken
  <2>2. v \in vms'[n] /\ ~Secure(n, v)'
    BY <1>1, <2>1 DEF Owed, SkewToken, PickToken
  <2> QED
    BY <2>1, <2>2, DebtIs
<1>3. CASE d \in SkewToken
  <2>1. PICK k \in Cr : d = <<"skew", k, 0>>
    BY <1>3 DEF SkewToken
  <2>2. Skewed(k)'
    BY <1>1, <2>1 DEF Owed, VmToken, PickToken
  <2> QED
    BY <2>1, <2>2, DebtIs
<1>4. CASE d \in PickToken
  <2>1. PICK k \in Cr : d = <<"pick", k, 0>>
    BY <1>4 DEF PickToken
  <2>2. Astray(k)'
    BY <1>1, <2>1 DEF Owed, VmToken, SkewToken
  <2> QED
    BY <2>1, <2>2, DebtIs
<1> QED
  BY <1>1, <1>2, <1>3, <1>4

\* A step that adds nothing to the debt.
LEMMA NothingOwed ==
  ASSUME Cardinality(Debt) <= mishaps, mishaps \in Nat, mishaps' \in Nat,
         mishaps <= mishaps', Debt' \subseteq Debt
  PROVE  Cardinality(Debt') <= mishaps'
<1>1. Cardinality(Debt') <= Cardinality(Debt)
  BY TokensFinite, FS_Subset
<1> QED
  BY <1>1, TokensFinite

\* One that adds at most what it counts.
LEMMA OwedAsCounted ==
  ASSUME Cardinality(Debt) <= mishaps, mishaps \in Nat, mishaps' \in Nat, NEW X, IsFiniteSet(X),
         mishaps + Cardinality(X) <= mishaps', Debt' \subseteq Debt \cup X
  PROVE  Cardinality(Debt') <= mishaps'
<1> DEFINE a == Cardinality(Debt)
           b == Cardinality(X)
           c == Cardinality(Debt \cup X)
           i == Cardinality(Debt \cap X)
           e == Cardinality(Debt')
<1>1. IsFiniteSet(Debt \cup X) /\ c = a + b - i
  BY TokensFinite, FS_Union
<1>2. IsFiniteSet(Debt \cap X)
  BY TokensFinite, FS_Subset
<1>3. e <= c
  BY <1>1, FS_Subset
<1>4. a \in Nat /\ b \in Nat /\ i \in Nat /\ e \in Nat /\ c \in Nat
  BY <1>1, <1>2, TokensFinite, FS_CardinalityType
<1> HIDE DEF a, b, c, i, e
<1>5. a <= mishaps /\ mishaps + b <= mishaps' => e <= mishaps'
  BY <1>1, <1>3, <1>4
<1> QED
  BY <1>5 DEF a, b, e

\* One that counts one mishap and adds one token.
LEMMA OneOwed ==
  ASSUME Cardinality(Debt) <= mishaps, mishaps \in Nat, NEW x,
         mishaps' = mishaps + 1, Debt' \subseteq Debt \cup {x}
  PROVE  Cardinality(Debt') <= mishaps'
<1>1. IsFiniteSet({x}) /\ Cardinality({x}) = 1
  BY FS_Singleton
<1> QED
  BY <1>1, OwedAsCounted

\* One that turns a token into another.
LEMMA Exchanged ==
  ASSUME Cardinality(Debt) <= mishaps, mishaps \in Nat, NEW x, NEW y,
         mishaps' = mishaps, Debt' \subseteq Debt \cup {x}, y \in Debt, y \notin Debt'
  PROVE  Cardinality(Debt') <= mishaps'
<1> DEFINE S == Debt \ {y}
<1>1. IsFiniteSet(S) /\ Cardinality(S) = Cardinality(Debt) - 1
  BY TokensFinite, FS_RemoveElement
<1>2. IsFiniteSet(S \cup {x}) /\ Cardinality(S \cup {x}) <= Cardinality(S) + 1
  <2>1. Cardinality(S) \in Nat
    BY <1>1, FS_CardinalityType
  <2> HIDE DEF S
  <2> QED
    BY <1>1, <2>1, FS_AddElement
<1>3. Cardinality(Debt') <= Cardinality(S \cup {x})
  BY <1>2, FS_Subset
<1>4. Cardinality(S \cup {x}) \in Nat /\ Cardinality(S) \in Nat
  BY <1>1, <1>2, FS_CardinalityType
<1> HIDE DEF S
<1> QED
  BY <1>1, <1>2, <1>3, <1>4, TokensFinite
-----------------------------------------------------------------------------
(* Types.                                                                  *)

\* A handler answers or admits its own caller, about what was asked.
LEMMA HandlerShape ==
  ASSUME LeakType, NEW c \in Caller, Handle(c)
  PROVE  /\ \A d \in Caller : d # c => rpc'[d] = rpc[d]
         /\ rpc' \in [Caller -> Exchange]
         /\ rpc'[c].op = rpc[c].op /\ rpc'[c].node = rpc[c].node
         /\ rpc[c].stage \in {"sent", "admitted"} /\ rpc[c].op # "none" /\ rpc[c].node \in Node
         /\ rpc'[c].stage = "done" \/ (rpc'[c].stage = "admitted" /\ rpc[c].op = "create")
         /\ rpc[c].op = "create" /\ rpc'[c].reply # "ok" => rpc'[c].id = 0
         /\ mishaps' \in Nat /\ mishaps <= mishaps'
<1>1. rpc[c] \in Exchange /\ rpc \in [Caller -> Exchange] /\ mishaps \in Nat /\ born \in 0 .. MaxVm
  BY DEF LeakType, VmsType
<1>2. rpc[c].stage \in {"sent", "admitted"} /\ (rpc[c].stage = "admitted" => rpc[c].op = "create")
  BY <1>1 DEF Handle, Unreachable, Unauthorised, Admit, CreateVm, GetVm, DeleteVm, Served, LeakType
<1>3. rpc[c].op # "none" /\ rpc[c].node # 0
  BY <1>2 DEF LeakType
<1>4. rpc[c].node \in Node
  BY <1>1, <1>3 DEF Exchange
<1>5. mishaps' \in Nat /\ mishaps <= mishaps'
  BY <1>1 DEF Handle, Unreachable, Unauthorised, Admit, CreateVm, GetVm, DeleteVm, Mishap
<1>6. ASSUME NEW reply \in {"ok", "notfound", "error", "unreachable"}, NEW id \in 0 .. MaxVm,
             Reply(c, reply, id)
      PROVE  /\ rpc' \in [Caller -> Exchange]
             /\ \A d \in Caller : d # c => rpc'[d] = rpc[d]
             /\ rpc'[c].op = rpc[c].op /\ rpc'[c].node = rpc[c].node /\ rpc'[c].stage = "done"
             /\ rpc'[c].reply = reply /\ rpc'[c].id = id
  <2>1. rpc' = [rpc EXCEPT ![c] = [rpc[c] EXCEPT !.stage = "done", !.reply = reply, !.id = id]]
    BY <1>6, <1>1 DEF Reply, Exchange
  <2>2. [rpc[c] EXCEPT !.stage = "done", !.reply = reply, !.id = id] \in Exchange
    BY <1>1 DEF Exchange
  <2> QED
    BY <1>1, <2>1, <2>2 DEF Exchange
<1>7. \/ rpc' = [rpc EXCEPT ![c].stage = "admitted"] /\ rpc[c].op = "create"
      \/ \E reply \in {"ok", "notfound", "error", "unreachable"}, id \in 0 .. MaxVm :
           Reply(c, reply, id) /\ (rpc[c].op = "create" => reply = "ok" \/ id = 0)
  <2>0. rpc[c].id \in 0 .. MaxVm /\ 0 \in 0 .. MaxVm
    BY <1>1, DaemonAssumption DEF Exchange
  <2>1. CASE CreateVm(c)
    <3>1. born < MaxVm => born + 1 \in 0 .. MaxVm
      BY <1>1, DaemonAssumption
    <3> QED
      BY <2>0, <2>1, <3>1 DEF CreateVm
  <2>2. CASE GetVm(c)
    BY <2>0, <2>2 DEF GetVm, Served
  <2>3. CASE DeleteVm(c)
    BY <2>0, <2>3 DEF DeleteVm, Served
  <2>4. CASE Admit(c)
    BY <2>0, <2>4 DEF Admit, Served
  <2> QED
    BY <2>0, <2>1, <2>2, <2>3, <2>4 DEF Handle, Unreachable, Unauthorised
<1>8. CASE rpc' = [rpc EXCEPT ![c].stage = "admitted"] /\ rpc[c].op = "create"
  <2>1. rpc' = [rpc EXCEPT ![c] = [rpc[c] EXCEPT !.stage = "admitted"]]
    BY <1>8, <1>1 DEF Exchange
  <2>2. [rpc[c] EXCEPT !.stage = "admitted"] \in Exchange
    BY <1>1 DEF Exchange
  <2>3. /\ rpc' \in [Caller -> Exchange] /\ \A d \in Caller : d # c => rpc'[d] = rpc[d]
        /\ rpc'[c].op = rpc[c].op /\ rpc'[c].node = rpc[c].node /\ rpc'[c].stage = "admitted"
        /\ rpc'[c].reply = rpc[c].reply /\ rpc'[c].id = rpc[c].id
    BY <1>1, <2>1, <2>2 DEF Exchange
  <2>4. rpc[c].op = "create" /\ rpc'[c].reply # "ok" => rpc'[c].id = 0
    BY <2>3 DEF LeakType
  <2> QED
    BY <1>8, <2>3, <2>4, <1>2, <1>3, <1>4, <1>5
<1>9. CASE \E reply \in {"ok", "notfound", "error", "unreachable"}, id \in 0 .. MaxVm :
             Reply(c, reply, id) /\ (rpc[c].op = "create" => reply = "ok" \/ id = 0)
  BY <1>9, <1>6, <1>2, <1>3, <1>4, <1>5
<1> QED
  BY <1>7, <1>8, <1>9

\* A request is one that its caller may have.
LEMMA SendShape ==
  ASSUME LeakType, NEW c \in Caller, NEW op \in {"create", "get", "delete"}, NEW n \in Node,
         NEW id \in 0 .. MaxVm, NEW bearer \in BOOLEAN, Send(c, op, n, id, bearer)
  PROVE  /\ \A d \in Caller : d # c => rpc'[d] = rpc[d]
         /\ rpc' \in [Caller -> Exchange]
         /\ rpc'[c] = [stage |-> "sent", op |-> op, node |-> n, id |-> id,
                       bearer |-> bearer, reply |-> "none"]
<1>1. [stage |-> "sent", op |-> op, node |-> n, id |-> id, bearer |-> bearer, reply |-> "none"]
        \in Exchange
  BY DEF Exchange
<1> QED
  BY <1>1 DEF Send, LeakType

\* Hanging up leaves nothing in flight.
LEMMA HangUpShape ==
  ASSUME LeakType, NEW c \in Caller, HangUp(c)
  PROVE  /\ \A d \in Caller : d # c => rpc'[d] = rpc[d]
         /\ rpc' \in [Caller -> Exchange]
         /\ rpc'[c] = Quiet
<1>1. Quiet \in Exchange
  BY DaemonAssumption DEF Exchange, Quiet
<1> QED
  BY <1>1 DEF HangUp, LeakType
\* The exchanges stay what they may be.
CallsType ==
  /\ rpc \in [Caller -> Exchange]
  /\ \A c \in Caller :
       /\ rpc[c].stage = "idle" <=> rpc[c].op = "none"
       /\ rpc[c].stage # "idle" => rpc[c].node # 0
       /\ rpc[c].stage = "admitted" => rpc[c].op = "create"
       /\ rpc[c].op = "create" /\ rpc[c].reply # "ok" => rpc[c].id = 0

\* After a handler, a request, a hang-up.
LEMMA CallsSteps ==
  ASSUME LeakType, NEW c \in Caller
  PROVE  /\ Handle(c) => CallsType'
         /\ HangUp(c) => CallsType'
         /\ \A op \in {"create", "get", "delete"}, n \in Node, id \in 0 .. MaxVm, bearer \in BOOLEAN :
              (op = "create" => id = 0) /\ Send(c, op, n, id, bearer) => CallsType'
<1>1. ASSUME Handle(c) PROVE CallsType'
  BY <1>1, HandlerShape DEF CallsType, LeakType
<1>2. ASSUME HangUp(c) PROVE CallsType'
  BY <1>2, HangUpShape DEF CallsType, LeakType, Quiet
<1>3. ASSUME NEW op \in {"create", "get", "delete"}, NEW n \in Node, NEW id \in 0 .. MaxVm,
             NEW bearer \in BOOLEAN, op = "create" => id = 0, Send(c, op, n, id, bearer)
      PROVE  CallsType'
  <2>1. /\ \A d \in Caller : d # c => rpc'[d] = rpc[d]
        /\ rpc' \in [Caller -> Exchange]
        /\ rpc'[c] = [stage |-> "sent", op |-> op, node |-> n, id |-> id,
                      bearer |-> bearer, reply |-> "none"]
    BY <1>3, SendShape
  <2>2. /\ rpc'[c].stage = "sent" /\ rpc'[c].op # "none" /\ rpc'[c].node # 0
        /\ rpc'[c].op = "create" => rpc'[c].id = 0
    BY <1>3, <2>1, DaemonAssumption
  <2> QED
    BY <2>1, <2>2 DEF CallsType, LeakType
<1> QED
  BY <1>1, <1>2, <1>3

\* What the objects, the cached copies and the picks are.
ObjectsType ==
  cr \in [Cr -> CrObject] /\ cache \in [Cr -> CrObject] /\ pick \in [Cr -> Node \cup {0}]

\* Every step keeps the types.
LEMMA LeakTypeStep ==
  ASSUME LeakType, [Next]_vars
  PROVE  LeakType'
<1>0. VmsType'
  BY VmsStep DEF LeakType
<1>1. CallsType' /\ ObjectsType' /\ mishaps' \in Nat => LeakType'
  BY <1>0 DEF CallsType, ObjectsType, LeakType
<1>2. CallsType /\ ObjectsType /\ mishaps \in Nat
  BY DEF CallsType, ObjectsType, LeakType
<1>3. UNCHANGED rpc => CallsType'
  BY <1>2 DEF CallsType
<1>4. UNCHANGED kubeVars => ObjectsType'
  BY <1>2 DEF ObjectsType, kubeVars
<1>5. ASSUME UNCHANGED <<cr, cache, pick>> PROVE ObjectsType'
  BY <1>2, <1>5 DEF ObjectsType
<1>6. Mishap => mishaps' \in Nat
  BY <1>2 DEF Mishap
<1>7. \A same : FreshOr(same) => mishaps' \in Nat
  BY <1>2, <1>6 DEF FreshOr
<1>10. ASSUME NEW c \in Caller, Handle(c), UNCHANGED kubeVars PROVE LeakType'
  BY <1>1, <1>4, <1>10, CallsSteps, HandlerShape
<1>11. ASSUME NEW n \in Node, Expire(n) \/ StopDaemon(n) \/ StartDaemon(n), UNCHANGED kubeVars
       PROVE  LeakType'
  BY <1>1, <1>2, <1>3, <1>4, <1>11 DEF Expire, StopDaemon, StartDaemon
<1>12. ASSUME FleetNext, UNCHANGED kubeVars PROVE LeakType'
  <2>1. ASSUME NEW n \in Node, Beat(n) \/ Register(n) \/ BeatLost(n) PROVE LeakType'
    BY <1>1, <1>2, <1>3, <1>4, <1>6, <1>12, <2>1 DEF Beat, Register, BeatLost, daemonVars
  <2>2. CASE Tick
    BY <1>1, <1>2, <1>3, <1>4, <1>12, <2>2 DEF Tick, daemonVars
  <2>3. CASE StartCentral
    BY <1>1, <1>2, <1>3, <1>4, <1>6, <1>12, <2>3 DEF StartCentral
  <2>4. CASE CrashCentral
    <3>1. Creating \subseteq AllRequests /\ IsFiniteSet(AllRequests)
      <4> DEFINE f == [c \in FleetClient |-> FleetRequest(c)]
      <4>1. f \in Surjection(FleetClient, AllRequests)
        BY DEF AllRequests, Surjection
      <4>2. IsFiniteSet(AllRequests)
        BY <4>1, DaemonAssumption, FS_Surjection
      <4> QED
        BY <4>2 DEF Creating
    <3>2. Cardinality(Creating) \in Nat
      BY <3>1, FS_Subset, FS_CardinalityType
    <3>3. mishaps' \in Nat
      BY <1>2, <2>4, <3>2 DEF CrashCentral
    <3>4. CallsType'
      BY <1>2, <2>4, DaemonAssumption DEF CrashCentral, CallsType, Quiet, Exchange
    <3> QED
      BY <1>1, <1>4, <1>12, <3>3, <3>4
  <2>5. ASSUME NEW c \in FleetClient,
               PassOn(c) \/ CreateAnywhere(c) \/ \E n \in Node : CreateOn(c, n) \/ DeleteOn(c, n)
        PROVE  LeakType'
    <3>1. FleetRequest(c) \in Caller
      BY Callers
    <3>2. ASSUME PassOn(c) PROVE CallsType'
      BY <3>1, <3>2, CallsSteps DEF PassOn
    <3>3. 0 \in 0 .. MaxVm
      BY DaemonAssumption
    <3>4. ASSUME CreateAnywhere(c) \/ \E n \in Node : CreateOn(c, n) PROVE CallsType'
      <4>1. PICK n \in Node : Send(FleetRequest(c), "create", n, 0, FALSE)
        BY <3>4 DEF CreateAnywhere, CreateOn, Best
      <4> QED
        BY <3>1, <3>3, <4>1, CallsSteps
    <3>5. ASSUME NEW n \in Node, DeleteOn(c, n) PROVE CallsType'
      <4>1. FleetView(n) \subseteq 0 .. MaxVm
        <5>1. vms[n] \subseteq 0 .. MaxVm
          BY DaemonAssumption DEF LeakType, VmsType, Id
        <5> QED
          BY <5>1 DEF FleetView
      <4>2. PICK v \in 0 .. MaxVm : Send(FleetRequest(c), "delete", n, v, FALSE)
        BY <3>5, <4>1 DEF DeleteOn
      <4> QED
        BY <3>1, <4>2, CallsSteps
    <3>6. mishaps' = mishaps
      BY <2>5 DEF PassOn, CreateAnywhere, CreateOn, DeleteOn
    <3> QED
      BY <1>1, <1>2, <1>4, <1>12, <2>5, <3>2, <3>4, <3>5, <3>6
  <2> QED
    BY <1>12, <2>1, <2>2, <2>3, <2>4, <2>5 DEF FleetNext
<1>13. CASE KubeNext
  <2>0. /\ 0 \in 0 .. MaxVm /\ NoCr \in CrObject
    BY DaemonAssumption DEF NoCr, CrObject
  <2>1. ASSUME NEW k \in Cr, NEW n \in Node \cup {0}, CreateCr(k, n) PROVE LeakType'
    <3>1. [NoCr EXCEPT !.exists = TRUE, !.node = n] \in CrObject
      BY <2>0 DEF NoCr, CrObject
    <3> QED
      BY <1>1, <1>2, <1>3, <1>7, <2>1, <3>1 DEF CreateCr, ObjectsType
  <2>2. ASSUME NEW k \in Cr, DeleteCr(k) PROVE LeakType'
    <3>1. [cr[k] EXCEPT !.deleting = TRUE] \in CrObject
      BY <1>2 DEF ObjectsType, CrObject
    <3> QED
      BY <1>1, <1>2, <1>3, <2>0, <2>2, <3>1 DEF DeleteCr, ObjectsType, daemonVars
  <2>3. ASSUME NEW k \in Cr, WatchOperator(k) \/ WatchPlacer(k) PROVE LeakType'
    BY <1>1, <1>2, <1>3, <2>3 DEF WatchOperator, WatchPlacer, ObjectsType, daemonVars
  <2>4. ASSUME NEW k \in Cr, AddFinalizer(k) PROVE LeakType'
    <3>1. [cr[k] EXCEPT !.finalizer = TRUE] \in CrObject
      BY <1>2 DEF ObjectsType, CrObject
    <3> QED
      BY <1>1, <1>2, <1>3, <1>7, <2>4, <3>1 DEF AddFinalizer, Reconciles, ObjectsType
  <2>5. ASSUME NEW k \in Cr, Apply(k) PROVE LeakType'
    <3>1. cache[k].node \in Node /\ cache[k].vm \in 0 .. MaxVm
      BY <1>2, <2>5 DEF Apply, Reconciles, ObjectsType, CrObject
    <3>2. CallsType'
      BY <2>5, <3>1, Callers, CallsSteps DEF Apply
    <3> QED
      BY <1>1, <1>4, <1>7, <2>5, <3>2 DEF Apply, Reconciles
  <2>6. ASSUME NEW k \in Cr, NEW vm \in 0 .. MaxVm, PatchStatus(k, vm)
        PROVE  cr' \in [Cr -> CrObject]
    <3>1. [cr[k] EXCEPT !.vm = vm] \in CrObject
      BY <1>2 DEF ObjectsType, CrObject
    <3> QED
      BY <1>2, <2>6, <3>1 DEF PatchStatus, ObjectsType
  <2>7. ASSUME NEW k \in Cr, RecordCreated(k) PROVE LeakType'
    <3>1. rpc[Operator(k)].id \in 0 .. MaxVm
      BY <1>2, Callers DEF CallsType, Exchange
    <3>2. cr' \in [Cr -> CrObject]
      BY <1>2, <2>0, <2>6, <2>7, <3>1 DEF RecordCreated, ObjectsType
    <3>3. CallsType'
      BY <2>7, Callers, CallsSteps DEF RecordCreated
    <3> QED
      BY <1>1, <1>2, <1>6, <2>7, <3>2, <3>3 DEF RecordCreated, ObjectsType
  <2>8. ASSUME NEW k \in Cr, Refresh(k) PROVE LeakType'
    <3>2. cr' \in [Cr -> CrObject]
      BY <1>2, <2>0, <2>6, <2>8 DEF Refresh, ObjectsType
    <3>3. CallsType'
      BY <2>8, Callers, CallsSteps DEF Refresh
    <3> QED
      BY <1>1, <1>2, <2>8, <3>2, <3>3 DEF Refresh, ObjectsType
  <2>9. ASSUME NEW k \in Cr, RemoveFinalizer(k) PROVE cr' \in [Cr -> CrObject]
    BY <1>2, <2>0, <2>9 DEF RemoveFinalizer, ObjectsType
  <2>10. ASSUME NEW k \in Cr, Cleanup(k) PROVE LeakType'
    <3>1. cache[k].node \in Node /\ cache[k].vm \in 0 .. MaxVm
      BY <1>2, <2>10 DEF Cleanup, Reconciles, ObjectsType, CrObject
    <3>2. CallsType'
      BY <1>3, <2>10, <3>1, Callers, CallsSteps DEF Cleanup
    <3>3. cr' \in [Cr -> CrObject]
      BY <1>2, <2>9, <2>10 DEF Cleanup, ObjectsType
    <3> QED
      BY <1>1, <1>2, <1>7, <2>10, <3>2, <3>3 DEF Cleanup, Reconciles, ObjectsType
  <2>11. ASSUME NEW k \in Cr, CleanedUp(k) PROVE LeakType'
    <3>2. cr' \in [Cr -> CrObject]
      BY <1>2, <2>9, <2>11 DEF CleanedUp, ObjectsType
    <3>3. CallsType'
      BY <2>11, Callers, CallsSteps DEF CleanedUp
    <3> QED
      BY <1>1, <1>2, <2>11, <3>2, <3>3 DEF CleanedUp, ObjectsType
  <2>12. ASSUME NEW k \in Cr, PickNode(k) PROVE LeakType'
    BY <1>1, <1>2, <1>3, <1>7, <2>12, KubeAssumption DEF PickNode, ObjectsType
  <2>13. ASSUME NEW k \in Cr, Place(k) PROVE LeakType'
    <3>1. [cr[k] EXCEPT !.node = pick[k]] \in CrObject
      BY <1>2 DEF ObjectsType, CrObject
    <3> QED
      BY <1>1, <1>2, <1>3, <2>13, <3>1 DEF Place, ObjectsType, daemonVars
  <2>14. ASSUME NEW n \in Node, CrashOperator(n) PROVE LeakType'
    <3> DEFINE lost == {c \in {Operator(k) : k \in Cr} : rpc[c].node = n}
    <3>1. IsFiniteSet({Operator(k) : k \in Cr})
      <4> DEFINE f == [k \in Cr |-> Operator(k)]
      <4>1. f \in Surjection(Cr, {Operator(k) : k \in Cr})
        BY DEF Surjection
      <4> QED
        BY <4>1, DaemonAssumption, FS_Surjection
    <3>2. Cardinality(lost) \in Nat
      BY <3>1, FS_Subset, FS_CardinalityType
    <3>3. mishaps' = mishaps + Cardinality(lost)
      BY <2>14 DEF CrashOperator
    <3>4. mishaps' \in Nat
      <4> HIDE DEF lost
      <4> QED
        BY <1>2, <3>2, <3>3
    <3>5. rpc' = [c \in Caller |-> IF c \in lost THEN Quiet ELSE rpc[c]]
      BY <2>14 DEF CrashOperator
    <3>6. CallsType'
      <4> HIDE DEF lost
      <4> QED
        BY <1>2, <3>5, DaemonAssumption DEF CallsType, Quiet, Exchange
    <3> QED
      BY <1>1, <1>4, <2>14, <3>4, <3>6 DEF CrashOperator
  <2> QED
    BY <1>13, <2>1, <2>2, <2>3, <2>4, <2>5, <2>7, <2>8, <2>10, <2>11, <2>12, <2>13, <2>14 DEF KubeNext
<1>14. CASE UNCHANGED vars
  BY <1>1, <1>2, <1>3, <1>4, <1>14 DEF vars, daemonVars
<1> QED
  BY <1>10, <1>11, <1>12, <1>13, <1>14 DEF Next, DaemonNext
-----------------------------------------------------------------------------
(* The finalizer guards the object while a reconcile creates.              *)

\* A step that leaves the object and its copy alone and begins no reconcile.
LEMMA GuardKept ==
  ASSUME NEW k \in Cr, Guarding(k), cr'[k] = cr[k], cache'[k] = cache[k],
         rpc'[Operator(k)].op \in {rpc[Operator(k)].op, "none"}
  PROVE  Guarding(k)'
BY DEF Guarding

\* Steps on one object leave the others' exchanges alone.
LEMMA OthersAlone ==
  ASSUME LeakType, NEW j \in Cr, NEW k \in Cr, j # k,
         UNCHANGED rpc \/ HangUp(Operator(j))
           \/ \E op, n, id, bearer : Send(Operator(j), op, n, id, bearer)
  PROVE  rpc'[Operator(k)] = rpc[Operator(k)]
BY Callers DEF LeakType, HangUp, Send

\* Handlers, the registry and crashes begin no reconcile.
LEMMA CallsOnly ==
  ASSUME LeakType, NEW k \in Cr,
         \/ DaemonNext \/ FleetNext \/ \E n \in Node : CrashOperator(n)
  PROVE  rpc'[Operator(k)].op \in {rpc[Operator(k)].op, "none"}
<1>0. Operator(k) \in Caller /\ \A c \in FleetClient : FleetRequest(c) # Operator(k) /\ FleetRequest(c) \in Caller
  BY Callers
<1>1. ASSUME NEW c \in Caller, Handle(c) PROVE rpc'[Operator(k)].op = rpc[Operator(k)].op
  BY <1>0, <1>1, HandlerShape
<1>2. ASSUME NEW n \in Node, Expire(n) \/ StopDaemon(n) \/ StartDaemon(n) PROVE rpc' = rpc
  BY <1>2 DEF Expire, StopDaemon, StartDaemon
<1>3. ASSUME FleetNext PROVE rpc'[Operator(k)].op \in {rpc[Operator(k)].op, "none"}
  <2>1. CASE CrashCentral
    BY <1>0, <2>1 DEF CrashCentral, Quiet
  <2>2. ASSUME NEW c \in FleetClient,
               PassOn(c) \/ CreateAnywhere(c) \/ \E n \in Node : CreateOn(c, n) \/ DeleteOn(c, n)
        PROVE  rpc'[Operator(k)] = rpc[Operator(k)]
    <3>1. \/ HangUp(FleetRequest(c))
          \/ \E op, n, id, bearer : Send(FleetRequest(c), op, n, id, bearer)
      BY <2>2 DEF PassOn, CreateAnywhere, CreateOn, DeleteOn
    <3> QED
      BY <1>0, <3>1 DEF HangUp, Send, LeakType
  <2> QED
    BY <1>3, <2>1, <2>2 DEF FleetNext, Beat, Register, BeatLost, Tick, StartCentral, daemonVars
<1>4. ASSUME NEW n \in Node, CrashOperator(n) PROVE rpc'[Operator(k)].op \in {rpc[Operator(k)].op, "none"}
  BY <1>0, <1>4 DEF CrashOperator, Quiet
<1> QED
  BY <1>1, <1>2, <1>3, <1>4 DEF DaemonNext

\* What the operator and the placer do to one object.
KubeStep(k) ==
  \/ \E n \in Node \cup {0} : CreateCr(k, n)
  \/ DeleteCr(k) \/ WatchOperator(k) \/ WatchPlacer(k)
  \/ AddFinalizer(k) \/ Apply(k) \/ RecordCreated(k) \/ Refresh(k)
  \/ Cleanup(k) \/ CleanedUp(k)
  \/ PickNode(k) \/ Place(k)

\* It leaves every other object alone.
LEMMA KubeFrame ==
  ASSUME LeakType, NEW j \in Cr, KubeStep(j), NEW k \in Cr, j # k
  PROVE  /\ cr'[k] = cr[k] /\ cache'[k] = cache[k] /\ pick'[k] = pick[k]
         /\ rpc'[Operator(k)] = rpc[Operator(k)]
<1>1. rpc'[Operator(k)] = rpc[Operator(k)]
  <2>1. \/ UNCHANGED rpc \/ HangUp(Operator(j))
        \/ \E op, n, id, bearer : Send(Operator(j), op, n, id, bearer)
    BY DEF KubeStep, CreateCr, DeleteCr, WatchOperator, WatchPlacer, AddFinalizer, Apply,
           RecordCreated, Refresh, Cleanup, CleanedUp, PickNode, Place, daemonVars
  <2> QED
    BY <2>1, OthersAlone
<1>2. cr'[k] = cr[k] /\ cache'[k] = cache[k] /\ pick'[k] = pick[k]
  BY DEF KubeStep, CreateCr, DeleteCr, WatchOperator, WatchPlacer, AddFinalizer, Apply,
         RecordCreated, Refresh, Cleanup, CleanedUp, PickNode, Place, daemonVars, kubeVars,
         PatchStatus, RemoveFinalizer, LeakType
<1> QED
  BY <1>1, <1>2

\* The object acted on stays guarded.
LEMMA GuardingOwn ==
  ASSUME LeakType, NEW k \in Cr, Guarding(k), KubeStep(k)
  PROVE  Guarding(k)'
<1>0. /\ cr \in [Cr -> CrObject] /\ cache \in [Cr -> CrObject] /\ rpc \in [Caller -> Exchange]
      /\ cr[k] \in CrObject /\ cache[k] \in CrObject
      /\ pick \in [Cr -> Node \cup {0}] /\ Operator(k) \in Caller
  BY Callers DEF LeakType
<1>1. ASSUME NEW n \in Node \cup {0}, CreateCr(k, n) PROVE Guarding(k)'
  BY <1>0, <1>1 DEF CreateCr, NoCr, Guarding, CrObject
<1>2. CASE DeleteCr(k)
  BY <1>0, <1>2 DEF DeleteCr, NoCr, Guarding, CrObject, daemonVars
<1>3. CASE WatchOperator(k)
  BY <1>0, <1>3 DEF WatchOperator, Guarding, CrObject, daemonVars
<1>4. CASE WatchPlacer(k)
  BY <1>0, <1>4, GuardKept DEF WatchPlacer, daemonVars
<1>5. CASE AddFinalizer(k)
  BY <1>0, <1>5 DEF AddFinalizer, Reconciles, Quiet, Guarding, CrObject
<1>6. CASE Apply(k)
  <2>1. rpc'[Operator(k)].op \in {"create", "get"}
    BY <1>0, <1>6 DEF Apply, Send
  <2> QED
    BY <1>0, <1>6, <2>1, DaemonAssumption DEF Apply, Reconciles, Guarding, CrObject, kubeVars
<1>7. ASSUME RecordCreated(k) \/ Refresh(k) PROVE Guarding(k)'
  <2>1. rpc'[Operator(k)].op = "none"
    BY <1>0, <1>7 DEF RecordCreated, Refresh, HangUp, Quiet
  <2>2. cr[k].finalizer /\ cr[k].node # 0
    BY <1>7 DEF RecordCreated, Refresh, Answered, Guarding
  <2>3. cache' = cache /\ (cr' = cr \/ \E vm : PatchStatus(k, vm))
    BY <1>7 DEF RecordCreated, Refresh
  <2>4. cr'[k].exists = cr[k].exists /\ cr'[k].node = cr[k].node
        /\ cr'[k].finalizer = cr[k].finalizer /\ cr'[k].deleting = cr[k].deleting
    BY <1>0, <2>3 DEF PatchStatus, CrObject
  <2> QED
    BY <1>0, <2>1, <2>2, <2>3, <2>4 DEF Guarding
<1>8. CASE Cleanup(k)
  <2>1. CASE cache[k].vm = 0
    <3>1. UNCHANGED <<rpc, cache>> /\ RemoveFinalizer(k) /\ rpc[Operator(k)] = Quiet /\ cache[k].deleting
      BY <1>8, <2>1 DEF Cleanup, Reconciles
    <3> QED
      BY <1>0, <3>1 DEF RemoveFinalizer, NoCr, Guarding, CrObject, Quiet
  <2>2. CASE cache[k].vm # 0
    <3>1. UNCHANGED <<cr, cache>> /\ cache[k].deleting
      BY <1>8, <2>2 DEF Cleanup
    <3>2. rpc'[Operator(k)].op = "delete"
      BY <1>0, <1>8, <2>2 DEF Cleanup, Send
    <3> QED
      BY <1>0, <3>1, <3>2 DEF Guarding, CrObject
  <2> QED
    BY <2>1, <2>2
<1>9. CASE CleanedUp(k)
  <2>1. rpc'[Operator(k)].op = "none" /\ rpc[Operator(k)].op = "delete" /\ cache' = cache
    BY <1>0, <1>9 DEF CleanedUp, HangUp, Quiet, Answered
  <2>2. cr' = cr \/ RemoveFinalizer(k)
    BY <1>9 DEF CleanedUp
  <2> QED
    BY <1>0, <2>1, <2>2 DEF RemoveFinalizer, NoCr, Guarding, CrObject
<1>10. CASE PickNode(k)
  BY <1>10, GuardKept DEF PickNode
<1>11. CASE Place(k)
  BY <1>0, <1>11 DEF Place, Guarding, CrObject, daemonVars
<1> QED
  BY <1>1, <1>2, <1>3, <1>4, <1>5, <1>6, <1>7, <1>8, <1>9, <1>10, <1>11 DEF KubeStep

\* Every step keeps the objects guarded.
LEMMA GuardingStep ==
  ASSUME LeakType, AllGuarding, [Next]_vars
  PROVE  AllGuarding'
<1> SUFFICES ASSUME NEW k \in Cr PROVE Guarding(k)'
  BY DEF AllGuarding
<1>0. Guarding(k)
  BY DEF AllGuarding
<1>1. ASSUME (DaemonNext /\ UNCHANGED kubeVars) \/ (FleetNext /\ UNCHANGED kubeVars)
             \/ \E n \in Node : CrashOperator(n)
      PROVE  Guarding(k)'
  <2>1. cr' = cr /\ cache' = cache
    BY <1>1 DEF CrashOperator, kubeVars
  <2> QED
    BY <1>0, <1>1, <2>1, CallsOnly, GuardKept
<1>2. ASSUME NEW j \in Cr, KubeStep(j) PROVE Guarding(k)'
  <2>1. CASE j = k
    BY <1>0, <1>2, <2>1, GuardingOwn
  <2>2. CASE j # k
    BY <1>0, <1>2, <2>2, KubeFrame, GuardKept
  <2> QED
    BY <2>1, <2>2
<1>3. CASE UNCHANGED vars
  BY <1>0, <1>3, GuardKept DEF vars, daemonVars, kubeVars
<1>4. KubeNext => (\E j \in Cr : KubeStep(j)) \/ \E n \in Node : CrashOperator(n)
  BY DEF KubeNext, KubeStep
<1> QED
  BY <1>1, <1>2, <1>3, <1>4 DEF Next
-----------------------------------------------------------------------------
(* Ids are given out once.                                                 *)

\* VMs go, except that a create brings one with the next id.
VmsGo == born' = born /\ \A n \in Node : vms'[n] \subseteq vms[n]

VmComes(c) ==
  /\ CreateVm(c) /\ born' = born + 1
  /\ rpc[c].node \in Node
  /\ vms'[rpc[c].node] = vms[rpc[c].node] \cup {born + 1}
  /\ \A n \in Node : n # rpc[c].node => vms'[n] = vms[n]

LEMMA VmsShape ==
  ASSUME LeakType, [Next]_vars
  PROVE  VmsGo \/ \E c \in Caller : VmComes(c)
<1>0. vms \in [Node -> SUBSET Id] /\ (UNCHANGED <<vms, born>> => VmsGo)
  BY DEF LeakType, VmsType, VmsGo
<1>1. ASSUME NEW c \in Caller, Handle(c) PROVE VmsGo \/ VmComes(c)
  <2>1. CASE CreateVm(c)
    <3>1. rpc[c].node \in Node
      BY <1>1, HandlerShape
    <3> QED
      BY <1>0, <2>1, <3>1 DEF CreateVm, VmComes
  <2>2. CASE DeleteVm(c)
    BY <1>0, <2>2 DEF DeleteVm, VmsGo
  <2> QED
    BY <1>0, <1>1, <2>1, <2>2 DEF Handle, Unreachable, Unauthorised, Admit, GetVm
<1>2. ASSUME NEW n \in Node, Expire(n) \/ StopDaemon(n) \/ StartDaemon(n) PROVE VmsGo
  BY <1>0, <1>2 DEF Expire, StopDaemon, StartDaemon, VmsGo
<1>3. ASSUME FleetNext PROVE VmsGo
  BY <1>0, <1>3 DEF FleetNext, Beat, Register, BeatLost, Tick, CrashCentral, StartCentral, PassOn,
                    CreateAnywhere, CreateOn, DeleteOn, daemonVars
<1>4. ASSUME KubeNext PROVE VmsGo
  BY <1>0, <1>4 DEF KubeNext, CreateCr, DeleteCr, WatchOperator, WatchPlacer, AddFinalizer, Apply,
                    RecordCreated, Refresh, Cleanup, CleanedUp, PickNode, Place, CrashOperator, daemonVars
<1> QED
  BY <1>0, <1>1, <1>2, <1>3, <1>4 DEF Next, DaemonNext, vars, daemonVars

\* An exchange is about no VM, one that its caller knew of, or the new one.
LEMMA IdsKnown ==
  ASSUME LeakType, Fresh, [Next]_vars
  PROVE  /\ \A c \in Caller : rpc'[c].id <= born'
         /\ \A k \in Cr : cr'[k].vm <= born' /\ cache'[k].vm <= born'
<1>0. /\ born \in Nat /\ born' \in Nat /\ born <= born'
      /\ rpc \in [Caller -> Exchange] /\ cr \in [Cr -> CrObject] /\ cache \in [Cr -> CrObject]
  BY VmsShape DEF LeakType, VmsType, VmsGo, VmComes
<1>1. /\ \A c \in Caller : rpc[c].id \in Nat /\ rpc[c].id <= born
      /\ \A k \in Cr : cr[k].vm \in Nat /\ cr[k].vm <= born
      /\ \A k \in Cr : cache[k].vm \in Nat /\ cache[k].vm <= born
  BY <1>0 DEF Fresh, Exchange, CrObject
<1>2. ASSUME NEW c \in Caller, rpc'[c].id \in {0, rpc[c].id} PROVE rpc'[c].id <= born'
  BY <1>0, <1>1, <1>2
<1>3. ASSUME UNCHANGED rpc PROVE \A c \in Caller : rpc'[c].id <= born'
  BY <1>2, <1>3
<1>4. ASSUME UNCHANGED <<cr, cache>> PROVE \A k \in Cr : cr'[k].vm <= born' /\ cache'[k].vm <= born'
  BY <1>0, <1>1, <1>4
<1>5. ASSUME NEW c \in Caller, NEW op, NEW n, NEW id \in Nat, NEW bearer,
             Send(c, op, n, id, bearer), id <= born
      PROVE  \A d \in Caller : rpc'[d].id <= born'
  BY <1>0, <1>1, <1>5 DEF Send
<1>6. ASSUME NEW c \in Caller, HangUp(c) PROVE \A d \in Caller : rpc'[d].id <= born'
  BY <1>0, <1>1, <1>6 DEF HangUp, Quiet
<1>10. ASSUME NEW c \in Caller, Handle(c), UNCHANGED kubeVars
       PROVE  (\A d \in Caller : rpc'[d].id <= born')
  <2>1. ASSUME NEW d \in Caller, d # c PROVE rpc'[d].id <= born'
    BY <1>2, <1>10, <2>1, HandlerShape
  <2>2. rpc'[c].id \in {0, rpc[c].id} \/ (rpc'[c].id = born + 1 /\ born' = born + 1)
    <3>1. ASSUME NEW reply, NEW id, Reply(c, reply, id) PROVE rpc'[c].id = id
      BY <1>0, <3>1 DEF Reply, Exchange
    <3>2. CASE Admit(c)
      BY <1>0, <3>1, <3>2 DEF Admit, Exchange
    <3>3. CASE CreateVm(c)
      BY <3>1, <3>3 DEF CreateVm
    <3>4. CASE GetVm(c)
      BY <3>1, <3>4 DEF GetVm
    <3>5. CASE DeleteVm(c)
      BY <3>1, <3>5 DEF DeleteVm
    <3> QED
      BY <1>10, <3>1, <3>2, <3>3, <3>4, <3>5 DEF Handle, Unreachable, Unauthorised
  <2>3. rpc'[c].id <= born'
    BY <1>0, <1>2, <2>2
  <2> QED
    BY <2>1, <2>3
<1>11. ASSUME NEW n \in Node, Expire(n) \/ StopDaemon(n) \/ StartDaemon(n) PROVE UNCHANGED rpc
  BY <1>11 DEF Expire, StopDaemon, StartDaemon
<1>12. ASSUME FleetNext PROVE \A d \in Caller : rpc'[d].id <= born'
  <2>1. CASE CrashCentral
    BY <1>0, <1>1, <2>1 DEF CrashCentral, Quiet
  <2>2. ASSUME NEW c \in FleetClient, PassOn(c) PROVE \A d \in Caller : rpc'[d].id <= born'
    BY <1>6, <2>2, Callers DEF PassOn
  <2>3. ASSUME NEW c \in FleetClient, NEW n \in Node, CreateAnywhere(c) \/ CreateOn(c, n) \/ DeleteOn(c, n)
        PROVE  \A d \in Caller : rpc'[d].id <= born'
    <3>1. FleetView(n) \subseteq Nat /\ \A v \in FleetView(n) : v <= born
      <4>1. vms[n] \subseteq Nat /\ \A v \in vms[n] : v <= born
        BY DaemonAssumption DEF Fresh, LeakType, VmsType, Id
      <4> QED
        BY <4>1 DEF FleetView
    <3>2. PICK op, m, id, bearer : Send(FleetRequest(c), op, m, id, bearer) /\ id \in Nat /\ id <= born
      <4>1. 0 \in Nat /\ 0 <= born
        BY <1>0
      <4>2. CASE CreateAnywhere(c)
        BY <4>1, <4>2 DEF CreateAnywhere
      <4>3. CASE CreateOn(c, n)
        BY <4>1, <4>3 DEF CreateOn
      <4>4. CASE DeleteOn(c, n)
        BY <3>1, <4>4 DEF DeleteOn
      <4> QED
        BY <2>3, <4>2, <4>3, <4>4
    <3> QED
      BY <1>0, <1>1, <3>2, Callers DEF Send
  <2>4. ASSUME NEW c \in FleetClient, CreateAnywhere(c) PROVE \A d \in Caller : rpc'[d].id <= born'
    BY <2>3, <2>4 DEF CreateAnywhere, Best
  <2> QED
    BY <1>3, <1>12, <2>1, <2>2, <2>3, <2>4
       DEF FleetNext, Beat, Register, BeatLost, Tick, StartCentral, daemonVars
<1>13. ASSUME NEW k \in Cr, KubeStep(k)
       PROVE  /\ \A d \in Caller : rpc'[d].id <= born'
              /\ cr'[k].vm <= born' /\ cache'[k].vm <= born'
  <2>1. \/ UNCHANGED rpc \/ HangUp(Operator(k))
        \/ \E op, n, bearer : Send(Operator(k), op, n, cache[k].vm, bearer)
    BY <1>13 DEF KubeStep, CreateCr, DeleteCr, WatchOperator, WatchPlacer, AddFinalizer, Apply,
           RecordCreated, Refresh, Cleanup, CleanedUp, PickNode, Place, daemonVars
  <2>2. \A d \in Caller : rpc'[d].id <= born'
    BY <1>1, <1>3, <1>5, <1>6, <2>1, Callers
  <2>3. cr'[k].vm \in {0, cr[k].vm, rpc[Operator(k)].id}
    <3>1. ASSUME NEW vm, PatchStatus(k, vm) PROVE cr'[k].vm \in {vm, cr[k].vm}
      BY <1>0, <3>1 DEF PatchStatus, CrObject
    <3>2. ASSUME RecordCreated(k) \/ Refresh(k) PROVE cr'[k].vm \in {0, cr[k].vm, rpc[Operator(k)].id}
      BY <3>1, <3>2 DEF RecordCreated, Refresh
    <3>3. ASSUME RemoveFinalizer(k) PROVE cr'[k].vm \in {0, cr[k].vm}
      BY <1>0, <3>3 DEF RemoveFinalizer, NoCr
    <3>4. ASSUME Cleanup(k) \/ CleanedUp(k) PROVE cr'[k].vm \in {0, cr[k].vm}
      BY <3>3, <3>4 DEF Cleanup, CleanedUp
    <3>5. ASSUME DeleteCr(k) \/ AddFinalizer(k) \/ Place(k) PROVE cr'[k].vm \in {0, cr[k].vm}
      BY <1>0, <3>5 DEF DeleteCr, AddFinalizer, Place, NoCr, CrObject
    <3>6. ASSUME NEW n, CreateCr(k, n) PROVE cr'[k].vm = 0
      BY <1>0, <3>6 DEF CreateCr, NoCr
    <3> QED
      BY <1>13, <3>2, <3>4, <3>5, <3>6 DEF KubeStep, WatchOperator, WatchPlacer, Apply, PickNode, kubeVars
  <2>4. cache'[k].vm \in {cache[k].vm, cr[k].vm}
    BY <1>0, <1>13 DEF KubeStep, CreateCr, DeleteCr, WatchOperator, WatchPlacer, AddFinalizer, Apply,
           RecordCreated, Refresh, Cleanup, CleanedUp, PickNode, Place, kubeVars
  <2>5. cr'[k].vm <= born'
    BY <1>0, <1>1, <2>3, Callers
  <2>6. cache'[k].vm <= born'
    BY <1>0, <1>1, <2>4
  <2> QED
    BY <2>2, <2>5, <2>6
<1>14. ASSUME NEW n \in Node, CrashOperator(n) PROVE \A d \in Caller : rpc'[d].id <= born'
  BY <1>0, <1>1, <1>14 DEF CrashOperator, Quiet
<1>15. ASSUME NEW j \in Cr, KubeStep(j) PROVE \A k \in Cr : cr'[k].vm <= born' /\ cache'[k].vm <= born'
  <2>1. ASSUME NEW k \in Cr, k # j PROVE cr'[k].vm <= born' /\ cache'[k].vm <= born'
    BY <1>0, <1>1, <1>15, <2>1, KubeFrame
  <2> QED
    BY <1>13, <1>15, <2>1
<1>16. KubeNext => (\E j \in Cr : KubeStep(j)) \/ \E n \in Node : CrashOperator(n)
  BY DEF KubeNext, KubeStep
<1>17. ASSUME NEW n \in Node, CrashOperator(n) PROVE UNCHANGED <<cr, cache>>
  BY <1>17 DEF CrashOperator, kubeVars
<1>18. CASE KubeNext
  BY <1>4, <1>13, <1>14, <1>15, <1>16, <1>17, <1>18
<1>19. CASE DaemonNext /\ UNCHANGED kubeVars
  <2>1. UNCHANGED <<cr, cache>>
    BY <1>19 DEF kubeVars
  <2> QED
    BY <1>3, <1>4, <1>10, <1>11, <1>19, <2>1 DEF DaemonNext
<1>20. CASE FleetNext /\ UNCHANGED kubeVars
  BY <1>4, <1>12, <1>20 DEF kubeVars
<1>21. CASE UNCHANGED vars
  BY <1>3, <1>4, <1>21 DEF vars, daemonVars, kubeVars
<1> QED
  BY <1>18, <1>19, <1>20, <1>21 DEF Next

\* Every step keeps ids unique.
LEMMA FreshStep ==
  ASSUME LeakType, Fresh, [Next]_vars
  PROVE  Fresh'
<1>0. born \in Nat /\ vms \in [Node -> SUBSET Id] /\ Id \subseteq Nat
  BY DaemonAssumption DEF LeakType, VmsType, Id
<1>1. CASE VmsGo
  <2>1. \A n \in Node : \A v \in vms'[n] : v <= born'
    BY <1>1 DEF VmsGo, Fresh
  <2>2. \A m, n \in Node : \A v \in Id : v \in vms'[m] /\ v \in vms'[n] => m = n
    BY <1>1 DEF VmsGo, Fresh
  <2> QED
    BY <2>1, <2>2, IdsKnown DEF Fresh
<1>2. ASSUME NEW c \in Caller, VmComes(c) PROVE Fresh'
  <2>1. \A n \in Node : vms'[n] \subseteq vms[n] \cup {born + 1}
    BY <1>2 DEF VmComes
  <2>2. \A n \in Node : \A v \in vms[n] : v <= born /\ v \in Nat
    BY <1>0 DEF Fresh
  <2>3. \A n \in Node : \A v \in vms'[n] : v <= born'
    <3>1. born' = born + 1
      BY <1>2 DEF VmComes
    <3>2. SUFFICES ASSUME NEW n \in Node, NEW v \in vms'[n] PROVE v <= born'
      OBVIOUS
    <3>3. v \in vms[n] \/ v = born + 1
      BY <2>1
    <3>4. CASE v \in vms[n]
      BY <1>0, <2>2, <3>1, <3>4
    <3> QED
      BY <1>0, <3>1, <3>3, <3>4
  <2>4. \A n \in Node : born + 1 \notin vms[n]
    BY <1>0, <2>2
  <2>5. \A m, n \in Node : \A v \in Id : v \in vms'[m] /\ v \in vms'[n] => m = n
    <3>1. \A m, n \in Node : \A v \in Id : v \in vms[m] /\ v \in vms[n] => m = n
      BY DEF Fresh
    <3>2. \A n \in Node : \A v : v \in vms'[n] => v \in vms[n] \/ (v = born + 1 /\ n = rpc[c].node)
      BY <1>2 DEF VmComes
    <3> QED
      BY <2>4, <3>1, <3>2
  <2> QED
    BY <2>3, <2>5, IdsKnown DEF Fresh
<1> QED
  BY <1>1, <1>2, VmsShape
-----------------------------------------------------------------------------
(* What a step adds to the debt.                                           *)

\* A new VM is not one that an object names already.
LEMMA HoldingKept ==
  ASSUME LeakType, Fresh, [Next]_vars, NEW k \in Cr, cr'[k] = cr[k], Holding(k)'
  PROVE  Holding(k)
<1>1. cr[k].node \in Node /\ cr[k].vm \in vms'[cr[k].node]
  BY DEF Holding
<1>2. cr[k].vm \in Nat /\ born \in Nat /\ cr[k].vm <= born
  BY DEF LeakType, VmsType, CrObject, Fresh
<1>3. cr[k].vm # born + 1
  BY <1>2
<1>4. cr[k].vm \in vms[cr[k].node]
  BY <1>1, <1>3, VmsShape DEF VmsGo, VmComes
<1> QED
  BY <1>1, <1>4 DEF Holding

\* A handler: a false "not found" and a failed create are what it counts.
LEMMA HandlerDebt ==
  ASSUME LeakInv, NEW c \in Caller, Handle(c), [Next]_vars, UNCHANGED <<cr, cache, pick, told>>
  PROVE  Cardinality(Debt') <= mishaps'
<1> DEFINE x == <<"vm", rpc[c].node, IF rpc[c].op = "create" THEN born + 1 ELSE rpc[c].id>>
           X == IF mishaps' = mishaps THEN {} ELSE {x}
<1>0. /\ LeakType /\ Fresh /\ mishaps \in Nat /\ born \in Nat
      /\ rpc \in [Caller -> Exchange] /\ vms \in [Node -> SUBSET Id]
  BY DEF LeakInv, LeakType, VmsType
<1>1. /\ \A d \in Caller : d # c => rpc'[d] = rpc[d]
      /\ rpc'[c].op = rpc[c].op /\ rpc'[c].node = rpc[c].node
      /\ rpc[c].stage \in {"sent", "admitted"} /\ rpc[c].node \in Node
      /\ rpc'[c].stage = "done" \/ (rpc'[c].stage = "admitted" /\ rpc[c].op = "create")
      /\ mishaps' \in Nat /\ mishaps <= mishaps'
  BY <1>0, HandlerShape
<1>2. mishaps' = mishaps \/ mishaps' = mishaps + 1
  BY DEF Handle, Unreachable, Unauthorised, Admit, CreateVm, GetVm, DeleteVm, Mishap
<1>3. ASSUME NEW reply, NEW id, Reply(c, reply, id)
      PROVE  rpc'[c].reply = reply /\ rpc'[c].id = id /\ rpc'[c].stage = "done"
  BY <1>0, <1>3 DEF Reply, Exchange
<1>4. ASSUME NEW n \in Node, NEW v \in Id, v \in vms'[n], v \notin vms[n]
      PROVE  Secure(n, v)' \/ <<"vm", n, v>> \in X
  <2>1. CreateVm(c) /\ v = born + 1 /\ n = rpc[c].node
    <3>1. CASE CreateVm(c)
      BY <1>0, <1>1, <1>4, <3>1 DEF CreateVm
    <3>2. CASE DeleteVm(c)
      BY <1>0, <1>4, <3>2 DEF DeleteVm
    <3> QED
      BY <1>4, <3>1, <3>2 DEF Handle, Unreachable, Unauthorised, Admit, GetVm
  <2>2. rpc[c].op = "create"
    BY <1>0, <2>1 DEF CreateVm, LeakType
  <2>3. CASE mishaps' = mishaps
    <3>1. Reply(c, "ok", born + 1)
      BY <1>0, <1>4, <2>1, <2>3 DEF CreateVm, Mishap
    <3>2. Brings(c, n, v)'
      BY <1>1, <1>3, <2>1, <2>2, <3>1 DEF Brings, Answered
    <3> QED
      BY <3>2 DEF Secure
  <2>4. CASE mishaps' # mishaps
    BY <2>1, <2>2, <2>4
  <2> QED
    BY <2>3, <2>4
<1>5. ASSUME NEW n \in Node, NEW v \in Id, v \in vms'[n], NEW k \in Cr, c = Operator(k),
             Names(k, n, v), ~Drops(k), Drops(k)'
      PROVE  <<"vm", n, v>> \in X
  <2>1. rpc[c].op # "create"
    BY <1>5 DEF Drops
  <2>2. rpc[c].stage = "sent" /\ rpc'[c].stage = "done"
    BY <1>0, <1>1, <2>1 DEF LeakType
  <2>3. rpc[c].op \in {"get", "delete"}
    BY <1>1, <1>5, <2>1 DEF Drops
  <2>4. rpc[c].id = v /\ rpc[c].node = n
    BY <1>5, <2>2, <2>3 DEF Drops, Misses, Names
  <2>5. rpc'[c].reply \in {"ok", "notfound"} /\ (rpc[c].op = "get" => rpc'[c].reply = "notfound")
    BY <1>1, <1>5, <2>2, <2>3 DEF Drops
  <2>6. ASSUME mishaps' = mishaps PROVE FALSE
    <3>1. CASE GetVm(c)
      <4>1. v \in vms[n] /\ rpc[c].op = "get"
        BY <1>5, <3>1 DEF GetVm, Served
      <4>2. Reply(c, "ok", v)
        BY <1>0, <2>4, <2>6, <3>1, <4>1 DEF GetVm, Mishap
      <4> QED
        BY <1>3, <2>5, <4>1, <4>2
    <3>2. CASE DeleteVm(c)
      <4>1. vms' = [vms EXCEPT ![n] = @ \ {v}]
        BY <1>0, <2>4, <2>6, <3>2 DEF DeleteVm, Mishap
      <4> QED
        BY <1>0, <1>5, <4>1
    <3>3. CASE Unreachable(c) \/ Unauthorised(c)
      BY <1>3, <2>5, <3>3 DEF Unreachable, Unauthorised
    <3> QED
      BY <2>1, <2>2, <3>1, <3>2, <3>3 DEF Handle, Admit, CreateVm, Served
  <2> QED
    BY <2>1, <2>4, <2>6
<1> HIDE DEF x, X
<1>6. ASSUME NEW n \in Node, NEW v \in Id, v \in vms'[n], ~Secure(n, v)'
      PROVE  (v \in vms[n] /\ ~Secure(n, v)) \/ <<"vm", n, v>> \in X
  <2>1. CASE v \notin vms[n]
    BY <1>4, <1>6, <2>1
  <2>2. ASSUME Secure(n, v) PROVE <<"vm", n, v>> \in X
    <3>1. CASE v \in told
      BY <1>6, <3>1 DEF Secure
    <3>2. ASSUME NEW d \in Caller, Brings(d, n, v) PROVE FALSE
      <4>1. d # c
        BY <1>1, <3>2 DEF Brings, Answered
      <4>2. Brings(d, n, v)'
        BY <1>1, <3>2, <4>1 DEF Brings, Answered
      <4> QED
        BY <1>6, <3>2, <4>2 DEF Secure
    <3>3. ASSUME NEW k \in Cr, Names(k, n, v), ~Drops(k) PROVE <<"vm", n, v>> \in X
      <4>1. Names(k, n, v)'
        BY <3>3 DEF Names
      <4>2. Drops(k)'
        BY <1>6, <4>1 DEF Secure
      <4>3. CASE c = Operator(k)
        BY <1>5, <1>6, <3>3, <4>2, <4>3
      <4>4. CASE c # Operator(k)
        <5>1. rpc'[Operator(k)] = rpc[Operator(k)]
          BY <1>1, <4>4, Callers
        <5>2. Drops(k)' <=> Drops(k)
          BY <5>1 DEF Drops, Misses
        <5> QED
          BY <3>3, <4>2, <5>2
      <4> QED
        BY <4>3, <4>4
    <3> QED
      BY <2>2, <3>1, <3>2, <3>3 DEF Secure
  <2> QED
    BY <2>1, <2>2
<1>7. ASSUME NEW k \in Cr, Skewed(k)' PROVE Skewed(k)
  <2>1. rpc'[Operator(k)].op = rpc[Operator(k)].op /\ rpc'[Operator(k)].node = rpc[Operator(k)].node
    BY <1>1, Callers
  <2>2. Estranged(k)' <=> Estranged(k)
    BY DEF Estranged
  <2>3. Holding(k)' => Holding(k)
    BY <1>0, HoldingKept
  <2> QED
    BY <1>7, <2>1, <2>2, <2>3 DEF Skewed
<1>8. \A k \in Cr : Astray(k)' => Astray(k)
  BY DEF Astray
<1>9. Debt' \subseteq Debt \cup X
  BY <1>6, <1>7, <1>8, Within
<1>10. Cardinality(Debt) <= mishaps
  BY DEF LeakInv
<1>11. CASE mishaps' = mishaps
  <2>1. Debt' \subseteq Debt
    BY <1>9, <1>11 DEF X
  <2> QED
    BY <1>0, <1>1, <1>10, <2>1, NothingOwed
<1>12. CASE mishaps' = mishaps + 1
  <2>1. Debt' \subseteq Debt \cup {x}
    BY <1>9 DEF X
  <2> QED
    BY <1>0, <1>10, <1>12, <2>1, OneOwed
<1> QED
  BY <1>2, <1>11, <1>12

\* A step that leaves the operator's side alone: what requests have brought is
\* still brought, or passed on, or paid for.
LEMMA FleetSide ==
  ASSUME LeakInv, [Next]_vars, VmsGo, UNCHANGED <<cr, cache, pick>>, NEW X,
         \A k \in Cr : rpc'[Operator(k)] = rpc[Operator(k)],
         told \subseteq told',
         \A c \in FleetClient, n \in Node, v \in Id :
           Brings(FleetRequest(c), n, v) =>
             Brings(FleetRequest(c), n, v)' \/ v \in told' \/ <<"vm", n, v>> \in X
  PROVE  Debt' \subseteq Debt \cup X
<1>0. LeakType /\ Fresh
  BY DEF LeakInv
<1>1. ASSUME NEW n \in Node, NEW v \in Id, v \in vms'[n], ~Secure(n, v)'
      PROVE  (v \in vms[n] /\ ~Secure(n, v)) \/ <<"vm", n, v>> \in X
  <2>1. v \in vms[n]
    BY <1>1 DEF VmsGo
  <2>2. ASSUME Secure(n, v) PROVE <<"vm", n, v>> \in X
    <3>1. v \notin told /\ v \notin told'
      BY <1>1 DEF Secure
    <3>2. ASSUME NEW k \in Cr, Names(k, n, v), ~Drops(k) PROVE FALSE
      <4>1. Names(k, n, v)' /\ ~Drops(k)'
        BY <3>2 DEF Names, Drops, Misses
      <4> QED
        BY <1>1, <4>1 DEF Secure
    <3>3. ASSUME NEW c \in Caller, Brings(c, n, v) PROVE <<"vm", n, v>> \in X
      <4>1. ASSUME NEW k \in Cr, c = Operator(k) PROVE FALSE
        <5>1. Brings(c, n, v)'
          BY <3>3, <4>1 DEF Brings, Answered
        <5> QED
          BY <1>1, <5>1 DEF Secure
      <4>2. ASSUME NEW f \in FleetClient, c = FleetRequest(f) PROVE <<"vm", n, v>> \in X
        <5>1. ~Brings(c, n, v)'
          BY <1>1 DEF Secure
        <5> QED
          BY <3>1, <3>3, <4>2, <5>1
      <4> QED
        BY <4>1, <4>2, Callers
    <3> QED
      BY <2>2, <3>1, <3>2, <3>3 DEF Secure
  <2> QED
    BY <2>1, <2>2
<1>2. ASSUME NEW k \in Cr, Skewed(k)' PROVE Skewed(k)
  <2>1. Estranged(k)' <=> Estranged(k)
    BY DEF Estranged
  <2>2. Holding(k)' => Holding(k)
    BY <1>0, HoldingKept
  <2> QED
    BY <1>2, <2>1, <2>2 DEF Skewed
<1>3. \A k \in Cr : Astray(k)' => Astray(k)
  BY DEF Astray
<1> QED
  BY <1>1, <1>2, <1>3, Within
\* The tokens of what a set of callers was brought: one at most for each.
BroughtBy(S) == {<<"vm", rpc[c].node, rpc[c].id>> : c \in S}

LEMMA BroughtByFinite ==
  ASSUME NEW S, IsFiniteSet(S)
  PROVE  /\ IsFiniteSet(BroughtBy(S)) /\ Cardinality(BroughtBy(S)) <= Cardinality(S)
         /\ Cardinality(BroughtBy(S)) \in Nat /\ Cardinality(S) \in Nat
<1> DEFINE f == [c \in S |-> <<"vm", rpc[c].node, rpc[c].id>>]
<1>1. f \in Surjection(S, BroughtBy(S))
  BY DEF Surjection, BroughtBy
<1>2. IsFiniteSet(BroughtBy(S)) /\ Cardinality(BroughtBy(S)) <= Cardinality(S)
  BY <1>1, FS_Surjection
<1> QED
  BY <1>2, FS_CardinalityType

\* The callers of each kind are finitely many.
LEMMA CallersFinite == IsFiniteSet(AllRequests) /\ IsFiniteSet({Operator(k) : k \in Cr})
<1> DEFINE f == [c \in FleetClient |-> FleetRequest(c)]
           g == [k \in Cr |-> Operator(k)]
<1>1. f \in Surjection(FleetClient, AllRequests) /\ g \in Surjection(Cr, {Operator(k) : k \in Cr})
  BY DEF AllRequests, Surjection
<1> QED
  BY <1>1, DaemonAssumption, FS_Surjection

\* The registry and the nodes' own steps: only a crash of the central loses
\* what its requests have brought, and it counts them.
LEMMA FleetDebt ==
  ASSUME LeakInv, [Next]_vars, UNCHANGED <<cr, cache, pick>>,
         \/ FleetNext
         \/ \E n \in Node : (Expire(n) \/ StopDaemon(n) \/ StartDaemon(n)) /\ UNCHANGED told
  PROVE  Cardinality(Debt') <= mishaps'
<1>0. /\ LeakType /\ Fresh /\ mishaps \in Nat /\ mishaps' \in Nat /\ Cardinality(Debt) <= mishaps
      /\ rpc \in [Caller -> Exchange]
  BY LeakTypeStep DEF LeakInv, LeakType
<1>1. ASSUME VmsGo, UNCHANGED <<rpc, told>>, mishaps' = mishaps \/ Mishap
      PROVE  Cardinality(Debt') <= mishaps'
  <2>1. \A c \in FleetClient, n \in Node, v \in Id :
          Brings(FleetRequest(c), n, v) => Brings(FleetRequest(c), n, v)'
    BY <1>1 DEF Brings, Answered
  <2>2. Debt' \subseteq Debt
    <3>1. Debt' \subseteq Debt \cup {}
      BY <1>1, <2>1, FleetSide
    <3> QED
      BY <3>1
  <2>3. mishaps <= mishaps'
    BY <1>0, <1>1 DEF Mishap
  <2> QED
    BY <1>0, <2>2, <2>3, NothingOwed
<1>2. ASSUME FleetNext PROVE VmsGo
  BY <1>2 DEF FleetNext, Beat, Register, BeatLost, Tick, CrashCentral, StartCentral, PassOn,
              CreateAnywhere, CreateOn, DeleteOn, daemonVars, VmsGo
<1>3. ASSUME NEW n \in Node, Expire(n) \/ StopDaemon(n) \/ StartDaemon(n), UNCHANGED told
      PROVE  Cardinality(Debt') <= mishaps'
  <2>1. VmsGo /\ UNCHANGED <<rpc, mishaps>>
    BY <1>0, <1>3 DEF Expire, StopDaemon, StartDaemon, VmsGo, LeakType, VmsType
  <2> QED
    BY <1>1, <1>3, <2>1
<1>4. ASSUME NEW n \in Node, Beat(n) \/ Register(n) \/ BeatLost(n), VmsGo PROVE Cardinality(Debt') <= mishaps'
  BY <1>1, <1>4 DEF Beat, Register, BeatLost, daemonVars
<1>5. ASSUME Tick \/ StartCentral, VmsGo PROVE Cardinality(Debt') <= mishaps'
  BY <1>1, <1>5 DEF Tick, StartCentral, daemonVars
<1>6. ASSUME NEW c \in FleetClient, VmsGo,
             PassOn(c) \/ CreateAnywhere(c) \/ \E n \in Node : CreateOn(c, n) \/ DeleteOn(c, n)
      PROVE  Cardinality(Debt') <= mishaps'
  <2>0. FleetRequest(c) \in Caller /\ \A k \in Cr : Operator(k) \in Caller /\ Operator(k) # FleetRequest(c)
    BY Callers
  <2>1. \A d \in Caller : d # FleetRequest(c) => rpc'[d] = rpc[d]
    <3>1. \/ HangUp(FleetRequest(c))
          \/ \E op, n, id, bearer : Send(FleetRequest(c), op, n, id, bearer)
      BY <1>6 DEF PassOn, CreateAnywhere, CreateOn, DeleteOn
    <3> QED
      BY <1>0, <3>1 DEF HangUp, Send
  <2>2. ASSUME NEW n \in Node, NEW v \in Id, Brings(FleetRequest(c), n, v) PROVE v \in told'
    <3>1. PassOn(c)
      <4>1. rpc[FleetRequest(c)].stage # "idle"
        BY <2>2 DEF Brings, Answered
      <4>2. rpc[FleetRequest(c)] # Quiet
        BY <4>1 DEF Quiet
      <4>3. ~CreateAnywhere(c)
        BY <4>2 DEF CreateAnywhere
      <4>4. \A m \in Node : ~CreateOn(c, m) /\ ~DeleteOn(c, m)
        BY <4>2 DEF CreateOn, DeleteOn
      <4> QED
        BY <1>6, <4>3, <4>4
    <3>2. rpc[FleetRequest(c)].id = v /\ v # 0
      BY <2>2, DaemonAssumption DEF Brings, Id
    <3>3. rpc[FleetRequest(c)].op = "create" /\ rpc[FleetRequest(c)].reply = "ok"
      BY <1>0, <2>0, <2>2, <3>2 DEF Brings, Answered, LeakType
    <3> QED
      BY <3>1, <3>2, <3>3 DEF PassOn
  <2>3. told \subseteq told' /\ mishaps' = mishaps
    BY <1>6 DEF PassOn, CreateAnywhere, CreateOn, DeleteOn, fleetVars
  <2>4. ASSUME NEW f \in FleetClient, NEW n \in Node, NEW v \in Id, Brings(FleetRequest(f), n, v)
        PROVE  Brings(FleetRequest(f), n, v)' \/ v \in told'
    <3>1. CASE FleetRequest(f) = FleetRequest(c)
      BY <2>2, <2>4, <3>1
    <3>2. CASE FleetRequest(f) # FleetRequest(c)
      BY <2>1, <2>4, <3>2, Callers DEF Brings, Answered
    <3> QED
      BY <3>1, <3>2
  <2>5. \A k \in Cr : rpc'[Operator(k)] = rpc[Operator(k)]
    BY <2>0, <2>1
  <2>6. Debt' \subseteq Debt \cup {}
    BY <1>6, <2>3, <2>4, <2>5, FleetSide
  <2> QED
    BY <1>0, <2>3, <2>6, NothingOwed
<1>7. ASSUME CrashCentral, VmsGo PROVE Cardinality(Debt') <= mishaps'
  <2> DEFINE X == BroughtBy(Creating)
             x == Cardinality(X)
             y == Cardinality(Creating)
  <2>1. IsFiniteSet(Creating)
    BY CallersFinite, FS_Subset DEF Creating
  <2>2. IsFiniteSet(X) /\ x <= y /\ x \in Nat /\ y \in Nat
    BY <2>1, BroughtByFinite
  <2>3. mishaps' = mishaps + y
    BY <1>7 DEF CrashCentral
  <2>4. ASSUME NEW c \in FleetClient, NEW n \in Node, NEW v \in Id, Brings(FleetRequest(c), n, v)
        PROVE  <<"vm", n, v>> \in X
    <3>1. FleetRequest(c) \in Creating
      BY <2>4 DEF Brings, Answered, Creating, AllRequests
    <3> QED
      BY <2>4, <3>1 DEF Brings, BroughtBy
  <2>5. \A k \in Cr : rpc'[Operator(k)] = rpc[Operator(k)]
    BY <1>7, Callers DEF CrashCentral, AllRequests
  <2>6. told' = told
    BY <1>7 DEF CrashCentral
  <2> HIDE DEF X
  <2>7. Debt' \subseteq Debt \cup X
    BY <1>7, <2>4, <2>5, <2>6, FleetSide
  <2> HIDE DEF y
  <2>8. mishaps + Cardinality(X) <= mishaps'
    <3> HIDE DEF x
    <3>1. mishaps + x <= mishaps'
      BY <1>0, <2>2, <2>3
    <3> QED
      BY <3>1 DEF x
  <2> QED
    BY <1>0, <2>2, <2>7, <2>8, OwedAsCounted
<1> QED
  BY <1>2, <1>3, <1>4, <1>5, <1>6, <1>7 DEF FleetNext

\* A crash of an operator loses what its reconciles have brought, and counts
\* them all.
LEMMA CrashDebt ==
  ASSUME LeakInv, [Next]_vars, NEW n \in Node, CrashOperator(n), UNCHANGED told
  PROVE  Cardinality(Debt') <= mishaps'
<1> DEFINE lost == {c \in {Operator(k) : k \in Cr} : rpc[c].node = n}
           X == BroughtBy(lost)
           x == Cardinality(X)
           y == Cardinality(lost)
<1>0. /\ LeakType /\ Fresh /\ mishaps \in Nat /\ mishaps' \in Nat /\ Cardinality(Debt) <= mishaps
      /\ UNCHANGED <<cr, cache, pick, vms>>
  BY LeakTypeStep DEF LeakInv, LeakType, CrashOperator, kubeVars
<1>1. IsFiniteSet(lost)
  BY CallersFinite, FS_Subset
<1>2. IsFiniteSet(X) /\ x <= y /\ x \in Nat /\ y \in Nat
  BY <1>1, BroughtByFinite
<1>3. mishaps' = mishaps + y /\ \A c \in Caller : rpc'[c] = IF c \in lost THEN Quiet ELSE rpc[c]
  BY DEF CrashOperator
<1>4. \A c : c \in lost => <<"vm", rpc[c].node, rpc[c].id>> \in X
  BY DEF BroughtBy
<1> HIDE DEF lost, X
<1>5. ASSUME NEW m \in Node, NEW v \in Id, v \in vms'[m], ~Secure(m, v)'
      PROVE  (v \in vms[m] /\ ~Secure(m, v)) \/ <<"vm", m, v>> \in X
  <2>1. v \in vms[m]
    BY <1>0, <1>5
  <2>2. ASSUME Secure(m, v) PROVE <<"vm", m, v>> \in X
    <3>1. v \notin told
      BY <1>5 DEF Secure
    <3>2. ASSUME NEW k \in Cr, Names(k, m, v), ~Drops(k) PROVE FALSE
      <4>1. Names(k, m, v)'
        BY <1>0, <3>2 DEF Names
      <4>2. rpc'[Operator(k)] = Quiet \/ rpc'[Operator(k)] = rpc[Operator(k)]
        BY <1>3, Callers
      <4>3. ~Drops(k)'
        BY <1>0, <3>2, <4>2 DEF Drops, Misses, Quiet
      <4> QED
        BY <1>5, <4>1, <4>3 DEF Secure
    <3>3. ASSUME NEW c \in Caller, Brings(c, m, v) PROVE <<"vm", m, v>> \in X
      <4>1. CASE c \in lost
        BY <1>4, <3>3, <4>1 DEF Brings
      <4>2. CASE c \notin lost
        <5>1. Brings(c, m, v)'
          BY <1>3, <3>3, <4>2 DEF Brings, Answered
        <5> QED
          BY <1>5, <5>1 DEF Secure
      <4> QED
        BY <4>1, <4>2
    <3> QED
      BY <2>2, <3>1, <3>2, <3>3 DEF Secure
  <2> QED
    BY <2>1, <2>2
<1>6. ASSUME NEW k \in Cr, Skewed(k)' PROVE Skewed(k)
  <2>1. (Estranged(k)' <=> Estranged(k)) /\ (Holding(k)' <=> Holding(k))
    BY <1>0 DEF Estranged, Holding
  <2>2. rpc'[Operator(k)] = Quiet \/ rpc'[Operator(k)] = rpc[Operator(k)]
    BY <1>3, Callers
  <2>3. CASE rpc'[Operator(k)] = rpc[Operator(k)]
    BY <1>0, <1>6, <2>1, <2>3 DEF Skewed
  <2>4. CASE rpc'[Operator(k)] = Quiet
    BY <1>6, <2>1, <2>4 DEF Skewed, Quiet
  <2> QED
    BY <2>2, <2>3, <2>4
<1>7. \A k \in Cr : Astray(k)' => Astray(k)
  BY <1>0 DEF Astray
<1>8. Debt' \subseteq Debt \cup X
  BY <1>5, <1>6, <1>7, Within
<1> HIDE DEF y
<1>9. mishaps + Cardinality(X) <= mishaps'
  <2> HIDE DEF x
  <2>1. mishaps + x <= mishaps'
    BY <1>0, <1>2, <1>3
  <2> QED
    BY <2>1 DEF x
<1> QED
  BY <1>0, <1>2, <1>8, <1>9, OwedAsCounted
\* A step on one object: what its object and its reconcile know of is still
\* known of, or paid for.
LEMMA KubeWithin ==
  ASSUME LeakType, NEW k \in Cr, KubeStep(k), UNCHANGED told, NEW X,
         \A n \in Node, v \in Id :
           v \in vms[n] /\ ((Names(k, n, v) /\ ~Drops(k)) \/ Brings(Operator(k), n, v)) =>
             \/ Names(k, n, v)' /\ ~Drops(k)'
             \/ Brings(Operator(k), n, v)'
             \/ <<"vm", n, v>> \in X,
         Skewed(k)' => Skewed(k) \/ <<"skew", k, 0>> \in X,
         Astray(k)' => Astray(k) \/ <<"pick", k, 0>> \in X
  PROVE  Debt' \subseteq Debt \cup X
<1>0. vms' = vms
  BY DEF KubeStep, CreateCr, DeleteCr, WatchOperator, WatchPlacer, AddFinalizer, Apply,
         RecordCreated, Refresh, Cleanup, CleanedUp, PickNode, Place, daemonVars
<1>1. ASSUME NEW j \in Cr, j # k
      PROVE  /\ cr'[j] = cr[j] /\ cache'[j] = cache[j] /\ pick'[j] = pick[j]
             /\ rpc'[Operator(j)] = rpc[Operator(j)]
  BY <1>1, KubeFrame
<1>2. \A c \in FleetClient : rpc'[FleetRequest(c)] = rpc[FleetRequest(c)]
  <2>1. \/ UNCHANGED rpc \/ HangUp(Operator(k))
        \/ \E op, n, id, bearer : Send(Operator(k), op, n, id, bearer)
    BY DEF KubeStep, CreateCr, DeleteCr, WatchOperator, WatchPlacer, AddFinalizer, Apply,
           RecordCreated, Refresh, Cleanup, CleanedUp, PickNode, Place, daemonVars
  <2> QED
    BY <2>1, Callers DEF LeakType, HangUp, Send
<1>3. ASSUME NEW n \in Node, NEW v \in Id, v \in vms'[n], ~Secure(n, v)'
      PROVE  (v \in vms[n] /\ ~Secure(n, v)) \/ <<"vm", n, v>> \in X
  <2>1. v \in vms[n]
    BY <1>0, <1>3
  <2>2. ASSUME Secure(n, v) PROVE <<"vm", n, v>> \in X
    <3>1. v \notin told
      BY <1>3 DEF Secure
    <3>2. ~(Names(k, n, v)' /\ ~Drops(k)') /\ ~Brings(Operator(k), n, v)'
      BY <1>3, Callers DEF Secure
    <3>3. ASSUME NEW j \in Cr, Names(j, n, v), ~Drops(j) PROVE <<"vm", n, v>> \in X
      <4>1. CASE j = k
        BY <2>1, <3>2, <3>3, <4>1
      <4>2. CASE j # k
        <5>1. Names(j, n, v)' /\ ~Drops(j)'
          BY <1>1, <3>3, <4>2 DEF Names, Drops, Misses
        <5> QED
          BY <1>3, <5>1 DEF Secure
      <4> QED
        BY <4>1, <4>2
    <3>4. ASSUME NEW c \in Caller, Brings(c, n, v) PROVE <<"vm", n, v>> \in X
      <4>1. CASE c = Operator(k)
        BY <2>1, <3>2, <3>4, <4>1
      <4>2. CASE c # Operator(k)
        <5>1. rpc'[c] = rpc[c]
          BY <1>1, <1>2, <4>2, Callers
        <5>2. Brings(c, n, v)'
          BY <3>4, <5>1 DEF Brings, Answered
        <5> QED
          BY <1>3, <5>2 DEF Secure
      <4> QED
        BY <4>1, <4>2
    <3> QED
      BY <2>2, <3>1, <3>3, <3>4 DEF Secure
  <2> QED
    BY <2>1, <2>2
<1>4. ASSUME NEW j \in Cr, Skewed(j)' PROVE Skewed(j) \/ <<"skew", j, 0>> \in X
  <2>1. CASE j # k
    BY <1>0, <1>1, <1>4, <2>1 DEF Skewed, Holding, Estranged
  <2> QED
    BY <1>4, <2>1
<1>5. ASSUME NEW j \in Cr, Astray(j)' PROVE Astray(j) \/ <<"pick", j, 0>> \in X
  <2>1. CASE j # k
    BY <1>1, <1>5, <2>1 DEF Astray
  <2> QED
    BY <1>5, <2>1
<1> QED
  BY <1>3, <1>4, <1>5, Within

\* What an object names, as a token.
NamedBy(k) == <<"vm", cr[k].node, cr[k].vm>>

\* Steps of the users, the watches and the finalizer: only a name used again
\* while the placer means the last object is owed for.
LEMMA ObjectDebt ==
  ASSUME LeakInv, NEW k \in Cr, KubeStep(k), UNCHANGED told, mishaps' \in Nat,
         \/ \E n \in Node \cup {0} : CreateCr(k, n)
         \/ DeleteCr(k) \/ WatchOperator(k) \/ WatchPlacer(k) \/ AddFinalizer(k)
  PROVE  Cardinality(Debt') <= mishaps'
<1>0. /\ LeakType /\ Guarding(k) /\ mishaps \in Nat /\ Cardinality(Debt) <= mishaps
      /\ cr \in [Cr -> CrObject] /\ cr[k] \in CrObject /\ cache \in [Cr -> CrObject]
      /\ vms \in [Node -> SUBSET Id] /\ 0 \notin Id /\ 0 \notin Node
  BY DaemonAssumption DEF LeakInv, LeakType, AllGuarding, VmsType, Id
<1>1. UNCHANGED <<rpc, vms>>
  BY DEF CreateCr, DeleteCr, WatchOperator, WatchPlacer, AddFinalizer, daemonVars
<1>2. \A n \in Node, v \in Id : Brings(Operator(k), n, v)' <=> Brings(Operator(k), n, v)
  BY <1>1 DEF Brings, Answered
<1>3. mishaps <= mishaps' /\ (mishaps' = mishaps \/ mishaps' = mishaps + 1)
  <2>1. mishaps' = mishaps \/ Mishap
    BY DEF CreateCr, DeleteCr, WatchOperator, WatchPlacer, AddFinalizer, Reconciles, FreshOr,
           daemonVars
  <2> QED
    BY <1>0, <2>1 DEF Mishap
<1>4. ASSUME Debt' \subseteq Debt PROVE Cardinality(Debt') <= mishaps'
  BY <1>0, <1>3, <1>4, NothingOwed
<1>5. ASSUME \/ \E n \in Node \cup {0} : CreateCr(k, n)
             \/ DeleteCr(k) /\ ~cr[k].finalizer
      PROVE  /\ \A n \in Node, v \in Id : ~Names(k, n, v)
             /\ ~Skewed(k)'
  <2>1. cr[k].exists => cr[k].vm = 0
    BY <1>0, <1>5 DEF CreateCr, Guarding
  <2>2. cr'[k].vm = 0
    <3>1. CASE DeleteCr(k) /\ ~cr[k].finalizer
      BY <1>0, <3>1 DEF DeleteCr, NoCr
    <3>2. ASSUME NEW n \in Node \cup {0}, CreateCr(k, n) PROVE cr'[k].vm = 0
      BY <1>0, <3>2 DEF CreateCr, NoCr
    <3> QED
      BY <1>5, <3>1, <3>2
  <2>3. rpc[Operator(k)].op \notin {"create", "get"}
    BY <1>0, <1>5 DEF CreateCr, Guarding
  <2>4. ~Holding(k)'
    BY <1>0, <1>1, <2>2 DEF Holding
  <2> QED
    BY <1>0, <1>1, <2>1, <2>3, <2>4 DEF Skewed, Names
<1>6. ASSUME NEW n \in Node \cup {0}, CreateCr(k, n) PROVE Cardinality(Debt') <= mishaps'
  <2>1. CASE pick[k] = 0
    <3>1. ~Astray(k)'
      BY <1>6, <2>1 DEF Astray, CreateCr
    <3>2. Debt' \subseteq Debt \cup {}
      BY <1>0, <1>2, <1>5, <1>6, <3>1, KubeWithin
    <3> QED
      BY <1>4, <3>2
  <2>2. CASE pick[k] # 0
    <3>1. Debt' \subseteq Debt \cup {<<"pick", k, 0>>}
      BY <1>0, <1>2, <1>5, <1>6, KubeWithin
    <3>2. mishaps' = mishaps + 1
      BY <1>6, <2>2 DEF CreateCr, FreshOr, Mishap
    <3> QED
      BY <1>0, <3>1, <3>2, OneOwed
  <2> QED
    BY <2>1, <2>2
<1>7. CASE DeleteCr(k) /\ ~cr[k].finalizer
  <2>1. ~Astray(k)'
    BY <1>0, <1>7 DEF Astray, DeleteCr, NoCr
  <2>2. Debt' \subseteq Debt \cup {}
    BY <1>0, <1>2, <1>5, <1>7, <2>1, KubeWithin
  <2> QED
    BY <1>4, <2>2
<1>8. ASSUME (DeleteCr(k) /\ cr[k].finalizer) \/ WatchPlacer(k) \/ AddFinalizer(k)
      PROVE  Cardinality(Debt') <= mishaps'
  <2>1. /\ cr'[k].exists = cr[k].exists /\ cr'[k].node = cr[k].node /\ cr'[k].vm = cr[k].vm
        /\ UNCHANGED <<cache, pick>>
    BY <1>0, <1>8 DEF DeleteCr, WatchPlacer, AddFinalizer, CrObject
  <2>2. \A n \in Node, v \in Id : Names(k, n, v)' <=> Names(k, n, v)
    BY <2>1 DEF Names
  <2>3. Drops(k)' <=> Drops(k)
    BY <1>1, <2>1 DEF Drops, Misses
  <2>4. Skewed(k)' => Skewed(k)
    BY <1>1, <2>1 DEF Skewed, Holding, Estranged
  <2>5. Astray(k)' => Astray(k)
    BY <2>1 DEF Astray
  <2>6. Debt' \subseteq Debt \cup {}
    BY <1>0, <1>2, <2>2, <2>3, <2>4, <2>5, KubeWithin
  <2> QED
    BY <1>4, <2>6
<1>9. CASE WatchOperator(k)
  <2>1. cache'[k] = cr[k] /\ UNCHANGED <<cr, pick>>
    BY <1>0, <1>9 DEF WatchOperator
  <2>2. \A n \in Node, v \in Id : Names(k, n, v)' <=> Names(k, n, v)
    BY <2>1 DEF Names
  <2>3. Drops(k)' <=> Drops(k)
    BY <1>1, <2>1 DEF Drops, Misses
  <2>4. ~Estranged(k)'
    BY <2>1 DEF Estranged
  <2>5. Skewed(k)' => Skewed(k)
    BY <1>1, <2>1, <2>4 DEF Skewed
  <2>6. Astray(k)' => Astray(k)
    BY <2>1 DEF Astray
  <2>7. Debt' \subseteq Debt \cup {}
    BY <1>0, <1>2, <2>2, <2>3, <2>5, <2>6, KubeWithin
  <2> QED
    BY <1>4, <2>7
<1> QED
  BY <1>6, <1>7, <1>8, <1>9
\* The beginning of a reconcile: on a stale copy it may owe for the VM that
\* the object names, or for the one that it creates on another node.
LEMMA BeginDebt ==
  ASSUME LeakInv, NEW k \in Cr, KubeStep(k), UNCHANGED told, mishaps' \in Nat,
         Apply(k) \/ Cleanup(k)
  PROVE  Cardinality(Debt') <= mishaps'
<1> DEFINE o == Operator(k)
<1>0. /\ LeakType /\ Guarding(k) /\ mishaps \in Nat /\ Cardinality(Debt) <= mishaps
      /\ cr \in [Cr -> CrObject] /\ cr[k] \in CrObject /\ cache[k] \in CrObject
      /\ rpc \in [Caller -> Exchange] /\ o \in Caller
      /\ vms \in [Node -> SUBSET Id] /\ 0 \notin Id /\ 0 \notin Node
  BY DaemonAssumption, Callers DEF LeakInv, LeakType, AllGuarding, VmsType, Id
<1>1. /\ UNCHANGED <<vms, cache, pick>>
      /\ rpc[o] = Quiet /\ cache[k].node \in Node /\ FreshOr(cache[k] = cr[k])
      /\ cache[k].finalizer
  BY DEF Apply, Cleanup, Reconciles, kubeVars
<1>2. rpc[o].op = "none" /\ \A n \in Node, v \in Id : ~Brings(o, n, v)
  BY <1>1 DEF Quiet, Brings, Answered
<1>3. ASSUME NEW x, Debt' \subseteq Debt \cup {x}, cache[k] = cr[k] => Debt' \subseteq Debt
      PROVE  Cardinality(Debt') <= mishaps'
  <2>1. CASE cache[k] = cr[k]
    <3>1. mishaps <= mishaps'
      BY <1>0, <1>1, <2>1 DEF FreshOr
    <3> QED
      BY <1>0, <1>3, <2>1, <3>1, NothingOwed
  <2>2. CASE cache[k] # cr[k]
    <3>1. mishaps' = mishaps + 1
      BY <1>1, <2>2 DEF FreshOr, Mishap
    <3> QED
      BY <1>0, <1>3, <3>1, OneOwed
  <2> QED
    BY <2>1, <2>2
<1>4. \A n \in Node, v \in Id : Names(k, n, v) => <<"vm", n, v>> = NamedBy(k)
  BY DEF Names, NamedBy
<1>5. ASSUME NEW op, NEW n \in Node, NEW id, Send(o, op, n, id, TRUE)
      PROVE  /\ rpc'[o].op = op /\ rpc'[o].node = n /\ rpc'[o].id = id /\ rpc'[o].stage = "sent"
  BY <1>0, <1>5 DEF Send
<1>6. CASE Apply(k) /\ cache[k].vm = 0
  <2>1. rpc'[o].op = "create" /\ rpc'[o].node = cache[k].node /\ UNCHANGED cr /\ ~cache[k].deleting
    BY <1>1, <1>5, <1>6 DEF Apply, kubeVars
  <2>2. Astray(k)' => Astray(k)
    BY <1>1, <2>1 DEF Astray
  <2>3. Estranged(k)' <=> Estranged(k)
    BY <1>1, <2>1 DEF Estranged
  <2>4. Estranged(k) <=> cache[k].node # cr[k].node
    BY <1>1, <1>6, <2>1 DEF Estranged
  <2>5. Skewed(k)' <=> Estranged(k)
    BY <2>1, <2>3, <2>4 DEF Skewed
  <2>6. CASE Holding(k)
    <3>1. Skewed(k)' => Skewed(k)
      BY <1>2, <2>5, <2>6 DEF Skewed
    <3>2. Debt' \subseteq Debt \cup {NamedBy(k)}
      BY <1>0, <1>2, <1>4, <2>2, <3>1, KubeWithin
    <3>3. cache[k] # cr[k]
      BY <1>0, <1>6, <2>6 DEF Holding
    <3> QED
      BY <1>3, <3>2, <3>3
  <2>7. CASE ~Holding(k)
    <3>1. \A n \in Node, v \in Id : v \in vms[n] => ~Names(k, n, v)
      BY <2>7 DEF Holding, Names
    <3>2. Debt' \subseteq Debt \cup {<<"skew", k, 0>>}
      BY <1>0, <1>2, <2>2, <3>1, KubeWithin
    <3>3. ASSUME cache[k] = cr[k] PROVE Debt' \subseteq Debt \cup {}
      <4>1. ~Skewed(k)'
        BY <2>4, <2>5, <3>3
      <4> QED
        BY <1>0, <1>2, <2>2, <3>1, <4>1, KubeWithin
    <3> QED
      BY <1>3, <3>2, <3>3
  <2> QED
    BY <2>6, <2>7
<1>7. ASSUME \/ Apply(k) /\ cache[k].vm # 0
             \/ Cleanup(k) /\ cache[k].vm # 0
      PROVE  Cardinality(Debt') <= mishaps'
  <2>1. /\ rpc'[o].op \in {"get", "delete"} /\ rpc'[o].node = cache[k].node
        /\ rpc'[o].id = cache[k].vm /\ rpc'[o].stage = "sent" /\ UNCHANGED cr
    BY <1>1, <1>5, <1>7 DEF Apply, Cleanup, kubeVars
  <2>2. Astray(k)' => Astray(k)
    BY <1>1, <2>1 DEF Astray
  <2>3. ~Skewed(k)'
    BY <1>1, <1>7, <2>1 DEF Skewed, Estranged
  <2>4. Debt' \subseteq Debt \cup {NamedBy(k)}
    BY <1>0, <1>2, <1>4, <2>2, <2>3, KubeWithin
  <2>5. ASSUME cache[k] = cr[k] PROVE Debt' \subseteq Debt \cup {}
    <3>1. ~Drops(k)'
      BY <2>1, <2>5 DEF Drops, Misses
    <3>2. \A n \in Node, v \in Id : Names(k, n, v)' <=> Names(k, n, v)
      BY <2>1 DEF Names
    <3> QED
      BY <1>0, <1>2, <2>2, <2>3, <3>1, <3>2, KubeWithin
  <2> QED
    BY <1>3, <2>4, <2>5
<1>8. CASE Cleanup(k) /\ cache[k].vm = 0
  <2>1. cr'[k] = (IF cr[k].deleting THEN NoCr ELSE cr[k]) /\ UNCHANGED rpc /\ cache[k].deleting
    BY <1>0, <1>8 DEF Cleanup, RemoveFinalizer
  <2>2. Astray(k)' => Astray(k)
    BY <1>1, <2>1 DEF Astray, NoCr
  <2>3. ~Skewed(k)'
    BY <1>1, <1>2, <2>1 DEF Skewed, Estranged
  <2>4. Debt' \subseteq Debt \cup {NamedBy(k)}
    BY <1>0, <1>2, <1>4, <2>2, <2>3, KubeWithin
  <2>5. ASSUME cache[k] = cr[k] PROVE Debt' \subseteq Debt \cup {}
    <3>1. \A n \in Node, v \in Id : ~Names(k, n, v)
      BY <1>0, <1>8, <2>5 DEF Names
    <3> QED
      BY <1>0, <1>2, <2>2, <2>3, <3>1, KubeWithin
  <2> QED
    BY <1>3, <2>4, <2>5
<1> QED
  BY <1>6, <1>7, <1>8

\* The end of a look-up or a cleanup: what it takes from the object was owed
\* for already.
LEMMA EndDebt ==
  ASSUME LeakInv, NEW k \in Cr, KubeStep(k), UNCHANGED told, mishaps' \in Nat,
         Refresh(k) \/ CleanedUp(k)
  PROVE  Cardinality(Debt') <= mishaps'
<1> DEFINE o == Operator(k)
<1>0. /\ LeakType /\ mishaps \in Nat /\ Cardinality(Debt) <= mishaps
      /\ cr \in [Cr -> CrObject] /\ cr[k] \in CrObject
      /\ rpc \in [Caller -> Exchange] /\ o \in Caller
      /\ vms \in [Node -> SUBSET Id] /\ 0 \notin Id /\ 0 \notin Node
  BY DaemonAssumption, Callers DEF LeakInv, LeakType, VmsType, Id
<1>1. /\ UNCHANGED <<vms, cache, pick, mishaps>>
      /\ rpc[o].op \in {"get", "delete"} /\ rpc[o].stage = "done" /\ rpc'[o] = Quiet
  BY <1>0 DEF Refresh, CleanedUp, Answered, HangUp
<1>2. rpc'[o].op = "none" /\ rpc'[o].stage = "idle" /\ \A n \in Node, v \in Id : ~Brings(o, n, v)
  BY <1>1 DEF Quiet, Brings, Answered
<1>3. ~Drops(k)'
  BY <1>2 DEF Drops
<1>4. CASE UNCHANGED cr
  <2>1. \A n \in Node, v \in Id : Names(k, n, v)' <=> Names(k, n, v)
    BY <1>4 DEF Names
  <2>2. Skewed(k)' => Skewed(k)
    BY <1>1, <1>2, <1>4 DEF Skewed, Holding, Estranged
  <2>3. Astray(k)' => Astray(k)
    BY <1>1, <1>4 DEF Astray
  <2>4. Debt' \subseteq Debt \cup {}
    BY <1>0, <1>2, <1>3, <2>1, <2>2, <2>3, KubeWithin
  <2> QED
    BY <1>0, <1>1, <2>4, NothingOwed
<1>5. ASSUME Drops(k), cr'[k].vm = 0, Astray(k)' => Astray(k) PROVE Cardinality(Debt') <= mishaps'
  <2>1. ~Skewed(k)'
    BY <1>0, <1>1, <1>2, <1>5 DEF Skewed, Holding
  <2>2. Debt' \subseteq Debt \cup {}
    BY <1>0, <1>2, <1>5, <2>1, KubeWithin
  <2> QED
    BY <1>0, <1>1, <2>2, NothingOwed
<1>6. CASE Refresh(k) /\ rpc[o].reply = "notfound"
  <2>1. Drops(k)
    BY <1>1, <1>6 DEF Drops, Refresh, Answered
  <2>2. cr'[k] = IF cr[k].exists THEN [cr[k] EXCEPT !.vm = 0] ELSE cr[k]
    BY <1>0, <1>6 DEF Refresh, PatchStatus
  <2>3. Astray(k)' => Astray(k)
    BY <1>0, <1>1, <2>2 DEF Astray, CrObject
  <2>4. CASE cr[k].exists
    BY <1>0, <1>5, <2>1, <2>2, <2>3, <2>4 DEF CrObject
  <2>5. CASE ~cr[k].exists
    <3>1. cr' = cr
      BY <1>0, <1>6, <2>5 DEF Refresh, PatchStatus
    <3> QED
      BY <1>4, <3>1
  <2> QED
    BY <2>4, <2>5
<1>7. CASE CleanedUp(k) /\ rpc[o].reply \in {"ok", "notfound"}
  <2>1. Drops(k)
    BY <1>1, <1>7 DEF Drops, CleanedUp, Answered
  <2>2. cr'[k] = IF cr[k].deleting THEN NoCr ELSE cr[k]
    BY <1>0, <1>7 DEF CleanedUp, RemoveFinalizer
  <2>3. Astray(k)' => Astray(k)
    BY <1>0, <1>1, <2>2 DEF Astray, NoCr
  <2>4. CASE cr[k].deleting
    BY <1>5, <2>1, <2>2, <2>3, <2>4 DEF NoCr
  <2>5. CASE ~cr[k].deleting
    <3>1. cr' = cr
      BY <1>0, <1>7, <2>5 DEF CleanedUp, RemoveFinalizer
    <3> QED
      BY <1>4, <3>1
  <2> QED
    BY <2>4, <2>5
<1> QED
  BY <1>4, <1>6, <1>7 DEF Refresh, CleanedUp
\* A create recorded: a VM on a node that the object has left is lost, and was
\* owed for as the skew; a patch that fails counts.
LEMMA RecordDebt ==
  ASSUME LeakInv, NEW k \in Cr, KubeStep(k), UNCHANGED told, mishaps' \in Nat, RecordCreated(k)
  PROVE  Cardinality(Debt') <= mishaps'
<1> DEFINE o == Operator(k)
           brought == <<"vm", rpc[o].node, rpc[o].id>>
<1>0. /\ LeakType /\ Fresh /\ Guarding(k) /\ mishaps \in Nat /\ Cardinality(Debt) <= mishaps
      /\ cr \in [Cr -> CrObject] /\ cr[k] \in CrObject
      /\ rpc \in [Caller -> Exchange] /\ o \in Caller
      /\ vms \in [Node -> SUBSET Id] /\ 0 \notin Id /\ 0 \notin Node
  BY DaemonAssumption, Callers DEF LeakInv, LeakType, AllGuarding, VmsType, Id
<1>1. /\ UNCHANGED <<vms, cache, pick>>
      /\ rpc[o].op = "create" /\ rpc[o].stage = "done" /\ rpc'[o] = Quiet
  BY <1>0 DEF RecordCreated, Answered, HangUp
<1>2. rpc'[o].op = "none" /\ Drops(k) /\ ~Drops(k)' /\ cr[k].exists
  BY <1>0, <1>1 DEF Quiet, Drops, Guarding
<1>3. \A n \in Node, v \in Id : Brings(o, n, v) => n = rpc[o].node /\ v = rpc[o].id
  BY DEF Brings
<1>4. CASE Mishap /\ UNCHANGED cr
  <2>1. Skewed(k)' => Skewed(k)
    BY <1>1, <1>2, <1>4 DEF Skewed, Holding, Estranged
  <2>2. Astray(k)' => Astray(k)
    BY <1>1, <1>4 DEF Astray
  <2>3. Debt' \subseteq Debt \cup {brought}
    BY <1>0, <1>2, <1>3, <2>1, <2>2, KubeWithin
  <2>4. mishaps' = mishaps + 1
    BY <1>4 DEF Mishap
  <2> QED
    BY <1>0, <2>3, <2>4, OneOwed
<1>5. ASSUME UNCHANGED mishaps, PatchStatus(k, IF rpc[o].reply = "ok" THEN rpc[o].id ELSE 0)
      PROVE  Cardinality(Debt') <= mishaps'
  <2>1. (IF rpc[o].reply = "ok" THEN rpc[o].id ELSE 0) = rpc[o].id
    BY <1>0, <1>1 DEF LeakType
  <2>2. cr'[k] = [cr[k] EXCEPT !.vm = rpc[o].id]
    BY <1>0, <1>2, <1>5, <2>1 DEF PatchStatus
  <2>3. cr'[k].exists /\ cr'[k].node = cr[k].node /\ cr'[k].vm = rpc[o].id
    BY <1>0, <1>2, <2>2 DEF CrObject
  <2>4. Astray(k)' => Astray(k)
    BY <1>1, <1>2, <2>3 DEF Astray
  <2>5. Skewed(k)' => Skewed(k)
    BY <1>1, <1>2, <2>3 DEF Skewed, Estranged
  <2>6. CASE rpc[o].node = cr[k].node \/ rpc[o].id \notin vms[rpc[o].node]
    <3>1. ASSUME NEW n \in Node, NEW v \in Id, v \in vms[n], Brings(o, n, v) PROVE Names(k, n, v)'
      BY <1>3, <2>3, <2>6, <3>1 DEF Names
    <3>2. Debt' \subseteq Debt \cup {}
      BY <1>0, <1>2, <2>4, <2>5, <3>1, KubeWithin
    <3> QED
      BY <1>0, <1>5, <3>2, NothingOwed
  <2>7. CASE rpc[o].node # cr[k].node /\ rpc[o].id \in vms[rpc[o].node]
    <3>1. Skewed(k)
      BY <1>1, <2>7 DEF Skewed
    <3>2. rpc[o].node \in Node
      BY <1>0, <1>1 DEF LeakType, Exchange
    <3>3. rpc[o].id \in Id
      BY <1>0, <2>7, <3>2
    <3>4. cr[k].node \in Node => rpc[o].id \notin vms[cr[k].node]
      BY <1>0, <2>7, <3>2, <3>3 DEF Fresh
    <3>5. ~Skewed(k)'
      BY <1>1, <1>2, <2>3, <3>4 DEF Skewed, Holding
    <3>6. Debt' \subseteq Debt \cup {brought}
      BY <1>0, <1>2, <1>3, <2>4, <2>5, KubeWithin
    <3>7. <<"skew", k, 0>> \in Debt
      BY <3>1, DebtIs
    <3>8. <<"skew", k, 0>> \notin Debt'
      <4> SUFFICES ASSUME <<"skew", k, 0>> \in Debt' PROVE FALSE
        OBVIOUS
      <4>1. Owed(<<"skew", k, 0>>)'
        BY DEF Debt
      <4>2. Skewed(k)'
        BY <4>1 DEF Owed, VmToken, SkewToken, PickToken
      <4> QED
        BY <3>5, <4>2
    <3> QED
      BY <1>0, <1>5, <3>6, <3>7, <3>8, Exchanged
  <2> QED
    BY <2>6, <2>7
<1> QED
  BY <1>4, <1>5 DEF RecordCreated

\* The placer: a pick for an object that has a node counts; writing it trades
\* the pick for what the move loses.
LEMMA PlacerDebt ==
  ASSUME LeakInv, NEW k \in Cr, KubeStep(k), UNCHANGED told, mishaps' \in Nat,
         PickNode(k) \/ Place(k)
  PROVE  Cardinality(Debt') <= mishaps'
<1> DEFINE o == Operator(k)
           skew == <<"skew", k, 0>>
<1>0. /\ LeakType /\ Fresh /\ Guarding(k) /\ mishaps \in Nat /\ Cardinality(Debt) <= mishaps
      /\ cr \in [Cr -> CrObject] /\ cr[k] \in CrObject /\ pick \in [Cr -> Node \cup {0}]
      /\ vms \in [Node -> SUBSET Id] /\ 0 \notin Id /\ 0 \notin Node
  BY DaemonAssumption DEF LeakInv, LeakType, AllGuarding, VmsType, Id
<1>1. UNCHANGED <<vms, rpc, cache>>
  BY DEF PickNode, Place, daemonVars
<1>2. \A n \in Node, v \in Id : Brings(o, n, v)' <=> Brings(o, n, v)
  BY <1>1 DEF Brings, Answered
<1>3. ASSUME cr'[k] = cr[k]
      PROVE  /\ \A n \in Node, v \in Id : Names(k, n, v)' <=> Names(k, n, v)
             /\ (Drops(k)' <=> Drops(k)) /\ (Skewed(k)' <=> Skewed(k))
  BY <1>1, <1>3 DEF Names, Drops, Misses, Skewed, Holding, Estranged
<1>4. CASE PickNode(k)
  <2>1. cr' = cr
    BY <1>4 DEF PickNode
  <2>2. CASE Unpinned(k)
    <3>1. ~Astray(k)' /\ mishaps' = mishaps
      BY <1>4, <2>1, <2>2 DEF Astray, Unpinned, PickNode, FreshOr
    <3>2. Debt' \subseteq Debt \cup {}
      BY <1>0, <1>2, <1>3, <2>1, <3>1, KubeWithin
    <3> QED
      BY <1>0, <3>1, <3>2, NothingOwed
  <2>3. CASE ~Unpinned(k)
    <3>1. mishaps' = mishaps + 1
      BY <1>4, <2>3 DEF PickNode, FreshOr, Mishap
    <3>2. Debt' \subseteq Debt \cup {<<"pick", k, 0>>}
      BY <1>0, <1>2, <1>3, <2>1, KubeWithin
    <3> QED
      BY <1>0, <3>1, <3>2, OneOwed
  <2> QED
    BY <2>2, <2>3
<1>5. CASE Place(k)
  <2>1. /\ mishaps' = mishaps /\ pick[k] \in Node /\ pick'[k] = 0 /\ ~Astray(k)'
        /\ cr'[k] = IF cr[k].exists THEN [cr[k] EXCEPT !.node = pick[k]] ELSE cr[k]
    BY <1>0, <1>5 DEF Place, daemonVars, Astray
  <2>2. CASE cr'[k] = cr[k]
    <3>1. Debt' \subseteq Debt \cup {}
      BY <1>0, <1>2, <1>3, <2>1, <2>2, KubeWithin
    <3> QED
      BY <1>0, <2>1, <3>1, NothingOwed
  <2>3. CASE cr'[k] # cr[k]
    <3>1. cr[k].exists /\ cr'[k].exists /\ cr'[k].node = pick[k] /\ cr'[k].vm = cr[k].vm
      BY <1>0, <2>1, <2>3 DEF CrObject
    <3>2. cr[k].node # pick[k]
      BY <1>0, <2>1, <2>3 DEF CrObject
    <3>3. CASE cr[k].node = 0
      <4>1. cr[k].vm = 0 /\ rpc[o].op # "create"
        BY <1>0, <3>3 DEF Guarding
      <4>2. ~Skewed(k)'
        BY <1>0, <1>1, <3>1, <4>1 DEF Skewed, Holding
      <4>3. \A n \in Node, v \in Id : ~Names(k, n, v)
        BY <1>0, <3>3 DEF Names
      <4>4. Debt' \subseteq Debt \cup {}
        BY <1>0, <1>2, <2>1, <4>2, <4>3, KubeWithin
      <4> QED
        BY <1>0, <2>1, <4>4, NothingOwed
    <3>4. CASE cr[k].node # 0
      <4>1. <<"pick", k, 0>> \in Debt
        <5>1. Astray(k)
          BY <1>0, <2>1, <3>1, <3>4 DEF Astray
        <5> QED
          BY <5>1, DebtIs
      <4>2. <<"pick", k, 0>> \notin Debt'
        <5> SUFFICES ASSUME <<"pick", k, 0>> \in Debt' PROVE FALSE
          OBVIOUS
        <5>1. Owed(<<"pick", k, 0>>)'
          BY DEF Debt
        <5>2. Astray(k)'
          BY <5>1 DEF Owed, VmToken, SkewToken, PickToken
        <5> QED
          BY <2>1, <5>2
      <4>3. CASE rpc[o].op = "create" \/ ~Holding(k)
        <5>1. \A n \in Node, v \in Id : v \in vms[n] => ~(Names(k, n, v) /\ ~Drops(k))
          BY <4>3 DEF Names, Holding, Drops
        <5>2. Debt' \subseteq Debt \cup {skew}
          BY <1>0, <1>2, <2>1, <5>1, KubeWithin
        <5> QED
          BY <1>0, <2>1, <4>1, <4>2, <5>2, Exchanged
      <4>4. CASE rpc[o].op # "create" /\ Holding(k)
        <5>1. cr[k].vm \in Id /\ cr[k].vm \notin vms[pick[k]]
          BY <1>0, <2>1, <3>2, <4>4 DEF Holding, Fresh
        <5>2. ~Skewed(k)'
          BY <1>1, <3>1, <4>4, <5>1 DEF Skewed, Holding
        <5>3. \A n \in Node, v \in Id : Names(k, n, v) => <<"vm", n, v>> = NamedBy(k)
          BY DEF Names, NamedBy
        <5>4. Debt' \subseteq Debt \cup {NamedBy(k)}
          BY <1>0, <1>2, <2>1, <5>2, <5>3, KubeWithin
        <5> QED
          BY <1>0, <2>1, <4>1, <4>2, <5>4, Exchanged
      <4> QED
        BY <4>3, <4>4
    <3> QED
      BY <3>3, <3>4
  <2> QED
    BY <2>2, <2>3
<1> QED
  BY <1>4, <1>5

\* Every step adds to the debt at most what it counts.
LEMMA LeakInvStep ==
  ASSUME LeakInv, [Next]_vars
  PROVE  LeakInv'
<1>0. LeakType' /\ AllGuarding' /\ Fresh' /\ mishaps' \in Nat
  BY LeakTypeStep, GuardingStep, FreshStep DEF LeakInv, LeakType
<1> SUFFICES Cardinality(Debt') <= mishaps'
  BY <1>0 DEF LeakInv
<1>1. ASSUME NEW c \in Caller, Handle(c), UNCHANGED <<fleetVars, kubeVars>>
      PROVE  Cardinality(Debt') <= mishaps'
  BY <1>1, HandlerDebt DEF fleetVars, kubeVars
<1>2. ASSUME NEW n \in Node, Expire(n) \/ StopDaemon(n) \/ StartDaemon(n), UNCHANGED <<fleetVars, kubeVars>>
      PROVE  Cardinality(Debt') <= mishaps'
  BY <1>2, FleetDebt DEF fleetVars, kubeVars
<1>3. ASSUME FleetNext, UNCHANGED kubeVars PROVE Cardinality(Debt') <= mishaps'
  BY <1>3, FleetDebt DEF kubeVars
<1>4. ASSUME NEW k \in Cr, KubeStep(k), UNCHANGED fleetVars PROVE Cardinality(Debt') <= mishaps'
  <2>1. UNCHANGED told
    BY <1>4 DEF fleetVars
  <2> QED
    BY <1>0, <1>4, <2>1, ObjectDebt, BeginDebt, EndDebt, RecordDebt, PlacerDebt DEF KubeStep
<1>5. ASSUME NEW n \in Node, CrashOperator(n), UNCHANGED fleetVars PROVE Cardinality(Debt') <= mishaps'
  BY <1>5, CrashDebt DEF fleetVars
<1>6. CASE UNCHANGED vars
  <2>1. Debt' \subseteq Debt \cup {}
    <3>1. /\ UNCHANGED <<cr, cache, pick, told, rpc, vms, born, mishaps>>
      BY <1>6 DEF vars, daemonVars, fleetVars, kubeVars
    <3>2. VmsGo
      BY <3>1 DEF VmsGo
    <3>3. \A c \in FleetClient, n \in Node, v \in Id :
            Brings(FleetRequest(c), n, v) => Brings(FleetRequest(c), n, v)'
      BY <3>1 DEF Brings, Answered
    <3> QED
      BY <3>1, <3>2, <3>3, FleetSide
  <2>2. mishaps' = mishaps /\ mishaps \in Nat /\ Cardinality(Debt) <= mishaps
    BY <1>6 DEF vars, daemonVars, LeakInv, LeakType
  <2> QED
    BY <2>1, <2>2, NothingOwed
<1>7. KubeNext => (\E k \in Cr : KubeStep(k)) \/ \E n \in Node : CrashOperator(n)
  BY DEF KubeNext, KubeStep
<1> QED
  BY <1>1, <1>2, <1>3, <1>4, <1>5, <1>6, <1>7 DEF Next, DaemonNext

\* What nobody knows of is owed for.
LEMMA LeakedIsOwed ==
  ASSUME LeakInv
  PROVE  LeaksBounded
<1> DEFINE f == [p \in Leaked |-> <<"vm", p[1], p[2]>>]
<1>1. ASSUME NEW p \in Leaked
      PROVE  /\ p = <<p[1], p[2]>> /\ p[1] \in Node /\ p[2] \in Id
             /\ p[2] \in vms[p[1]] /\ ~Known(p[1], p[2])
  BY DEF Leaked
<1>2. ASSUME NEW p \in Leaked PROVE f[p] \in Debt
  <2>1. ~Secure(p[1], p[2])
    BY <1>1 DEF Secure, Known, Names, Brings
  <2> QED
    BY <1>1, <2>1, DebtIs
<1>3. ASSUME NEW p \in Leaked, NEW q \in Leaked, f[p] = f[q] PROVE p = q
  <2>1. p[1] = q[1] /\ p[2] = q[2]
    BY <1>3
  <2> QED
    BY <1>1, <2>1
<1>4. f \in Injection(Leaked, Debt)
  BY <1>2, <1>3 DEF Injection, IsInjective
<1>5. Cardinality(Leaked) <= Cardinality(Debt) /\ IsFiniteSet(Leaked)
  BY <1>4, TokensFinite, FS_Injection
<1>6. Cardinality(Leaked) \in Nat /\ mishaps \in Nat /\ Cardinality(Debt) <= mishaps
  BY <1>5, FS_CardinalityType DEF LeakInv, LeakType
<1> QED
  BY <1>5, <1>6, TokensFinite DEF LeaksBounded

\* VMs that nobody knows of exist only because of a crash, a lost answer, a
\* failed create or patch, an unreadable store or a reconcile on a stale copy,
\* at most one for each (controller.rs: apply, cleanup; central.rs: create_vm).
THEOREM LeaksAlwaysBounded == Spec => []LeaksBounded
<1>1. Init => LeakInv
  <2> SUFFICES ASSUME Init PROVE LeakInv
    OBVIOUS
  <2>0. /\ vms = [n \in Node |-> {}] /\ born = 0 /\ rpc = [c \in Caller |-> Quiet] /\ mishaps = 0
        /\ cr = [k \in Cr |-> NoCr] /\ cache = cr /\ pick = [k \in Cr |-> 0]
    BY DEF Init, DaemonInit, KubeInit
  <2>1. LeakType
    BY <2>0, DaemonAssumption DEF LeakType, VmsType, Quiet, NoCr, Exchange, CrObject
  <2>2. AllGuarding
    BY <2>0, Callers DEF AllGuarding, Guarding, NoCr, Quiet
  <2>3. Fresh
    BY <2>0 DEF Fresh, NoCr, Quiet
  <2>4. Debt = {}
    <3>1. \A k \in Cr : ~Skewed(k) /\ ~Astray(k)
      BY <2>0, Callers DEF Skewed, Astray, Holding, NoCr, Quiet
    <3>2. \A n \in Node : vms[n] = {}
      BY <2>0
    <3> QED
      BY <3>1, <3>2, DebtIs
  <2>5. Cardinality(Debt) <= mishaps
    BY <2>0, <2>4, FS_EmptySet
  <2> QED
    BY <2>1, <2>2, <2>3, <2>5 DEF LeakInv
<1>2. LeakInv /\ [Next]_vars => LeakInv'
  BY LeakInvStep
<1>3. LeakInv => LeaksBounded
  BY LeakedIsOwed
<1> QED
  BY <1>1, <1>2, <1>3, PTL DEF Spec
=============================================================================
