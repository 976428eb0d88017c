------------------------------- MODULE NetnsNet -------------------------------
(***************************************************************************)
(* fluxvm-network's network namespaces: netns::prepare and netns::cleanup  *)
(* over ipam.json and the host's namespaces, veth pairs, NAT tables and    *)
(* dnsmasq processes.                                                      *)
(*                                                                         *)
(* Each step is one store operation or a run of host commands; a step that *)
(* fails makes prepare call cleanup, whose own steps ignore errors.  The   *)
(* callers are VmLifecycle's operations, which take no lock per VM.        *)
(***************************************************************************)
EXTENDS Integers

CONSTANTS
  Vm,        \* VM ids; the host names derived from them are distinct
  Task,      \* operations in flight
  NoVm,      \* no VM
  PoolSize,  \* POOL_SIZE: /28 blocks in 169.254.0.0/16
  Contended, \* VMs on which two tasks may be at work at once
  Unlucky    \* VMs whose tasks may be killed, and fail where cleanup is no help

ASSUME NetAssumption ==
  /\ NoVm \notin Vm
  /\ PoolSize \in 1 .. 4096
  /\ Contended \subseteq Vm /\ Unlucky \subseteq Vm

VARIABLES
  ipam,      \* ipam.json: the block of each VM
  netns,     \* VMs whose namespace has its name
  nameless,  \* VMs with a namespace that lost its name and is still held open
  veth,      \* veth[v]: "none", "unmoved" (both ends on the host) or "moved"
  addr,      \* the block on the host end of v's veth pair
  nat,       \* VMs whose masquerade table exists
  dns,       \* VMs whose dnsmasq runs
  pidfile,   \* VMs whose dnsmasq.pid exists
  ready,     \* VMs prepared and not cleaned up since
  pc,        \* pc[t]: the step task t is at
  tvm,       \* the VM it works on
  blk        \* the block its prepare was given

hostVars == <<netns, nameless, veth, addr, nat, dns, pidfile>>
taskVars == <<pc, tvm, blk>>
vars == <<ipam, hostVars, ready, taskVars>>

Block == 0 .. (PoolSize - 1)

NoBlock == PoolSize

Init ==
  /\ ipam = [v \in Vm |-> NoBlock]
  /\ netns = {} /\ nameless = {} /\ nat = {} /\ dns = {} /\ pidfile = {} /\ ready = {}
  /\ veth = [v \in Vm |-> "none"]
  /\ addr = [v \in Vm |-> NoBlock]
  /\ pc = [t \in Task |-> "idle"]
  /\ tvm = [t \in Task |-> NoVm]
  /\ blk = [t \in Task |-> NoBlock]

-----------------------------------------------------------------------------
(* IpamStore: each operation is one locked transaction (FlockStore).       *)

Used(m) == {m[v] : v \in Vm} \ {NoBlock}

\* Bug: the first block, used or not.
AllocateFirst(m, v) == IF m[v] # NoBlock THEN {m[v]} ELSE {0}

\* Bug: the range of blocks includes its end.
AllocatePastEnd(m, v) ==
  IF m[v] # NoBlock THEN {m[v]}
  ELSE {b \in (0 .. PoolSize) \ Used(m) : \A c \in 0 .. (b - 1) : c \in Used(m)}

\* Bug: a VM that has a block is given another.
AllocateAnew(m, v) ==
  {b \in Block \ Used(m) : \A c \in 0 .. (b - 1) : c \in Used(m)}

\* allocate_in: the VM's own block, or the lowest that is free; no block is
\* the error of an exhausted pool.
AllocateIn(m, v) ==
  IF m[v] # NoBlock THEN {m[v]}
  ELSE {b \in Block \ Used(m) : \A c \in 0 .. (b - 1) : c \in Used(m)}

\* block_to_octets: 169.254.<third>.<base>/28.
BlockToOctets(b) == <<b \div 16, (b % 16) * 16>>

-----------------------------------------------------------------------------
Goto(t, step) == pc' = [pc EXCEPT ![t] = step]

\* The steps after whose failure cleanup leaves nothing behind.
Recoverable == {"netns", "veth", "configure", "spawn"}

\* A host command or file operation of this step may fail for v.
MayFail(v, step) == step \in Recoverable \/ v \in Unlucky

\* A task takes up v.
Enter(t, v, step) ==
  /\ pc[t] = "idle"
  /\ v \in Contended \/ \A u \in Task : tvm[u] # v
  /\ Goto(t, step)
  /\ tvm' = [tvm EXCEPT ![t] = v]

Done(t) ==
  /\ Goto(t, "idle")
  /\ tvm' = [tvm EXCEPT ![t] = NoVm]
  /\ blk' = [blk EXCEPT ![t] = NoBlock]

\* A step of prepare succeeds.
Continue(t, step) == Goto(t, step) /\ UNCHANGED <<tvm, blk, ready>>

\* A step of prepare fails: cleanup runs on the VM.
Abort(t) ==
  /\ Goto(t, "kill")
  /\ ready' = ready \ {tvm[t]}
  /\ UNCHANGED <<tvm, blk>>

-----------------------------------------------------------------------------
(* prepare                                                                 *)

Prepare(t, v) ==
  /\ Enter(t, v, "netns")
  /\ \E b \in AllocateIn(ipam, v) :
       /\ ipam' = [ipam EXCEPT ![v] = b]
       /\ blk' = [blk EXCEPT ![t] = b]
  /\ UNCHANGED <<hostVars, ready>>

\* ip netns add
AddNetns(t) ==
  LET v == tvm[t] IN
  /\ pc[t] = "netns"
  /\ \/ /\ v \notin netns
        /\ netns' = netns \cup {v}
        /\ Continue(t, "veth")
     \/ /\ v \in netns \/ MayFail(v, "netns")
        /\ Abort(t)
        /\ UNCHANGED netns
  /\ UNCHANGED <<ipam, nameless, veth, addr, nat, dns, pidfile>>

\* ip link add
AddVeth(t) ==
  LET v == tvm[t] IN
  /\ pc[t] = "veth"
  /\ \/ /\ veth[v] = "none"
        /\ veth' = [veth EXCEPT ![v] = "unmoved"]
        /\ Continue(t, "move")
     \/ /\ veth[v] # "none" \/ MayFail(v, "veth")
        /\ Abort(t)
        /\ UNCHANGED veth
  /\ UNCHANGED <<ipam, netns, nameless, addr, nat, dns, pidfile>>

\* ip link set netns
MoveVeth(t) ==
  LET v == tvm[t] IN
  /\ pc[t] = "move"
  /\ \/ /\ v \in netns /\ veth[v] = "unmoved"
        /\ veth' = [veth EXCEPT ![v] = "moved"]
        /\ Continue(t, "configure")
     \/ /\ v \notin netns \/ veth[v] # "unmoved" \/ MayFail(v, "move")
        /\ Abort(t)
        /\ UNCHANGED veth
  /\ UNCHANGED <<ipam, netns, nameless, addr, nat, dns, pidfile>>

\* The host end's address, the bridge and tap inside, the default route and
\* the masquerade table; a failure may come before or after any of them.
Configure(t) ==
  LET v == tvm[t]
      addressed == [addr EXCEPT ![v] = blk[t]]
      wired == v \in netns /\ veth[v] = "moved"
  IN
  /\ pc[t] = "configure"
  /\ \/ /\ wired
        /\ addr' = addressed
        /\ nat' = nat \cup {v}
        /\ Continue(t, "spawn")
     \/ /\ ~wired \/ MayFail(v, "configure")
        /\ addr' \in {addr} \cup {addressed : u \in {v} \cap netns}
        /\ nat' \in {nat, nat \cup {v}}
        /\ Abort(t)
  /\ UNCHANGED <<ipam, netns, nameless, veth, dns, pidfile>>

\* dnsmasq, inside the namespace
SpawnDns(t) ==
  LET v == tvm[t] IN
  /\ pc[t] = "spawn"
  /\ \/ /\ v \in netns
        /\ dns' = dns \cup {v}
        /\ Continue(t, "pidfile")
     \/ /\ v \notin netns \/ MayFail(v, "spawn")
        /\ Abort(t)
        /\ UNCHANGED dns
  /\ UNCHANGED <<ipam, netns, nameless, veth, addr, nat, pidfile>>

\* The pid is recorded and prepare returns.
WritePid(t) ==
  LET v == tvm[t] IN
  /\ pc[t] = "pidfile"
  /\ \/ /\ pidfile' = pidfile \cup {v}
        /\ ready' = ready \cup {v}
        /\ Done(t)
     \/ /\ MayFail(v, "pidfile")
        /\ Abort(t)
        /\ UNCHANGED pidfile
  /\ UNCHANGED <<ipam, netns, nameless, veth, addr, nat, dns>>

-----------------------------------------------------------------------------
(* cleanup                                                                 *)

Cleanup(t, v) ==
  /\ Enter(t, v, "kill")
  /\ ready' = ready \ {v}
  /\ UNCHANGED <<ipam, hostVars, blk>>

\* Bug: dnsmasq is left to die with its namespace.
KillDnsNot(t) ==
  LET v == tvm[t] IN
  /\ pc[t] = "kill"
  /\ pidfile' = pidfile \ {v}
  /\ nat' = nat \ {v}
  /\ Goto(t, "release")
  /\ UNCHANGED <<ipam, netns, nameless, veth, addr, dns, ready, tvm, blk>>

\* dnsmasq is terminated if its pid is on record, the directory and the
\* masquerade table are removed.
KillDns(t) ==
  LET v == tvm[t] IN
  /\ pc[t] = "kill"
  /\ dns' = dns \ (pidfile \cap {v})
  /\ pidfile' = pidfile \ {v}
  /\ nat' = nat \ {v}
  /\ Goto(t, "release")
  /\ UNCHANGED <<ipam, netns, nameless, veth, addr, ready, tvm, blk>>

Release(t) ==
  LET v == tvm[t] IN
  /\ pc[t] = "release"
  /\ \/ ipam' = [ipam EXCEPT ![v] = NoBlock]
     \/ MayFail(v, "release") /\ UNCHANGED ipam
  /\ Goto(t, "del")
  /\ UNCHANGED <<hostVars, ready, tvm, blk>>

\* ip netns del: the namespace goes, its interfaces with it and so the host
\* end of the pair, unless dnsmasq holds it open.
DelNetns(t) ==
  LET v == tvm[t]
      freed == ({v} \cap netns) \ dns
  IN
  /\ pc[t] = "del"
  /\ \/ /\ netns' = netns \ {v}
        /\ nameless' = nameless \cup ({v} \cap netns \cap dns)
        /\ veth' = [u \in Vm |-> IF u \in freed /\ veth[u] = "moved" THEN "none" ELSE veth[u]]
        /\ addr' = [u \in Vm |-> IF u \in freed /\ veth[u] = "moved" THEN NoBlock ELSE addr[u]]
     \/ /\ MayFail(v, "del")
        /\ UNCHANGED <<netns, nameless, veth, addr>>
  /\ Done(t)
  /\ UNCHANGED <<ipam, nat, dns, pidfile, ready>>

\* The task's process is killed.
Killed(t) ==
  /\ pc[t] # "idle" /\ tvm[t] \in Unlucky
  /\ Done(t)
  /\ UNCHANGED <<ipam, hostVars, ready>>

Next ==
  \E t \in Task :
    \/ \E v \in Vm : Prepare(t, v) \/ Cleanup(t, v)
    \/ AddNetns(t) \/ AddVeth(t) \/ MoveVeth(t) \/ Configure(t)
    \/ SpawnDns(t) \/ WritePid(t)
    \/ KillDns(t) \/ Release(t) \/ DelNetns(t)
    \/ Killed(t)

Spec == Init /\ [][Next]_vars

-----------------------------------------------------------------------------
(* Properties.                                                             *)

Steps == {"idle", "netns", "veth", "move", "configure", "spawn", "pidfile",
          "kill", "release", "del"}

Building == {"netns", "veth", "move", "configure", "spawn", "pidfile"}

\* Types; a task past its first step has a VM, and one that builds has the
\* block it was allocated.
TypeOK ==
  /\ ipam \in [Vm -> Block \cup {NoBlock}]
  /\ netns \subseteq Vm /\ nameless \subseteq Vm /\ nat \subseteq Vm
  /\ dns \subseteq Vm /\ pidfile \subseteq Vm /\ ready \subseteq Vm
  /\ veth \in [Vm -> {"none", "unmoved", "moved"}]
  /\ addr \in [Vm -> Block \cup {NoBlock}]
  /\ pc \in [Task -> Steps]
  /\ tvm \in [Task -> Vm \cup {NoVm}]
  /\ blk \in [Task -> Block \cup {NoBlock}]
  /\ \A t \in Task :
       /\ pc[t] # "idle" => tvm[t] \in Vm
       /\ pc[t] = "idle" => tvm[t] = NoVm
       /\ pc[t] \in Building => blk[t] \in Block

\* No two VMs that are prepared share a subnet, whichever prepares, failures,
\* cleanups and kills came between, if no two tasks were ever at work on
\* either (allocate, and the release that precedes the end of cleanup).
ReadySubnetsDistinct ==
  \A v, w \in ready \ Contended :
    BlockToOctets(addr[v]) = BlockToOctets(addr[w]) => v = w

\* A VM that prepare reported ready keeps its namespace, its address and the
\* block reserved for it, its NAT and its dnsmasq until its own cleanup,
\* whatever is done to other VMs (prepare).
ReadyStaysWired ==
  \A v \in ready \ Contended :
    /\ v \in netns /\ veth[v] = "moved" /\ v \in nat \cap dns \cap pidfile
    /\ addr[v] \in Block /\ ipam[v] = addr[v]

AtRest(v) == v \notin ready /\ \A t \in Task : tvm[t] # v

\* A cleanup that is not interrupted, also one after a failed prepare, leaves
\* nothing of the VM: no namespace, veth, table, dnsmasq or block (cleanup).
TornDown ==
  \A v \in Vm \ (Contended \cup Unlucky) :
    AtRest(v) =>
      /\ v \notin netns \cup nameless \cup nat \cup dns \cup pidfile
      /\ veth[v] = "none" /\ ipam[v] = NoBlock
=============================================================================
