------------------------------- MODULE WarmPool -------------------------------
(***************************************************************************)
(* Warm pools: PoolStore, and VmManager's create_pool, delete_pool,        *)
(* claim_from_pool and backfill_pool over it.  A pool keeps booted, Paused *)
(* VMs that a claim resumes.                                               *)
(*                                                                         *)
(* Pool records and VM records are separate stores with separate locks, so *)
(* every step between two store operations interleaves.  Backfills of one  *)
(* pool are serialised by a mutex inside each process, and only there.     *)
(* What an operation does to a member's own record is VmLifecycle's; here  *)
(* a VM is its status.                                                     *)
(***************************************************************************)
EXTENDS Naturals, Sequences, FiniteSets

CONSTANTS
  Name,         \* pool names
  Vm,           \* VM ids, each created once
  Proc,         \* processes: fluxvm serve, one-shot CLI commands
  Daemon,       \* those that run the reaper
  Killable,     \* those that may be killed, or exit, mid-operation
  Client,       \* concurrent API and CLI requests
  Home,         \* Home[c]: the process that runs c
  MaxSize,      \* bound on a pool's size
  MaxTemplate,  \* bound on the pools created, each with a template of its own
  MaxQueued,    \* bound on the backfills waiting for one mutex
  Mishaps,      \* whether VMMs die, deletes and stores fail, members are used by id
  NoPool        \* no pool under this name

Filler == Proc \X Name

Worker == Client \cup Filler

ASSUME PoolAssumption ==
  /\ IsFiniteSet(Proc) /\ Daemon \subseteq Proc /\ Killable \subseteq Proc
  /\ Home \in [Client -> Proc]
  /\ MaxSize \in Nat /\ MaxTemplate \in Nat /\ MaxQueued \in Nat
  /\ Mishaps \in BOOLEAN
  /\ Name \cap Worker = {} /\ Client \cap Filler = {}

VARIABLES
  pools,      \* pools.json
  status,     \* status[v], "new" before its create, "gone" after its delete
  template,   \* template[v]: the template v was created from, 0 before
  pc,         \* pc[w]: the await worker w is at
  hand,       \* hand[w]: the VMs only w knows of
  spec,       \* spec[w]: the pool a request names, the template a backfill read
  queued,     \* queued[f]: backfills that wait for f's mutex
  templates,  \* templates used so far
  claims      \* claims[v]: how often a claim has returned v

vars == <<pools, status, template, pc, hand, spec, queued, templates, claims>>

PoolRecord ==
  [size : 1 .. MaxSize, template : 1 .. MaxTemplate, members : Seq(Vm)]

ASSUME NoPoolAssumption == NoPool \notin PoolRecord

NoSpec == [name |-> NoPool, size |-> 0, template |-> 0]

Init ==
  /\ pools = [n \in Name |-> NoPool]
  /\ status = [v \in Vm |-> "new"]
  /\ template = [v \in Vm |-> 0]
  /\ pc = [w \in Worker |-> "idle"]
  /\ hand = [w \in Worker |-> << >>]
  /\ spec = [w \in Worker |-> NoSpec]
  /\ queued = [f \in Filler |-> 0]
  /\ templates = 0
  /\ claims = [v \in Vm |-> 0]

-----------------------------------------------------------------------------
(* PoolStore's operations on one record, and helpers.                      *)

Live(n) == pools[n] # NoPool

Short(n) == Live(n) /\ Len(pools[n].members) < pools[n].size

Front(s) == SubSeq(s, 1, Len(s) - 1)

\* The queue of f after spawn_backfill; one more than the bound changes
\* nothing, it would find what the others left.
Asked(f) == IF queued[f] < MaxQueued THEN queued[f] + 1 ELSE queued[f]

SpawnBackfill(f) == queued' = [queued EXCEPT ![f] = Asked(f)]

Goto(w, step) == pc' = [pc EXCEPT ![w] = step]

Take(w, s) == hand' = [hand EXCEPT ![w] = s]

\* delete(v), whose error every caller here ignores.
Delete(v) ==
  \/ status' = [status EXCEPT ![v] = "gone"]
  \/ Mishaps /\ UNCHANGED status

-----------------------------------------------------------------------------
(* create_pool: get, then insert, which overwrites.                        *)

\* A get that meets an I/O error reads as no pool.
CreatePool(c, n) ==
  /\ pc[c] = "idle"
  /\ ~Live(n) \/ Mishaps
  /\ templates < MaxTemplate
  /\ templates' = templates + 1
  /\ \E size \in 1 .. MaxSize :
       spec' = [spec EXCEPT ![c] = [name |-> n, size |-> size,
                                    template |-> templates + 1]]
  /\ Goto(c, "insert")
  /\ UNCHANGED <<pools, status, template, hand, queued, claims>>

InsertPool(c) ==
  LET n == spec[c].name IN
  /\ pc[c] = "insert"
  /\ pools' = [pools EXCEPT ![n] = [size |-> spec[c].size,
                                    template |-> spec[c].template,
                                    members |-> << >>]]
  /\ SpawnBackfill(<<Home[c], n>>)
  /\ Goto(c, "idle")
  /\ spec' = [spec EXCEPT ![c] = NoSpec]
  /\ UNCHANGED <<status, template, hand, templates, claims>>

-----------------------------------------------------------------------------
(* delete_pool: the record first, then every member it held.               *)

DeletePool(c, n) ==
  /\ pc[c] = "idle"
  /\ Live(n)
  /\ pools' = [pools EXCEPT ![n] = NoPool]
  /\ Take(c, pools[n].members)
  /\ Goto(c, "drain")
  /\ UNCHANGED <<status, template, spec, queued, templates, claims>>

Drain(c) ==
  /\ pc[c] = "drain"
  /\ IF hand[c] = << >>
       THEN Goto(c, "idle") /\ UNCHANGED <<status, hand>>
       ELSE /\ Delete(hand[c][Len(hand[c])])
            /\ Take(c, Front(hand[c]))
            /\ UNCHANGED pc
  /\ UNCHANGED <<pools, template, spec, queued, templates, claims>>

-----------------------------------------------------------------------------
(* claim_from_pool                                                         *)

\* Bug: the member is read, and popped only once it is resumed.
ClaimPeek(c, n) ==
  /\ pc[c] = "idle"
  /\ Live(n) /\ pools[n].members # << >>
  /\ Take(c, <<pools[n].members[Len(pools[n].members)]>>)
  /\ SpawnBackfill(<<Home[c], n>>)
  /\ Goto(c, "resume")
  /\ UNCHANGED <<pools, status, template, spec, templates, claims>>

\* pop_member, then a backfill for the replacement.  An empty pool is an
\* error to the caller and changes nothing.
Claim(c, n) ==
  /\ pc[c] = "idle"
  /\ Live(n) /\ pools[n].members # << >>
  /\ Take(c, <<pools[n].members[Len(pools[n].members)]>>)
  /\ pools' = [pools EXCEPT ![n].members = Front(@)]
  /\ SpawnBackfill(<<Home[c], n>>)
  /\ Goto(c, "resume")
  /\ UNCHANGED <<status, template, spec, templates, claims>>

\* resume needs a VMM that answers.
Resume(c) ==
  LET v == hand[c][1] IN
  /\ pc[c] = "resume"
  /\ \/ /\ status[v] \in {"paused", "running"}
        /\ status' = [status EXCEPT ![v] = "running"]
        /\ Goto(c, "return")
     \/ /\ Goto(c, "drop")
        /\ UNCHANGED status
  /\ UNCHANGED <<pools, template, hand, spec, queued, templates, claims>>

\* The record that resume returned is stored with the overrides, whatever
\* became of the VM since; the VM is the caller's.
Return(c) ==
  LET v == hand[c][1] IN
  /\ pc[c] = "return"
  /\ status' = [status EXCEPT ![v] = "running"]
  /\ claims' = [claims EXCEPT ![v] = @ + 1]
  /\ Take(c, << >>)
  /\ Goto(c, "idle")
  /\ UNCHANGED <<pools, template, spec, queued, templates>>

\* The member that could not be resumed, or paused, or pushed, is deleted.
Drop(w) ==
  /\ pc[w] = "drop"
  /\ Delete(hand[w][1])
  /\ Take(w, << >>)
  /\ Goto(w, "idle")
  /\ UNCHANGED <<pools, template, spec, queued, templates, claims>>

-----------------------------------------------------------------------------
(* backfill_pool                                                           *)

\* A waiting backfill gets the mutex.
LockFill(f) ==
  /\ pc[f] = "idle" /\ queued[f] > 0
  /\ queued' = [queued EXCEPT ![f] = @ - 1]
  /\ Goto(f, "check")
  /\ UNCHANGED <<pools, status, template, hand, spec, templates, claims>>

\* Bug: one member more than the size is asked for.
CheckPoolOffByOne(f) ==
  /\ pc[f] = "check"
  /\ IF Live(f[2]) /\ Len(pools[f[2]].members) <= pools[f[2]].size
       THEN /\ Goto(f, "create")
            /\ spec' = [spec EXCEPT ![f].template = pools[f[2]].template]
       ELSE Goto(f, "idle") /\ UNCHANGED spec
  /\ UNCHANGED <<pools, status, template, hand, queued, templates, claims>>

\* The top of the loop: the pool is gone or full, or a member is created.
CheckPool(f) ==
  /\ pc[f] = "check"
  /\ IF Short(f[2])
       THEN /\ Goto(f, "create")
            /\ spec' = [spec EXCEPT ![f].template = pools[f[2]].template]
       ELSE Goto(f, "idle") /\ UNCHANGED spec
  /\ UNCHANGED <<pools, status, template, hand, queued, templates, claims>>

\* create from the template read.
CreateMember(f) ==
  /\ pc[f] = "create"
  /\ \E v \in Vm :
       /\ status[v] = "new"
       /\ status' = [status EXCEPT ![v] = "running"]
       /\ template' = [template EXCEPT ![v] = spec[f].template]
       /\ Take(f, <<v>>)
  /\ Goto(f, "ready")
  /\ UNCHANGED <<pools, spec, queued, templates, claims>>

\* An error from create ends the backfill; the Failed record create may leave
\* has no VMM and is in no pool.
CreateFails(f) ==
  /\ pc[f] = "create"
  /\ Goto(f, "idle")
  /\ UNCHANGED <<pools, status, template, hand, spec, queued, templates, claims>>

\* Bug: a member whose agent never answers is forgotten, not deleted.
AwaitAgentForgets(f) ==
  /\ pc[f] = "ready"
  /\ Goto(f, "pause") \/ Goto(f, "idle")
  /\ UNCHANGED <<pools, status, template, hand, spec, queued, templates, claims>>

\* The guest agent answers a ping, or never does.
AwaitAgent(f) ==
  /\ pc[f] = "ready"
  /\ Goto(f, "pause") \/ Goto(f, "drop")
  /\ UNCHANGED <<pools, status, template, hand, spec, queued, templates, claims>>

\* Bug: a member whose pause failed goes into the pool.
PauseMemberBlindly(f) ==
  LET v == hand[f][1] IN
  /\ pc[f] = "pause"
  /\ \/ /\ status[v] \in {"running", "paused"}
        /\ status' = [status EXCEPT ![v] = "paused"]
     \/ UNCHANGED status
  /\ Goto(f, "push")
  /\ UNCHANGED <<pools, template, hand, spec, queued, templates, claims>>

PauseMember(f) ==
  LET v == hand[f][1] IN
  /\ pc[f] = "pause"
  /\ \/ /\ status[v] \in {"running", "paused"}
        /\ status' = [status EXCEPT ![v] = "paused"]
        /\ Goto(f, "push")
     \/ /\ Goto(f, "drop")
        /\ UNCHANGED status
  /\ UNCHANGED <<pools, template, hand, spec, queued, templates, claims>>

\* Bug: a pool deleted meanwhile keeps the member nowhere.
PushMemberForget(f) ==
  LET n == f[2] IN
  /\ pc[f] = "push"
  /\ IF Live(n)
       THEN /\ pools' = [pools EXCEPT ![n].members = Append(@, hand[f][1])]
            /\ Goto(f, "check")
       ELSE Goto(f, "idle") /\ UNCHANGED pools
  /\ Take(f, << >>)
  /\ UNCHANGED <<status, template, spec, queued, templates, claims>>

\* push_member, then round the loop again.
PushMember(f) ==
  LET n == f[2] IN
  /\ pc[f] = "push"
  /\ IF Live(n)
       THEN /\ pools' = [pools EXCEPT ![n].members = Append(@, hand[f][1])]
            /\ Take(f, << >>)
            /\ Goto(f, "check")
       ELSE Goto(f, "drop") /\ UNCHANGED <<pools, hand>>
  /\ UNCHANGED <<status, template, spec, queued, templates, claims>>

\* Bug: a tick tops up empty pools only.
TickEmpty(p) ==
  /\ p \in Daemon
  /\ queued' = [f \in Filler |->
                  IF f[1] = p /\ Short(f[2]) /\ pools[f[2]].members = << >>
                    THEN Asked(f) ELSE queued[f]]
  /\ UNCHANGED <<pools, status, template, pc, hand, spec, templates, claims>>

\* The reaper's tick: one backfill for every pool below its size.
Tick(p) ==
  /\ p \in Daemon
  /\ queued' = [f \in Filler |->
                  IF f[1] = p /\ Short(f[2]) THEN Asked(f) ELSE queued[f]]
  /\ UNCHANGED <<pools, status, template, pc, hand, spec, templates, claims>>

-----------------------------------------------------------------------------
(* What else happens to members and processes.                             *)

\* A VMM dies and is reconciled, or a caller stops, resumes or deletes the
\* VM by its id.
Meddle(v) ==
  /\ Mishaps
  /\ status[v] \in {"running", "paused", "stopped"}
  /\ \E s \in {"running", "stopped", "gone"} :
       /\ s = "running" => status[v] = "paused"
       /\ s # status[v]
       /\ status' = [status EXCEPT ![v] = s]
  /\ UNCHANGED <<pools, template, pc, hand, spec, queued, templates, claims>>

\* A store operation meets an I/O error: the insert of a pool, the update that
\* ends a claim, the push of a member, or the get of a pool, which reads as
\* no pool.  What the worker had in hand is nobody's.
StoreFails(w) ==
  /\ Mishaps
  /\ pc[w] \in {"insert", "return", "push", "check"}
  /\ Goto(w, "idle")
  /\ Take(w, << >>)
  /\ spec' = [spec EXCEPT ![w] = NoSpec]
  /\ UNCHANGED <<pools, status, template, queued, templates, claims>>

RunsIn(w, p) == IF w \in Client THEN Home[w] = p ELSE w[1] = p

\* A process ends: its requests, backfills and mutexes are gone.
ProcessEnds(p) ==
  /\ p \in Killable
  /\ \E w \in Worker : RunsIn(w, p) /\ pc[w] # "idle"
  /\ pc' = [w \in Worker |-> IF RunsIn(w, p) THEN "idle" ELSE pc[w]]
  /\ hand' = [w \in Worker |-> IF RunsIn(w, p) THEN << >> ELSE hand[w]]
  /\ spec' = [w \in Worker |-> IF RunsIn(w, p) THEN NoSpec ELSE spec[w]]
  /\ queued' = [f \in Filler |-> IF f[1] = p THEN 0 ELSE queued[f]]
  /\ UNCHANGED <<pools, status, template, templates, claims>>

-----------------------------------------------------------------------------
Fill(f) ==
  \/ LockFill(f) \/ CheckPool(f) \/ CreateMember(f) \/ CreateFails(f)
  \/ AwaitAgent(f) \/ PauseMember(f) \/ PushMember(f) \/ Drop(f)

Request(c) ==
  \/ \E n \in Name : CreatePool(c, n) \/ DeletePool(c, n) \/ Claim(c, n)
  \/ InsertPool(c) \/ Drain(c) \/ Resume(c) \/ Return(c) \/ Drop(c)

Next ==
  \/ \E c \in Client : Request(c)
  \/ \E f \in Filler : Fill(f)
  \/ \E p \in Proc : Tick(p) \/ ProcessEnds(p)
  \/ \E v \in Vm : Meddle(v)
  \/ \E w \in Worker : StoreFails(w)

Spec == Init /\ [][Next]_vars

\* Spawned backfills and accepted requests run on, the reaper ticks, and a
\* create that is tried again and again succeeds in the end.
Fairness ==
  /\ \A f \in Filler : WF_vars(Fill(f)) /\ SF_vars(CreateMember(f))
  /\ \A c \in Client :
       WF_vars(InsertPool(c) \/ Drain(c) \/ Resume(c) \/ Return(c) \/ Drop(c))
  /\ \A p \in Proc : WF_vars(Tick(p))

FairSpec == Spec /\ Fairness

-----------------------------------------------------------------------------
(* Properties.                                                             *)

\* The steps at which a worker has one VM in hand.
Working == {"resume", "return", "drop", "ready", "pause", "push"}

Steps ==
  {"idle", "insert", "drain", "resume", "return", "drop",
   "check", "create", "ready", "pause", "push"}

StoreType ==
  /\ pools \in [Name -> PoolRecord \cup {NoPool}]
  /\ status \in [Vm -> {"new", "running", "paused", "stopped", "gone"}]
  /\ template \in [Vm -> 0 .. MaxTemplate]
  /\ templates \in 0 .. MaxTemplate
  /\ claims \in [Vm -> Nat]

SpecType ==
  /\ spec \in [Worker -> [name : Name \cup {NoPool}, size : 0 .. MaxSize,
                          template : 0 .. MaxTemplate]]
  /\ queued \in [Filler -> 0 .. MaxQueued]

HandType ==
  /\ pc \in [Worker -> Steps]
  /\ hand \in [Worker -> Seq(Vm)]
  /\ \A w \in Worker :
       /\ pc[w] \in Working => Len(hand[w]) = 1
       /\ pc[w] \notin Working \cup {"drain"} => hand[w] = << >>

\* Every variable keeps its type, a worker that is about to use a VM has
\* one, and one that waits or checks has none: hand[w][1] is always defined.
TypeOK == StoreType /\ SpecType /\ HandType

\* The VMs at place x: a pool's slots, or what a request or backfill works on.
Held(x) ==
  IF x \in Name THEN (IF Live(x) THEN pools[x].members ELSE << >>)
  ELSE hand[x]

Place == Name \cup Worker

\* No two claims ever get the same VM: a VM is returned by one claim at most,
\* and then no pool holds it and no backfill, claim or drain works on it; nor
\* do two places ever hold it (pop_member removes it under the lock).
ClaimedOnce ==
  /\ \A x, y \in Place : \A i \in DOMAIN Held(x), j \in DOMAIN Held(y) :
       Held(x)[i] = Held(y)[j] => x = y /\ i = j
  /\ \A x \in Place : \A i \in DOMAIN Held(x) : claims[Held(x)[i]] = 0
  /\ \A v \in Vm : claims[v] <= 1

\* Every member of a pool is Paused, while every VMM lives and members are
\* reached through the pool alone: push comes after pause, pop before use.
MembersPaused ==
  \A n \in Name : \A i \in DOMAIN Held(n) : status[Held(n)[i]] = "paused"

\* Backfills overshoot a pool's size by at most one per other process, hence
\* with a single process never, whatever the claims, deletes and re-creations
\* between a check and its push.
BoundedOvershoot ==
  \A n \in Name :
    Live(n) => Len(pools[n].members) + 1 <= pools[n].size + Cardinality(Proc)

\* Every VM a backfill created is accounted for until it is claimed or
\* deleted: a pool lists it, or a request or backfill is at work on it.
NoneAbandoned ==
  \A v \in Vm :
    status[v] \in {"running", "paused", "stopped"} /\ claims[v] = 0
      => \E x \in Place : \E i \in DOMAIN Held(x) : Held(x)[i] = v

\* A pool below its size is topped up: it is full in the end, or deleted, or
\* the model has no VM id left.
PoolConverges ==
  \A n \in Name : Short(n) ~> ~Short(n) \/ \A v \in Vm : status[v] # "new"
=============================================================================
