---------------------------- MODULE FabricProofs ----------------------------
(***************************************************************************)
(* Proofs about the host's packet filters: the XDP guard never fails open, *)
(* and the policy of a VM is never mixed nor wrongly reported in sync.     *)
(***************************************************************************)
EXTENDS Fabric, TLAPS

-----------------------------------------------------------------------------
(* The policy of a VM.                                                     *)

\* The writers of a VM's policy do not overlap.  The code has no lock to
\* ensure it: with two of them at work at once neither result below holds.
OneAtATime == \A t, u \in Task : pc[t] # "idle" /\ pc[u] # "idle" => t = u

MaybePolicy == PolicyRecord \cup {NoPolicy}

ConfigRecord == [known : BOOLEAN, default : BOOLEAN, by_cidr : BOOLEAN, by_port : BOOLEAN]

MapsRecord ==
  [cfg : ConfigRecord, cidrs : SUBSET Dest, ports : SUBSET Port, shown : MaybePolicy]

MetaRecord == [iface : BOOLEAN, prog : Prog \cup {0}, schema : BOOLEAN, fingerprint : MaybePolicy]

JobRecord ==
  [via : {"none", "set", "launch", "stop", "ensure", "rollback"}, base : MaybePolicy,
   old : MaybePolicy, in_place : BOOLEAN, next : {"none", "load", "failed", "gone"}]

Pcs == {"idle", "begin", "unhook", "unpin", "load", "invalidate", "deny", "clear", "fill",
        "publish", "attach", "commit", "table", "chain", "failed", "refused"}

\* Types of the variables that the two properties read.
DType ==
  /\ file \in MaybePolicy
  /\ pin \in Prog \cup {0}
  /\ maps \in [Prog -> MapsRecord]
  /\ meta \in MetaRecord
  /\ pc \in [Task -> Pcs] /\ job \in [Task -> JobRecord]

\* The program lets nothing through.
Shut(m) == m.cfg.known => ~m.cfg.default /\ ~m.cfg.by_cidr /\ ~m.cfg.by_port

\* The maps are those of the policy last published to them.
Exact(m) ==
  /\ m.shown \in PolicyRecord
  /\ m.cfg = Config(m.shown) /\ m.cidrs = m.shown.cidrs /\ m.ports = m.shown.ports

\* A program is shut or exact, between any two commands.
MapsInv == \A i \in Prog : Shut(maps[i]) \/ Exact(maps[i])

\* The markers name the pinned program, and a fingerprint is that of the
\* policy in its maps.
MetaInv ==
  /\ meta.prog = pin
  /\ meta.fingerprint # NoPolicy =>
       pin # 0 /\ Exact(maps[pin]) /\ maps[pin].shown = meta.fingerprint

Writing == {"deny", "clear", "fill", "publish", "attach", "commit"}

\* Where a task is says what it has written so far.
TaskInv(t) ==
  /\ job[t].next = "load" => job[t].base \in PolicyRecord
  /\ pc[t] \in {"unhook", "unpin"} => job[t].next # "none"
  /\ pc[t] \in Writing \cup {"load", "invalidate"} => job[t].next = "load"
  /\ pc[t] \in Writing => meta.fingerprint = NoPolicy
  /\ pc[t] \in {"clear", "fill", "publish"} /\ pin # 0 => Shut(maps[pin])
  /\ pc[t] = "publish" /\ pin # 0 =>
       maps[pin].cidrs = job[t].base.cidrs /\ maps[pin].ports = job[t].base.ports
  /\ pc[t] \in {"attach", "commit"} =>
       pin # 0 /\ Exact(maps[pin]) /\ maps[pin].shown = job[t].base

DInv == DType /\ MapsInv /\ MetaInv /\ \A t \in Task : TaskInv(t)

\* A program that is shut lets nothing through; an exact one lets through
\* what the published policy allows.
LEMMA ShutOrExact ==
  ASSUME NEW m \in MapsRecord
  PROVE  /\ Shut(m) => Passes(m) = {}
         /\ Exact(m) => Passes(m) = Allows(m.shown)
<1>1. ASSUME Shut(m) PROVE Passes(m) = {}
  BY <1>1 DEF Shut, Passes, Verdict
<1>2. ASSUME Exact(m) PROVE Passes(m) = Allows(m.shown)
  <2> DEFINE n == [cfg |-> Config(m.shown), cidrs |-> m.shown.cidrs, ports |-> m.shown.ports]
  <2>1. m.cfg = n.cfg /\ m.cidrs = n.cidrs /\ m.ports = n.ports
    BY <1>2 DEF Exact
  <2> HIDE DEF n
  <2>2. \A packet : Verdict(m, packet) <=> Verdict(n, packet)
    BY <2>1 DEF Verdict
  <2>3. Passes(m) = Passes(n)
    BY <2>2 DEF Passes
  <2> QED
    BY <2>3 DEF Allows, n
<1> QED
  BY <1>1, <1>2

\* The two properties follow from the invariant.
LEMMA DInvSuffices ==
  ASSUME DInv
  PROVE  NoMixedPolicy /\ SyncedMeansCommitted
<1> USE DataplaneAssumption DEF DInv, DType
<1>1. NoMixedPolicy
  <2> SUFFICES ASSUME slot \in Prog
               PROVE  Passes(maps[slot]) \subseteq
                        UNION {Allows(p) : p \in {maps[slot].shown} \cap PolicyRecord}
    BY DEF NoMixedPolicy
  <2>1. maps[slot] \in MapsRecord
    OBVIOUS
  <2>2. CASE Shut(maps[slot])
    BY <2>1, <2>2, ShutOrExact
  <2>3. CASE Exact(maps[slot])
    <3>1. Passes(maps[slot]) = Allows(maps[slot].shown) /\ maps[slot].shown \in PolicyRecord
      BY <2>1, <2>3, ShutOrExact DEF Exact
    <3> QED
      BY <3>1
  <2> QED
    BY <2>2, <2>3 DEF MapsInv
<1>2. SyncedMeansCommitted
  <2> SUFFICES ASSUME Attached, Synced
               PROVE  Passes(maps[slot]) = Allows(Effective)
    BY DEF SyncedMeansCommitted
  <2>1. Effective \in PolicyRecord
    BY DEF Effective, MaybePolicy
  <2>2. meta.fingerprint = Effective /\ meta.fingerprint # NoPolicy
    BY <2>1 DEF Synced
  <2>3. slot = pin /\ pin \in Prog
    BY DEF Attached, OwnsSlot, Owned, MetaInv
  <2>4. Exact(maps[pin]) /\ maps[pin].shown = Effective
    BY <2>2 DEF MetaInv
  <2>5. maps[pin] \in MapsRecord
    BY <2>3
  <2> QED
    BY <2>3, <2>4, <2>5, ShutOrExact
<1> QED
  BY <1>1, <1>2

\* There is no policy, no program and no task at first.
LEMMA DInit == Init => DInv
<1> SUFFICES ASSUME Init PROVE DInv
  OBVIOUS
<1> USE DataplaneAssumption DEF Init
<1>1. NoPolicy \in MaybePolicy
  BY DEF MaybePolicy
<1>2. NewMaps \in MapsRecord /\ Shut(NewMaps)
  BY <1>1 DEF NewMaps, MapsRecord, Closed, ConfigRecord, Shut
<1>3. NoMeta \in MetaRecord /\ NoMeta.prog = 0 /\ NoMeta.fingerprint = NoPolicy
  BY <1>1 DEF NoMeta, MetaRecord
<1>4. NoJob \in JobRecord /\ NoJob.next = "none"
  BY <1>1 DEF NoJob, JobRecord
<1>5. DType
  BY <1>1, <1>2, <1>3, <1>4 DEF DType, Pcs
<1>6. MapsInv /\ MetaInv
  BY <1>2, <1>3 DEF MapsInv, MetaInv
<1>7. \A t \in Task : TaskInv(t)
  BY <1>4 DEF TaskInv, Writing
<1> QED
  BY <1>5, <1>6, <1>7 DEF DInv

\* A step of a task that leaves the pinned program and its maps alone.
LEMMA MoveTask ==
  ASSUME DInv, NEW t \in Task, UNCHANGED <<pin, maps>>,
         meta' \in MetaRecord, meta'.prog = meta.prog, meta'.fingerprint = meta.fingerprint,
         file' \in MaybePolicy,
         NEW s \in Pcs, pc' = [pc EXCEPT ![t] = s],
         NEW j \in JobRecord, job' = [job EXCEPT ![t] = j],
         TaskInv(t)'
  PROVE  DInv'
<1>1. DType'
  BY DEF DInv, DType
<1>2. MapsInv' /\ MetaInv'
  BY DEF DInv, MapsInv, MetaInv
<1>3. ASSUME NEW u \in Task, u # t PROVE TaskInv(u)'
  <2>1. TaskInv(u) /\ pc'[u] = pc[u] /\ job'[u] = job[u]
    BY <1>3 DEF DInv, DType
  <2> QED
    BY <2>1 DEF TaskInv
<1> QED
  BY <1>1, <1>2, <1>3 DEF DInv

\* A step of the one task at work that touches the program, its maps or its
\* markers.
LEMMA SoleTask ==
  ASSUME DInv, OneAtATime, NEW t \in Task, pc[t] # "idle",
         file' \in MaybePolicy,
         pin' \in Prog \cup {0}, maps' \in [Prog -> MapsRecord], meta' \in MetaRecord,
         NEW s \in Pcs, pc' = [pc EXCEPT ![t] = s],
         NEW j \in JobRecord, job' = [job EXCEPT ![t] = j],
         MapsInv', MetaInv', TaskInv(t)'
  PROVE  DInv'
<1>1. DType'
  BY DEF DInv, DType
<1>2. ASSUME NEW u \in Task, u # t PROVE TaskInv(u)'
  <2>1. TaskInv(u) /\ pc'[u] = pc[u] /\ job'[u] = job[u] /\ pc[u] = "idle"
    BY <1>2 DEF DInv, DType, OneAtATime
  <2> QED
    BY <2>1 DEF TaskInv, Writing
<1> QED
  BY <1>1, <1>2 DEF DInv

\* A job may be given its fields one by one.
LEMMA JobEdits ==
  ASSUME NEW j \in JobRecord
  PROVE  /\ NoJob \in JobRecord /\ NoJob.next = "none" /\ NoPolicy \in MaybePolicy
         /\ \A n \in {"failed", "gone"} :
              [j EXCEPT !.next = n] \in JobRecord /\ [j EXCEPT !.next = n].next = n
         /\ \A v \in {"set", "launch", "stop", "ensure", "rollback"}, o \in MaybePolicy :
              LET k == [NoJob EXCEPT !.via = v, !.old = o]
              IN  k \in JobRecord /\ k.next = "none"
         /\ [NoJob EXCEPT !.via = "stop", !.next = "gone"] \in JobRecord
         /\ [NoJob EXCEPT !.via = "stop", !.next = "gone"].next = "gone"
         /\ [j EXCEPT !.via = "stop", !.next = "gone"] \in JobRecord
         /\ [j EXCEPT !.via = "stop", !.next = "gone"].next = "gone"
         /\ \A b \in MaybePolicy, e \in BOOLEAN :
              LET k == [j EXCEPT !.base = b, !.in_place = e, !.next = "load"]
              IN  k \in JobRecord /\ k.next = "load" /\ k.base = b
<1>1. NoPolicy \in MaybePolicy
  BY DEF MaybePolicy
<1> QED
  BY <1>1 DEF JobRecord, NoJob

\* A step of a task that leaves program, maps and markers alone and does not
\* go on to write any: nothing is promised of where it goes.
LEMMA QuietStep ==
  ASSUME DInv, NEW t \in Task, UNCHANGED <<pin, maps>>,
         meta' \in MetaRecord, meta'.prog = meta.prog, meta'.fingerprint = meta.fingerprint,
         file' \in MaybePolicy,
         NEW s \in Pcs \ (Writing \cup {"load", "invalidate"}), pc' = [pc EXCEPT ![t] = s],
         NEW j \in JobRecord, job' = [job EXCEPT ![t] = j],
         j.next = "load" => j.base \in PolicyRecord,
         s \in {"unhook", "unpin"} => j.next # "none"
  PROVE  DInv'
<1>1. pc'[t] = s /\ job'[t] = j
  BY DEF DInv, DType
<1>2. TaskInv(t)'
  BY <1>1 DEF TaskInv, Writing
<1> QED
  BY <1>2, MoveTask DEF Writing

\* A failed command leaves its task outside the writing steps.
LEMMA BacksKeeps ==
  ASSUME DInv, NEW t \in Task, Backs(t), UNCHANGED <<pin, maps>>,
         meta' \in MetaRecord, meta'.prog = meta.prog, meta'.fingerprint = meta.fingerprint,
         UNCHANGED file
  PROVE  DInv'
<1>0. /\ job[t] \in JobRecord /\ job = [job EXCEPT ![t] = job[t]] /\ TaskInv(t)
      /\ file' \in MaybePolicy
  BY DEF DInv, DType
<1>1. CASE /\ Goto(t, "unhook") /\ job' = [job EXCEPT ![t].next = "failed"]
  <2>1. /\ [job[t] EXCEPT !.next = "failed"] \in JobRecord
        /\ [job[t] EXCEPT !.next = "failed"].next = "failed"
    BY <1>0, JobEdits
  <2>2. job' = [job EXCEPT ![t] = [job[t] EXCEPT !.next = "failed"]]
    BY <1>1
  <2>3. "unhook" \in Pcs \ (Writing \cup {"load", "invalidate"})
    BY DEF Pcs, Writing
  <2>4. pc' = [pc EXCEPT ![t] = "unhook"]
    BY <1>1 DEF Goto
  <2> QED
    BY <1>0, <2>1, <2>2, <2>3, <2>4, QuietStep
<1>2. ASSUME NEW s \in {"refused", "failed"}, Goto(t, s), UNCHANGED job
      PROVE  DInv'
  <2>1. s \in Pcs \ (Writing \cup {"load", "invalidate"})
    BY DEF Pcs, Writing
  <2>2. pc' = [pc EXCEPT ![t] = s] /\ job' = [job EXCEPT ![t] = job[t]]
    BY <1>0, <1>2 DEF Goto
  <2> QED
    BY <1>0, <2>1, <2>2, QuietStep DEF TaskInv
<1> QED
  BY <1>1, <1>2 DEF Backs

\* A task that is over is idle with no job.
LEMMA RestKeeps ==
  ASSUME DInv, NEW t \in Task, Rest(t), UNCHANGED <<pin, maps, meta>>, file' \in MaybePolicy
  PROVE  DInv'
<1>1. job[t] \in JobRecord /\ meta \in MetaRecord
  BY DEF DInv, DType
<1>2. NoJob \in JobRecord /\ NoJob.next # "load"
  BY <1>1, JobEdits
<1>3. "idle" \in Pcs \ (Writing \cup {"load", "invalidate"})
  BY DEF Pcs, Writing
<1> QED
  BY <1>1, <1>2, <1>3, QuietStep DEF Rest, Goto

\* Operations begin with the file only.
LEMMA BeginKeeps ==
  ASSUME DInv, NEW t \in Task, UNCHANGED <<pin, maps, meta>>, file' \in MaybePolicy,
         NEW v \in {"set", "launch", "ensure", "rollback"}, NEW o \in MaybePolicy, Begin(t, v, o)
  PROVE  DInv'
<1>1. job[t] \in JobRecord /\ meta \in MetaRecord
  BY DEF DInv, DType
<1> DEFINE k == [NoJob EXCEPT !.via = v, !.old = o]
<1>2. k \in JobRecord /\ k.next # "load"
  BY <1>1, JobEdits
<1>3. "begin" \in Pcs \ (Writing \cup {"load", "invalidate"})
  BY DEF Pcs, Writing
<1>4. pc' = [pc EXCEPT ![t] = "begin"] /\ job' = [job EXCEPT ![t] = k]
  BY DEF Begin, Goto
<1> HIDE DEF k
<1> QED
  BY <1>1, <1>2, <1>3, <1>4, QuietStep

\* So do removals, whose job says that nothing follows.
LEMMA GoneKeeps ==
  ASSUME DInv, NEW t \in Task, UNCHANGED <<pin, maps, meta, file>>,
         NEW k \in JobRecord, k.next = "gone",
         job' = [job EXCEPT ![t] = k], Goto(t, "unhook")
  PROVE  DInv'
<1>1. meta \in MetaRecord /\ file' \in MaybePolicy
  BY DEF DInv, DType
<1>2. "unhook" \in Pcs \ (Writing \cup {"load", "invalidate"})
  BY DEF Pcs, Writing
<1> QED
  BY <1>1, <1>2, QuietStep DEF Goto

\* The maps written by bpftool are those of the pinned program.
LEMMA OnMapsKeeps ==
  ASSUME DInv, OneAtATime, NEW t \in Task, pc[t] \in {"deny", "clear", "fill", "publish"}, pin # 0,
         NEW new \in MapsRecord, NEW s \in {"clear", "fill", "publish", "attach", "commit"},
         OnMaps(t, new, s),
         s \in {"clear", "fill", "publish"} => Shut(new),
         s = "publish" => new.cidrs = job[t].base.cidrs /\ new.ports = job[t].base.ports,
         s \in {"attach", "commit"} => Exact(new) /\ new.shown = job[t].base
  PROVE  DInv'
<1>1. /\ pin \in Prog /\ maps \in [Prog -> MapsRecord] /\ meta \in MetaRecord
      /\ job[t] \in JobRecord /\ TaskInv(t) /\ file \in MaybePolicy /\ MapsInv /\ MetaInv
      /\ pc \in [Task -> Pcs] /\ job \in [Task -> JobRecord]
  BY DEF DInv, DType
<1>2. /\ maps' = [maps EXCEPT ![pin] = new] /\ pc' = [pc EXCEPT ![t] = s]
      /\ UNCHANGED <<file, pin, meta, job>>
  BY DEF OnMaps, Goto
<1>3. maps'[pin] = new /\ \A i \in Prog : i # pin => maps'[i] = maps[i]
  BY <1>1, <1>2
<1>4. meta.fingerprint = NoPolicy /\ job[t].next = "load" /\ job[t].base \in PolicyRecord
  BY <1>1 DEF TaskInv, Writing
<1>5. Shut(new) \/ Exact(new)
  OBVIOUS
<1>6. MapsInv' /\ MetaInv'
  BY <1>1, <1>2, <1>3, <1>4, <1>5 DEF MapsInv, MetaInv
<1>7. pc'[t] = s /\ job'[t] = job[t] /\ pin' = pin /\ meta' = meta
  BY <1>1, <1>2
<1>8. TaskInv(t)'
  BY <1>3, <1>4, <1>7 DEF TaskInv, Writing
<1>9. maps' \in [Prog -> MapsRecord] /\ s \in Pcs /\ job' = [job EXCEPT ![t] = job[t]]
  BY <1>1, <1>2 DEF Pcs
<1> QED
  BY <1>1, <1>2, <1>6, <1>8, <1>9, SoleTask

\* Deny-all first, then the old entries go, then the new ones come, then the
\* config that makes them count: a program is shut until it is exact.
LEMMA MapSteps ==
  ASSUME DInv, OneAtATime, NEW t \in Task,
         PublishDeny(t) \/ ClearMaps(t) \/ FillMaps(t) \/ PublishConfig(t)
  PROVE  DInv'
<1>1. /\ pin # 0 /\ pin \in Prog /\ maps[pin] \in MapsRecord /\ TaskInv(t)
      /\ pc[t] \in {"deny", "clear", "fill", "publish"}
  BY DEF DInv, DType, PublishDeny, ClearMaps, FillMaps, PublishConfig
<1>2. job[t] \in JobRecord /\ job[t].base \in PolicyRecord
  BY <1>1 DEF DInv, DType, TaskInv, Writing
<1>3. job[t].base.cidrs \in SUBSET Dest /\ job[t].base.ports \in SUBSET Port
  BY <1>2 DEF PolicyRecord
<1>4. CASE PublishDeny(t)
  <2>1. /\ [maps[pin] EXCEPT !.cfg = DenyAll] \in MapsRecord
        /\ Shut([maps[pin] EXCEPT !.cfg = DenyAll])
    BY <1>1 DEF MapsRecord, ConfigRecord, DenyAll, Shut
  <2> QED
    BY <1>1, <1>4, <2>1, OnMapsKeeps DEF PublishDeny
<1>5. CASE ClearMaps(t)
  <2> DEFINE new == [maps[pin] EXCEPT !.cidrs = {}, !.ports = {}]
  <2>1. Shut(maps[pin])
    BY <1>1, <1>5 DEF ClearMaps, TaskInv
  <2>2. new \in MapsRecord /\ Shut(new)
    BY <1>1, <2>1 DEF MapsRecord, Shut
  <2>3. OnMaps(t, new, "fill")
    BY <1>5 DEF ClearMaps
  <2> HIDE DEF new
  <2> QED
    BY <1>1, <2>2, <2>3, OnMapsKeeps
<1>6. CASE FillMaps(t)
  <2>1. Shut(maps[pin])
    BY <1>1, <1>6 DEF FillMaps, TaskInv
  <2>2. CASE OnMaps(t, [maps[pin] EXCEPT !.cidrs = job[t].base.cidrs], "fill")
    <3> DEFINE new == [maps[pin] EXCEPT !.cidrs = job[t].base.cidrs]
    <3>1. new \in MapsRecord /\ Shut(new)
      BY <1>1, <1>3, <2>1 DEF MapsRecord, Shut
    <3> HIDE DEF new
    <3> QED
      BY <1>1, <2>2, <3>1, OnMapsKeeps DEF new
  <2>3. CASE /\ maps[pin].cidrs = job[t].base.cidrs
             /\ OnMaps(t, [maps[pin] EXCEPT !.ports = job[t].base.ports], "publish")
    <3> DEFINE new == [maps[pin] EXCEPT !.ports = job[t].base.ports]
    <3>1. new \in MapsRecord /\ Shut(new)
      BY <1>1, <1>3, <2>1 DEF MapsRecord, Shut
    <3>2. new.cidrs = job[t].base.cidrs /\ new.ports = job[t].base.ports
      BY <1>1, <2>3 DEF MapsRecord
    <3>3. OnMaps(t, new, "publish")
      BY <2>3
    <3> HIDE DEF new
    <3> QED
      BY <1>1, <3>1, <3>2, <3>3, OnMapsKeeps
  <2> QED
    BY <1>6, <2>2, <2>3 DEF FillMaps
<1>7. CASE PublishConfig(t)
  <2> DEFINE new == [maps[pin] EXCEPT !.cfg = Config(job[t].base), !.shown = job[t].base]
             s == IF job[t].in_place THEN "commit" ELSE "attach"
  <2>1. Config(job[t].base) \in ConfigRecord
    BY <1>2 DEF Config, ConfigRecord, PolicyRecord
  <2>2. /\ new \in MapsRecord /\ new.cfg = Config(job[t].base) /\ new.shown = job[t].base
        /\ new.cidrs = maps[pin].cidrs /\ new.ports = maps[pin].ports
    BY <1>1, <1>2, <2>1 DEF MapsRecord, MaybePolicy
  <2>3. maps[pin].cidrs = job[t].base.cidrs /\ maps[pin].ports = job[t].base.ports
    BY <1>1, <1>7 DEF PublishConfig, TaskInv
  <2>4. OnMaps(t, new, s) /\ s \in {"attach", "commit"}
    BY <1>7 DEF PublishConfig
  <2> HIDE DEF new, s
  <2>5. Exact(new)
    BY <1>2, <2>2, <2>3 DEF Exact
  <2> QED
    BY <1>1, <2>2, <2>4, <2>5, OnMapsKeeps
<1> QED
  BY <1>4, <1>5, <1>6, <1>7

\* Steps that begin or end an operation, or write nothing of the program.
LEMMA OuterSteps ==
  ASSUME DInv, NEW t \in Task,
         \/ \E p \in Policy : SetPolicy(t, p)
         \/ Launch(t) \/ Stop(t) \/ Reconcile(t) \/ CollectOrphan(t)
         \/ MapsFail(t) \/ NoAddress(t) \/ RollBack(t) \/ FallBack(t)
         \/ LaunchFails(t) \/ GiveUp(t) \/ Kill(t)
  PROVE  DInv'
<1>0. /\ file \in MaybePolicy /\ Policy \subseteq MaybePolicy /\ NoPolicy \in MaybePolicy
      /\ job[t] \in JobRecord /\ job[t].old \in MaybePolicy /\ meta \in MetaRecord
      /\ pc \in [Task -> Pcs] /\ job \in [Task -> JobRecord] /\ TaskInv(t)
  BY DataplaneAssumption DEF DInv, DType, MaybePolicy, JobRecord
<1>1. ASSUME NEW p \in Policy, SetPolicy(t, p) PROVE DInv'
  <2>1. file' \in MaybePolicy /\ UNCHANGED <<pin, maps, meta>>
    BY <1>0, <1>1 DEF SetPolicy, SavePolicy, hostVars
  <2>2. CASE running
    BY <1>0, <1>1, <2>1, <2>2, BeginKeeps DEF SetPolicy
  <2>3. CASE ~running
    <3>1. pc' = [pc EXCEPT ![t] = pc[t]] /\ job' = [job EXCEPT ![t] = job[t]]
      BY <1>0, <1>1, <2>3 DEF SetPolicy
    <3>2. TaskInv(t)'
      BY <1>0, <1>1, <2>1, <2>3 DEF SetPolicy, TaskInv
    <3> QED
      BY <1>0, <2>1, <3>1, <3>2, MoveTask
  <2> QED
    BY <2>2, <2>3
<1>2. CASE Launch(t) \/ Reconcile(t)
  BY <1>0, <1>2, BeginKeeps DEF Launch, Reconcile, hostVars
<1>3. CASE Stop(t) \/ CollectOrphan(t)
  <2> DEFINE k == [NoJob EXCEPT !.via = "stop", !.next = "gone"]
  <2>1. k \in JobRecord /\ k.next = "gone"
    BY <1>0, JobEdits
  <2>2. UNCHANGED <<pin, maps, meta, file>> /\ job' = [job EXCEPT ![t] = k] /\ Goto(t, "unhook")
    BY <1>3 DEF Stop, CollectOrphan, hostVars
  <2> HIDE DEF k
  <2> QED
    BY <2>1, <2>2, GoneKeeps
<1>4. CASE MapsFail(t)
  BY <1>0, <1>4, BacksKeeps DEF MapsFail, Fails, hostVars
<1>5. CASE NoAddress(t)
  BY <1>0, <1>5, BacksKeeps, RestKeeps DEF NoAddress, Done, hostVars
<1>6. CASE RollBack(t)
  BY <1>0, <1>6, BeginKeeps DEF RollBack, SavePolicy, hostVars
<1>7. CASE FallBack(t)
  <2>1. "table" \in Pcs \ (Writing \cup {"load", "invalidate"})
    BY DEF Pcs, Writing
  <2>2. /\ pc' = [pc EXCEPT ![t] = "table"] /\ job' = [job EXCEPT ![t] = job[t]]
        /\ UNCHANGED <<pin, maps, meta, file>>
    BY <1>0, <1>7 DEF FallBack, Goto, hostVars
  <2>3. job[t].next = "load" => job[t].base \in PolicyRecord
    BY <1>0 DEF TaskInv
  <2> QED
    BY <1>0, <2>1, <2>2, <2>3, QuietStep
<1>8. CASE LaunchFails(t)
  <2> DEFINE k == [job[t] EXCEPT !.via = "stop", !.next = "gone"]
  <2>1. k \in JobRecord /\ k.next = "gone"
    BY <1>0, JobEdits
  <2>2. UNCHANGED <<pin, maps, meta, file>> /\ (Rest(t) \/ (job' = [job EXCEPT ![t] = k] /\ Goto(t, "unhook")))
    BY <1>8 DEF LaunchFails, Done
  <2> HIDE DEF k
  <2> QED
    BY <1>0, <2>1, <2>2, RestKeeps, GoneKeeps
<1>9. CASE GiveUp(t) \/ Kill(t)
  BY <1>0, <1>9, RestKeeps DEF GiveUp, Kill, hostVars
<1> QED
  BY <1>1, <1>2, <1>3, <1>4, <1>5, <1>6, <1>7, <1>8, <1>9

\* The routes, removal and the nftables steps.
LEMMA RouteSteps ==
  ASSUME DInv, OneAtATime, NEW t \in Task,
         Route(t) \/ Unhook(t) \/ Unpin(t) \/ ResetTable(t) \/ BuildTable(t)
  PROVE  DInv'
<1>0. /\ file \in MaybePolicy /\ job[t] \in JobRecord /\ meta \in MetaRecord /\ maps \in [Prog -> MapsRecord]
      /\ pc \in [Task -> Pcs] /\ job \in [Task -> JobRecord] /\ TaskInv(t)
      /\ job = [job EXCEPT ![t] = job[t]] /\ MapsInv
  BY DEF DInv, DType
<1>1. CASE Route(t)
  <2> DEFINE edit == job[t].via \in {"set", "rollback"} /\ Attached
             k == [job[t] EXCEPT !.base = Effective, !.in_place = edit, !.next = "load"]
  <2>1. Effective \in PolicyRecord /\ Effective \in MaybePolicy
    BY <1>0, DataplaneAssumption DEF Effective, MaybePolicy
  <2>2. k \in JobRecord /\ k.next = "load" /\ k.base = Effective
    <3>1. edit \in BOOLEAN
      OBVIOUS
    <3> HIDE DEF edit
    <3> QED
      BY <1>0, <2>1, <3>1 DEF JobRecord
  <2>3. CASE Rest(t)
    BY <1>0, <1>1, <2>3, RestKeeps DEF Route, hostVars
  <2>4. ASSUME NEW s \in {"table", "unhook", "invalidate"}, pc' = [pc EXCEPT ![t] = s],
               job' = [job EXCEPT ![t] = k]
        PROVE  DInv'
    <3>1. pc'[t] = s /\ job'[t] = k /\ s \in Pcs
      BY <1>0, <2>4 DEF Pcs
    <3> HIDE DEF k
    <3>2. TaskInv(t)'
      BY <2>1, <2>2, <3>1 DEF TaskInv, Writing
    <3> QED
      BY <1>0, <1>1, <2>2, <2>4, <3>1, <3>2, MoveTask DEF Route, hostVars
  <2>5. Rest(t) \/ \E s \in {"table", "unhook", "invalidate"} :
                     pc' = [pc EXCEPT ![t] = s] /\ job' = [job EXCEPT ![t] = k]
    BY <1>1 DEF Route, Goto
  <2> QED
    BY <2>3, <2>4, <2>5
<1>2. CASE Unhook(t)
  <2>1. "unpin" \in Pcs \ (Writing \cup {"load", "invalidate"})
    BY DEF Pcs, Writing
  <2> QED
    BY <1>0, <1>2, <2>1, QuietStep DEF Unhook, Goto, TaskInv
<1>3. CASE Unpin(t)
  <2>1. /\ NoMeta \in MetaRecord /\ NoMeta.prog = 0 /\ NoMeta.fingerprint = NoPolicy
        /\ NoJob \in JobRecord /\ NoJob.next = "none"
    BY <1>0, JobEdits DEF NoMeta, MetaRecord
  <2>2. pin' = 0 /\ meta' = NoMeta /\ UNCHANGED <<maps, file>>
    BY <1>3 DEF Unpin
  <2>3. MapsInv' /\ MetaInv'
    BY <1>0, <2>1, <2>2 DEF MapsInv, MetaInv
  <2>4. PICK s \in {"idle", "load", "failed"}, k \in {NoJob, job[t]} :
          /\ pc' = [pc EXCEPT ![t] = s] /\ job' = [job EXCEPT ![t] = k]
          /\ s = "load" => k = job[t] /\ job[t].next = "load"
    BY <1>0, <1>3 DEF Unpin, Rest, Goto, JobRecord, TaskInv
  <2>5. TaskInv(t)'
    BY <1>0, <2>1, <2>2, <2>4 DEF TaskInv, Writing
  <2> QED
    BY <1>0, <1>3, <2>1, <2>2, <2>3, <2>4, <2>5, SoleTask DEF Unpin, Pcs
<1>4. CASE ResetTable(t) \/ BuildTable(t)
  <2>1. "chain" \in Pcs \ (Writing \cup {"load", "invalidate"})
    BY DEF Pcs, Writing
  <2>2. /\ UNCHANGED <<pin, maps, meta, file>>
        /\ Backs(t) \/ Rest(t) \/ (pc' = [pc EXCEPT ![t] = "chain"] /\ job' = [job EXCEPT ![t] = job[t]])
    BY <1>0, <1>4 DEF ResetTable, BuildTable, Fails, Done, Goto
  <2> QED
    BY <1>0, <2>1, <2>2, QuietStep, BacksKeeps, RestKeeps DEF TaskInv
<1> QED
  BY <1>1, <1>2, <1>3, <1>4

\* A program is loaded shut, attached once exact and then marked as such;
\* an update in place unmarks it first.
LEMMA ApplySteps ==
  ASSUME DInv, OneAtATime, NEW t \in Task,
         Load(t) \/ Invalidate(t) \/ Attach(t) \/ Commit(t)
  PROVE  DInv'
<1>0. /\ file \in MaybePolicy /\ job[t] \in JobRecord /\ meta \in MetaRecord /\ maps \in [Prog -> MapsRecord]
      /\ pc \in [Task -> Pcs] /\ job \in [Task -> JobRecord] /\ TaskInv(t)
      /\ job = [job EXCEPT ![t] = job[t]] /\ MapsInv /\ MetaInv /\ pin \in Prog \cup {0}
      /\ NoPolicy \in MaybePolicy
  BY DEF DInv, DType, MaybePolicy
<1>1. CASE Load(t)
  <2>1. CASE Fails(t) /\ UNCHANGED <<pin, maps, meta, file>>
    BY <1>0, <2>1, BacksKeeps DEF Fails
  <2>2. ASSUME NEW i \in Prog, pin' = i, maps' = [maps EXCEPT ![i] = NewMaps],
               meta' = [NoMeta EXCEPT !.iface = TRUE, !.prog = i],
               pc' = [pc EXCEPT ![t] = "clear"], UNCHANGED <<job, file>>
        PROVE  DInv'
    <3>1. NewMaps \in MapsRecord /\ Shut(NewMaps)
      BY <1>0 DEF NewMaps, MapsRecord, Closed, ConfigRecord, Shut
    <3>2. meta' \in MetaRecord /\ meta'.prog = i /\ meta'.fingerprint = NoPolicy
      BY <1>0, <2>2 DEF NoMeta, MetaRecord
    <3>3. /\ maps' \in [Prog -> MapsRecord] /\ maps'[i] = NewMaps
          /\ \A j \in Prog : j # i => maps'[j] = maps[j]
      BY <1>0, <2>2, <3>1
    <3>4. MapsInv' /\ MetaInv'
      BY <1>0, <2>2, <3>1, <3>2, <3>3 DEF MapsInv, MetaInv
    <3>5. pc'[t] = "clear" /\ job'[t] = job[t] /\ job[t].next = "load"
      BY <1>0, <1>1, <2>2 DEF Load, TaskInv, Writing
    <3>6. TaskInv(t)'
      BY <1>0, <2>2, <3>1, <3>2, <3>3, <3>5 DEF TaskInv, Writing
    <3>7. "clear" \in Pcs /\ pc[t] # "idle"
      BY <1>1 DEF Pcs, Load
    <3> QED
      BY <1>0, <2>2, <3>2, <3>3, <3>4, <3>6, <3>7, SoleTask
  <2> QED
    BY <1>1, <2>1, <2>2 DEF Load, Goto
<1>2. CASE Invalidate(t)
  <2>1. CASE Fails(t) /\ UNCHANGED <<pin, maps, meta, file>>
    BY <1>0, <2>1, BacksKeeps DEF Fails
  <2>2. CASE /\ meta' = [meta EXCEPT !.fingerprint = NoPolicy] /\ pc' = [pc EXCEPT ![t] = "deny"]
             /\ UNCHANGED <<job, file, pin, maps>>
    <3>1. meta' \in MetaRecord /\ meta'.prog = meta.prog /\ meta'.fingerprint = NoPolicy
      BY <1>0, <2>2 DEF MetaRecord
    <3>2. MapsInv' /\ MetaInv'
      BY <1>0, <2>2, <3>1 DEF MapsInv, MetaInv
    <3>3. pc'[t] = "deny" /\ job'[t] = job[t] /\ pc[t] = "invalidate" /\ "deny" \in Pcs
      BY <1>0, <1>2, <2>2 DEF Invalidate, Pcs
    <3>4. TaskInv(t)'
      BY <1>0, <3>1, <3>3 DEF TaskInv, Writing
    <3> QED
      BY <1>0, <2>2, <3>1, <3>2, <3>3, <3>4, SoleTask
  <2> QED
    BY <1>2, <2>1, <2>2 DEF Invalidate, Goto
<1>3. CASE Attach(t)
  <2> DEFINE m == [meta EXCEPT !.schema = TRUE]
  <2>1. m \in MetaRecord /\ m.prog = meta.prog /\ m.fingerprint = meta.fingerprint
    BY <1>0 DEF MetaRecord
  <2>2. UNCHANGED <<pin, maps, file>> /\ meta' \in {m, meta}
    BY <1>3 DEF Attach
  <2> HIDE DEF m
  <2>3. CASE Backs(t)
    BY <1>0, <2>1, <2>2, <2>3, BacksKeeps
  <2>4. CASE pc' = [pc EXCEPT ![t] = "commit"] /\ UNCHANGED job
    <3>1. /\ pc'[t] = "commit" /\ job'[t] = job[t] /\ pc[t] = "attach" /\ "commit" \in Pcs
          /\ UNCHANGED <<pin, maps>>
      BY <1>0, <1>3, <2>2, <2>4 DEF Attach, Pcs
    <3>2. TaskInv(t)'
      BY <1>0, <2>1, <2>2, <3>1 DEF TaskInv, Writing
    <3> QED
      BY <1>0, <2>1, <2>2, <2>4, <3>1, <3>2, MoveTask
  <2> QED
    BY <1>3, <2>3, <2>4 DEF Attach, Fails, Goto
<1>4. CASE Commit(t)
  <2>1. CASE Fails(t) /\ UNCHANGED <<pin, maps, meta, file>>
    BY <1>0, <2>1, BacksKeeps DEF Fails
  <2>2. CASE /\ meta' = [meta EXCEPT !.fingerprint = job[t].base]
             /\ Rest(t) /\ UNCHANGED <<file, pin, maps>>
    <3>1. pc[t] = "commit" /\ job[t].base \in MaybePolicy
      BY <1>0, <1>4 DEF Commit, JobRecord
    <3>2. meta' \in MetaRecord /\ meta'.prog = meta.prog /\ meta'.fingerprint = job[t].base
      BY <1>0, <2>2, <3>1 DEF MetaRecord
    <3>3. MapsInv' /\ MetaInv'
      BY <1>0, <2>2, <3>1, <3>2 DEF MapsInv, MetaInv, TaskInv
    <3>4. /\ NoJob \in JobRecord /\ NoJob.next = "none" /\ "idle" \in Pcs
          /\ pc' = [pc EXCEPT ![t] = "idle"] /\ job' = [job EXCEPT ![t] = NoJob]
      BY <1>0, <2>2, JobEdits DEF Pcs, Rest, Goto
    <3>5. TaskInv(t)'
      BY <1>0, <3>4 DEF TaskInv, Writing
    <3> QED
      BY <1>0, <2>2, <3>1, <3>2, <3>3, <3>4, <3>5, SoleTask
  <2> QED
    BY <1>4, <2>1, <2>2 DEF Commit, Done
<1> QED
  BY <1>1, <1>2, <1>3, <1>4

\* Every step keeps the invariant, as long as writers do not overlap.
LEMMA DStepInv ==
  ASSUME DInv, OneAtATime, Next
  PROVE  DInv'
<1>1. ASSUME NEW t \in Task, Work(t) PROVE DInv'
  BY <1>1, MapSteps, OuterSteps, RouteSteps, ApplySteps DEF Work
<1>2. CASE TakeSlot
  BY <1>2 DEF TakeSlot, DInv, DType, MapsInv, MetaInv, TaskInv
<1> QED
  BY <1>1, <1>2, OuterSteps DEF Next

\* The invariant reads the variables of the VM's policy only.
LEMMA DStutterInv ==
  ASSUME DInv, UNCHANGED vars
  PROVE  DInv'
  BY DEF vars, hostVars, DInv, DType, MapsInv, MetaInv, TaskInv

\* The invariant holds throughout, for any number of tasks of which no two
\* are at work at the same time.
LEMMA DInvHolds == FabricSpec /\ []OneAtATime => []DInv
<1>1. FabricInit => DInv
  BY DInit DEF FabricInit
<1>2. DInv /\ OneAtATime /\ [FabricNext]_allVars => DInv'
  BY DStepInv, DStutterInv DEF FabricNext, allVars
<1> QED
  BY <1>1, <1>2, PTL DEF FabricSpec

\* Nothing ever passes that the policy last published to the attached
\* program does not allow: no mix of two policies while the maps are
\* rewritten, nor after a failure or a kill in between (ebpf.rs:
\* reconfigure, configure_maps).  For writers that do not overlap, which a
\* single one never does.
THEOREM PolicyNeverMixed == FabricSpec /\ []OneAtATime => []NoMixedPolicy
  BY DInvHolds, DInvSuffices, PTL

\* status() reports a VM attached and in sync only when the attached maps
\* pass exactly what the durable policy allows (dataplane.rs: status,
\* policy_synced).  For writers that do not overlap.
THEOREM SyncedIsCommitted == FabricSpec /\ []OneAtATime => []SyncedMeansCommitted
  BY DInvHolds, DInvSuffices, PTL

-----------------------------------------------------------------------------
(* The XDP guard.                                                          *)

Steps == {"up", "detach", "unpin", "probe", "load", "add", "prune", "attach"}

\* Types of the guard's variables.
XType ==
  /\ want \in SUBSET Cidr /\ kept \in SUBSET Cidr
  /\ link \in XProg \cup {0, Other} /\ root \in XProg \cup {0}
  /\ marker \in [iface : BOOLEAN, prog : XProg \cup {0}]
  /\ blocks \in [XProg -> SUBSET Cidr]
  /\ step \in Steps /\ then \in {"up", "probe"}
  /\ xfaults \in Nat

\* The markers and the pin name the same program.
Marked == root \in XProg /\ marker.iface /\ marker.prog = root

\* While maps are written the program is pinned and marked; it is attached
\* with every wanted key.
Prepared ==
  /\ step \in {"add", "prune", "attach"} => Marked
  /\ step = "attach" => want \subseteq blocks[root]

\* A program of ours on the uplink is the one pinned and marked, so that no
\* step takes it for a stranger's, and ensure() is nowhere near replacing it.
InService ==
  link \in XProg =>
    /\ Marked /\ link = root
    /\ step \in {"up", "detach", "add", "prune"}
    /\ step = "detach" => then = "up"
    /\ step \in {"add", "prune"} => kept \subseteq want

XInv == XType /\ Prepared /\ InService /\ NeverFailOpen

\* Our program in service is recognised by attachment_is_ours, and nothing
\* else is.
LEMMA OursIsInService ==
  ASSUME XInv
  PROVE  /\ link \in XProg => Ours
         /\ Ours => link \in XProg /\ Marked /\ link = root
<1> USE XdpAssumption
<1>1. 0 \notin XProg /\ Other \notin XProg
  OBVIOUS
<1>2. CASE link \in XProg
  BY <1>1, <1>2 DEF XInv, XType, InService, Marked, Ours, OwnedId
<1>3. CASE link \notin XProg
  BY <1>1, <1>3 DEF XInv, XType, Ours, OwnedId
<1> QED
  BY <1>2, <1>3

\* Nothing is on the uplink when the daemon first starts.
LEMMA XdpInitInv == XdpInit => XInv
  BY XdpAssumption
     DEF XdpInit, XInv, XType, Prepared, InService, NeverFailOpen, Steps, NoMarker, Marked

\* Every step of ensure(), of remove() and of the rest of the node keeps the
\* program in service recognisable and every kept CIDR in its map.
LEMMA XdpStepInv ==
  ASSUME XInv, XdpNext
  PROVE  XInv'
<1> USE XdpAssumption DEF XInv, XType, Steps
<1>0. /\ link \in XProg => Ours
      /\ Ours => link \in XProg /\ Marked /\ link = root
  BY OursIsInService
<1>z. 0 \notin XProg /\ Other \notin XProg /\ Other # 0
  OBVIOUS
<1>1. ASSUME NEW w \in SUBSET Cidr, StartGuarded(w)
      PROVE  XInv'
  <2> USE <1>0, <1>1, <1>z DEF StartGuarded
  <2>1. XType'
    OBVIOUS
  <2>2. Prepared' /\ InService'
    BY DEF Prepared, InService, Marked
  <2>3. NeverFailOpen'
    BY DEF NeverFailOpen
  <2> QED
    BY <2>1, <2>2, <2>3
<1>2. CASE StartUnguarded
  BY <1>0, <1>2, <1>z DEF StartUnguarded, Prepared, InService, Marked, NeverFailOpen
<1>3. CASE Detach
  BY <1>0, <1>3, <1>z DEF Detach, XFault, Prepared, InService, Marked, NeverFailOpen
<1>4. CASE UnpinGuard
  <2>1. link \notin XProg /\ UNCHANGED <<want, link, blocks, then, kept>>
    BY <1>4 DEF UnpinGuard, InService
  <2>2. marker' \in [iface : BOOLEAN, prog : XProg \cup {0}]
    <3>1. NoMarker \in [iface : BOOLEAN, prog : XProg \cup {0}]
      BY DEF NoMarker
    <3> QED
      BY <1>4, <3>1 DEF UnpinGuard
  <2>3. root' = 0 /\ step' \in {"up", "probe"} /\ xfaults' \in Nat
    BY <1>4 DEF UnpinGuard, XFault
  <2> QED
    BY <2>1, <2>2, <2>3 DEF Prepared, InService, NeverFailOpen
<1>5. CASE Probe
  BY <1>0, <1>5, <1>z DEF Probe, Prepared, InService, Marked, NeverFailOpen
<1>6. CASE LoadProgram
  <2>1. link \notin XProg /\ link' = link
    BY <1>6 DEF LoadProgram, InService
  <2>2. CASE /\ XFails
             /\ marker' = [iface |-> TRUE, prog |-> 0]
             /\ UNCHANGED <<root, blocks, kept, want, link>>
    BY <2>1, <2>2, <1>6 DEF LoadProgram, XFails, XFault, Prepared, InService, Marked, NeverFailOpen
  <2>3. ASSUME NEW i \in XProg, root' = i, marker' = [iface |-> TRUE, prog |-> i],
               blocks' = [blocks EXCEPT ![i] = {}], kept' = {}, step' = "add",
               UNCHANGED <<then, xfaults, want, link>>
        PROVE  XInv'
    BY <2>1, <2>3 DEF Prepared, InService, Marked, NeverFailOpen
  <2> QED
    BY <1>6, <2>2, <2>3 DEF LoadProgram
<1>7. CASE AddKeys
  <2>1. Marked /\ step = "add"
    BY <1>7 DEF AddKeys, Prepared
  <2>2. PICK some \in SUBSET want :
          blocks' = [blocks EXCEPT ![root] = @ \cup some] \/ blocks' = blocks
    BY <1>7 DEF AddKeys
  <2>3. /\ blocks' \in [XProg -> SUBSET Cidr]
        /\ \A i \in XProg : blocks[i] \subseteq blocks'[i]
    BY <2>1, <2>2 DEF Marked
  <2>4. /\ UNCHANGED <<want, link, root, marker, kept>>
        /\ xfaults' \in Nat /\ then' \in {"up", "probe"}
        /\ step' \in {"up", "prune"} \/ (step' = "detach" /\ ~Ours)
    BY <1>7 DEF AddKeys, XFails, XFault
  <2> QED
    BY <1>0, <1>z, <2>1, <2>3, <2>4 DEF Prepared, InService, Marked, NeverFailOpen
<1>8. CASE PruneKeys
  <2>1. Marked /\ step = "prune" /\ UNCHANGED <<want, link, root, marker>>
    BY <1>8 DEF PruneKeys, Prepared
  <2>2. CASE /\ blocks' = [blocks EXCEPT ![root] = want]
             /\ IF Ours THEN step' = "up" /\ kept' = want ELSE step' = "attach" /\ UNCHANGED kept
             /\ UNCHANGED <<then, xfaults>>
    BY <1>0, <1>z, <2>1, <2>2 DEF Prepared, InService, Marked, NeverFailOpen
  <2>3. ASSUME XFails, UNCHANGED kept,
               NEW some \in SUBSET (blocks[root] \ want), blocks' = [blocks EXCEPT ![root] = @ \ some]
        PROVE  XInv'
    <3>1. /\ xfaults' \in Nat /\ then' \in {"up", "probe"}
          /\ step' = "up" \/ (step' = "detach" /\ ~Ours)
      BY <2>3 DEF XFails, XFault
    <3>2. blocks' \in [XProg -> SUBSET Cidr]
      BY <2>1, <2>3 DEF Marked
    <3>3. link \in XProg => kept \subseteq blocks'[link]
      BY <2>1, <2>3 DEF Marked, InService, NeverFailOpen
    <3> QED
      BY <1>0, <1>z, <2>1, <2>3, <3>1, <3>2, <3>3 DEF Prepared, InService, Marked, NeverFailOpen
  <2> QED
    BY <1>8, <2>2, <2>3 DEF PruneKeys
<1>9. CASE AttachProgram
  BY <1>0, <1>9, <1>z DEF AttachProgram, XFails, XFault, Prepared, InService, Marked, NeverFailOpen
<1>10. CASE KillStart
  BY <1>10 DEF KillStart, XFault, Prepared, InService, Marked, NeverFailOpen
<1>11. CASE OtherComes
  BY <1>11, <1>z DEF OtherComes, Prepared, InService, Marked, NeverFailOpen
<1>12. CASE OtherGoes
  BY <1>12, <1>z DEF OtherGoes, Prepared, InService, Marked, NeverFailOpen
<1> QED
  BY <1>1, <1>2, <1>3, <1>4, <1>5, <1>6, <1>7, <1>8, <1>9, <1>10, <1>11, <1>12 DEF XdpNext

\* The invariant reads the guard's variables only.
LEMMA XdpStutterInv ==
  ASSUME XInv, UNCHANGED xdpVars
  PROVE  XInv'
  BY DEF XInv, XType, Steps, Prepared, InService, Marked, NeverFailOpen, xdpVars

\* While our guard is on the uplink, a CIDR that every start since the last
\* successful one has configured is blocked at every moment, whatever
\* commands fail, whenever the daemon is killed and whatever other software
\* attaches (xdp.rs: ensure, reconfigure_maps, sync_block_map).
THEOREM GuardNeverFailsOpen == FabricSpec => []NeverFailOpen
<1>1. FabricInit => XInv
  BY XdpInitInv DEF FabricInit
<1>2. XInv /\ [FabricNext]_allVars => XInv'
  BY XdpStepInv, XdpStutterInv DEF FabricNext, allVars
<1>3. XInv => NeverFailOpen
  BY DEF XInv
<1> QED
  BY <1>1, <1>2, <1>3, PTL DEF FabricSpec
=============================================================================
