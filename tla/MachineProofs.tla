---------------------------- MODULE MachineProofs ----------------------------
(***************************************************************************)
(* Proofs about what a VM has on its host: its chroot and its volume have  *)
(* an owner, the image catalog keeps every update and vouches for what it  *)
(* resolves, and the control channel of the VMM does what it reports.      *)
(***************************************************************************)
EXTENDS Machine, SequenceTheorems, TLAPS

-----------------------------------------------------------------------------
(* The chroot.                                                             *)

Launching == {"directory", "kernel", "rootfs", "spawn"}

Removing == {"workspace", "workspace and jail", "jail"}

PlacedFile == {"none", "link", "image", "written", "empty"}

\* Types of Jail's variables.
JailType ==
  /\ same_fs \in BOOLEAN
  /\ kernel \in {"image", "empty"}
  /\ disk \in [JailedVm -> PlacedFile \ {"link"}]
  /\ jail \in [JailedVm -> [dir : BOOLEAN, kernel : PlacedFile, rootfs : PlacedFile]]
  /\ stored \in [JailedVm -> [status : {"none", "Creating", "Running", "Stopped", "Failed"},
                              jail_path : BOOLEAN]]
  /\ at \in [JailedVm -> {"idle"} \cup Launching \cup Removing]
  /\ launches \in [JailedVm -> Nat]

\* What the step an operation is at says of the record and the chroot.
OpInv(v) ==
  /\ at[v] \in Launching => stored[v].status # "Running" /\ launches[v] # 0
  /\ stored[v].status # "none" => launches[v] # 0
  /\ at[v] \in {"idle", "workspace"} /\ jail[v].dir => stored[v].jail_path \/ v \in unlucky

\* A first launch finds nothing in the chroot, and without a common file
\* system there are no links at all.
FreshJail(v) ==
  /\ launches[v] <= 1 /\ at[v] \in {"directory", "kernel"} => jail[v].kernel = "none"
  /\ launches[v] <= 1 /\ at[v] \in {"directory", "kernel", "rootfs"} => jail[v].rootfs = "none"
  /\ ~same_fs => jail[v].kernel # "link" /\ jail[v].rootfs # "link"

JailInv ==
  /\ JailType
  /\ \A v \in JailedVm : OpInv(v) /\ FreshJail(v)
  /\ SourcesKept

\* A step on v: the other VMs have their own chroots, records and disks.
LEMMA JailFrame ==
  ASSUME JailInv, JailType', NEW v \in JailedVm, UNCHANGED same_fs,
         \A u \in JailedVm \ {v} :
           /\ jail'[u] = jail[u] /\ stored'[u] = stored[u] /\ at'[u] = at[u]
           /\ launches'[u] = launches[u] /\ (u \in unlucky' <=> u \in unlucky),
         OpInv(v)', FreshJail(v)', SourcesKept'
  PROVE  JailInv'
  BY DEF JailInv, OpInv, FreshJail

\* A launch keeps the sources it places: what it finds is no link to them.
LEMMA Placement ==
  ASSUME JailType, NEW src \in PlacedFile \ {"link"}, NEW dst \in PlacedFile
  PROVE  /\ LinkOrCopy(src, dst).dst \in PlacedFile
         /\ LinkOrCopy(src, dst).src \in {src, "empty"}
         /\ dst # "link" => LinkOrCopy(src, dst).src = src
         /\ ~same_fs /\ dst # "link" => LinkOrCopy(src, dst).dst # "link"
<1>1. CASE dst = "none" /\ same_fs
  BY <1>1 DEF LinkOrCopy, PlacedFile, JailType
<1>2. CASE dst = "link"
  BY <1>2 DEF LinkOrCopy, PlacedFile
<1>3. CASE dst # "link" /\ ~(dst = "none" /\ same_fs)
  BY <1>3 DEF LinkOrCopy, PlacedFile
<1> QED
  BY <1>1, <1>2, <1>3

\* Every step of create, start, launch, stop and delete keeps the chroot's
\* invariant.
LEMMA JailStep ==
  ASSUME JailInv, JailNext
  PROVE  JailInv'
<1>p. PICK v \in JailedVm :
        \/ CreateJailed(v) \/ StartJailed(v)
        \/ CreateDir(v) \/ PlaceKernel(v) \/ PlaceRootfs(v) \/ Spawn(v) \/ LaunchFails(v)
        \/ GuestWrites(v) \/ StopJailed(v) \/ DeleteJailed(v) \/ RemoveWorkspace(v) \/ RemoveJail(v)
        \/ Abandoned(v)
  BY DEF JailNext
<1>a. JailType
  BY DEF JailInv
<1>b. OpInv(v)
  BY DEF JailInv
<1>c. FreshJail(v)
  BY DEF JailInv
<1>d. SourcesKept
  BY DEF JailInv
<1>1. CASE CreateJailed(v)
  <2>1. JailType'
    BY <1>a, <1>1 DEF CreateJailed, JailType, Proceeds, NoJail, PlacedFile, Launching
  <2>2. OpInv(v)'
    BY <1>a, <1>b, <1>1 DEF CreateJailed, JailType, OpInv, Proceeds, NoJail, Launching
  <2>3. FreshJail(v)'
    BY <1>a, <1>b, <1>c, <1>1 DEF CreateJailed, JailType, FreshJail, Proceeds, NoJail
  <2>4. SourcesKept'
    BY <1>a, <1>d, <1>1 DEF CreateJailed, JailType, SourcesKept
  <2> QED
    BY <1>a, <1>1, <2>1, <2>2, <2>3, <2>4, JailFrame DEF CreateJailed, JailType, Proceeds
<1>2. CASE StartJailed(v)
  <2>1. JailType'
    BY <1>a, <1>2 DEF StartJailed, JailType, Proceeds, Launching
  <2>2. OpInv(v)'
    BY <1>a, <1>b, <1>2 DEF StartJailed, JailType, OpInv, Proceeds, Launching
  <2>3. FreshJail(v)'
    BY <1>a, <1>b, <1>c, <1>2 DEF StartJailed, JailType, FreshJail, Proceeds, OpInv
  <2>4. SourcesKept'
    BY <1>a, <1>d, <1>2 DEF StartJailed, JailType, SourcesKept
  <2> QED
    BY <1>a, <1>2, <2>1, <2>2, <2>3, <2>4, JailFrame DEF StartJailed, JailType, Proceeds
<1>3. CASE CreateDir(v)
  <2>1. JailType'
    BY <1>a, <1>3 DEF CreateDir, JailType, Proceeds, Launching
  <2>2. OpInv(v)'
    BY <1>a, <1>b, <1>3 DEF CreateDir, JailType, OpInv, Proceeds, Launching
  <2>3. FreshJail(v)'
    BY <1>a, <1>b, <1>c, <1>3 DEF CreateDir, JailType, FreshJail, Proceeds
  <2>4. SourcesKept'
    BY <1>a, <1>d, <1>3 DEF CreateDir, JailType, SourcesKept
  <2> QED
    BY <1>a, <1>3, <2>1, <2>2, <2>3, <2>4, JailFrame DEF CreateDir, JailType, Proceeds
<1>4. CASE PlaceKernel(v)
  <2> DEFINE placed == LinkOrCopy(kernel, jail[v].kernel)
  <2>a. /\ placed.dst \in PlacedFile /\ placed.src \in {kernel, "empty"}
        /\ jail[v].kernel # "link" => placed.src = kernel
        /\ ~same_fs /\ jail[v].kernel # "link" => placed.dst # "link"
    <3>1. kernel \in PlacedFile \ {"link"} /\ jail[v].kernel \in PlacedFile
      BY <1>a DEF JailType, PlacedFile
    <3> QED
      BY <1>a, <3>1, Placement
  <2>b. kernel' = placed.src /\ jail' = [jail EXCEPT ![v].kernel = placed.dst]
    BY <1>4 DEF PlaceKernel
  <2> HIDE DEF placed
  <2>1. JailType'
    BY <1>a, <1>4, <2>a, <2>b DEF PlaceKernel, JailType, Proceeds, Launching
  <2>2. OpInv(v)'
    BY <1>a, <1>b, <1>4, <2>b DEF PlaceKernel, JailType, OpInv, Proceeds, Launching
  <2>3. FreshJail(v)'
    BY <1>a, <1>b, <1>c, <1>4, <2>a, <2>b DEF PlaceKernel, JailType, FreshJail, Proceeds
  <2>4. SourcesKept'
    BY <1>a, <1>d, <1>4, <1>c, <2>a, <2>b DEF PlaceKernel, JailType, SourcesKept, FreshJail
  <2> QED
    BY <1>a, <1>4, <2>1, <2>2, <2>3, <2>4, JailFrame DEF PlaceKernel, JailType, Proceeds
<1>5. CASE PlaceRootfs(v)
  <2> DEFINE placed == LinkOrCopy(disk[v], jail[v].rootfs)
  <2>a. /\ placed.dst \in PlacedFile /\ placed.src \in {disk[v], "empty"}
        /\ jail[v].rootfs # "link" => placed.src = disk[v]
        /\ ~same_fs /\ jail[v].rootfs # "link" => placed.dst # "link"
    <3>1. disk[v] \in PlacedFile \ {"link"} /\ jail[v].rootfs \in PlacedFile
      BY <1>a DEF JailType, PlacedFile
    <3> QED
      BY <1>a, <3>1, Placement
  <2>b. disk' = [disk EXCEPT ![v] = placed.src] /\ jail' = [jail EXCEPT ![v].rootfs = placed.dst]
    BY <1>5 DEF PlaceRootfs
  <2> HIDE DEF placed
  <2>1. JailType'
    BY <1>a, <1>5, <2>a, <2>b, SMTT(30) DEF PlaceRootfs, JailType, Proceeds, Launching, PlacedFile
  <2>2. OpInv(v)'
    BY <1>a, <1>b, <1>5, <2>b DEF PlaceRootfs, JailType, OpInv, Proceeds, Launching
  <2>3. FreshJail(v)'
    BY <1>a, <1>b, <1>c, <1>5, <2>a, <2>b DEF PlaceRootfs, JailType, FreshJail, Proceeds
  <2>4. SourcesKept'
    BY <1>a, <1>d, <1>5, <1>c, <2>a, <2>b DEF PlaceRootfs, JailType, SourcesKept, FreshJail
  <2> QED
    BY <1>a, <1>5, <2>1, <2>2, <2>3, <2>4, JailFrame DEF PlaceRootfs, JailType, Proceeds
<1>6. CASE Spawn(v)
  <2>1. JailType'
    BY <1>a, <1>6 DEF Spawn, JailType, Proceeds
  <2>2. OpInv(v)'
    BY <1>a, <1>b, <1>6 DEF Spawn, JailType, OpInv, Proceeds, Launching
  <2>3. FreshJail(v)'
    BY <1>a, <1>b, <1>c, <1>6 DEF Spawn, JailType, FreshJail, Proceeds
  <2>4. SourcesKept'
    BY <1>a, <1>d, <1>6 DEF Spawn, JailType, SourcesKept
  <2> QED
    BY <1>a, <1>6, <2>1, <2>2, <2>3, <2>4, JailFrame DEF Spawn, JailType, Proceeds
<1>7. CASE LaunchFails(v)
  <2>1. JailType'
    BY <1>a, <1>7 DEF LaunchFails, JailType, Proceeds
  <2>2. OpInv(v)'
    BY <1>a, <1>b, <1>7 DEF LaunchFails, JailType, OpInv, Proceeds, Launching
  <2>3. FreshJail(v)'
    BY <1>a, <1>b, <1>c, <1>7 DEF LaunchFails, JailType, FreshJail, Proceeds
  <2>4. SourcesKept'
    BY <1>a, <1>d, <1>7 DEF LaunchFails, JailType, SourcesKept
  <2> QED
    BY <1>a, <1>7, <2>1, <2>2, <2>3, <2>4, JailFrame DEF LaunchFails, JailType, Proceeds
<1>8. CASE StopJailed(v)
  <2>1. JailType'
    BY <1>a, <1>8 DEF StopJailed, JailType
  <2>2. OpInv(v)'
    BY <1>a, <1>b, <1>8 DEF StopJailed, JailType, OpInv, Launching
  <2>3. FreshJail(v)'
    BY <1>a, <1>b, <1>c, <1>8 DEF StopJailed, JailType, FreshJail
  <2>4. SourcesKept'
    BY <1>a, <1>d, <1>8 DEF StopJailed, JailType, SourcesKept
  <2> QED
    BY <1>a, <1>8, <2>1, <2>2, <2>3, <2>4, JailFrame DEF StopJailed, JailType
<1>9. CASE GuestWrites(v)
  <2>1. JailType'
    <3>1. "written" \in PlacedFile \ {"link"}
      BY DEF PlacedFile
    <3>2. CASE jail[v].rootfs = "link"
      BY <1>a, <1>9, <3>1, <3>2 DEF GuestWrites, JailType
    <3>3. CASE jail[v].rootfs # "link"
      <4>1. jail' = [jail EXCEPT ![v].rootfs = "written"] /\ UNCHANGED <<same_fs, kernel, disk, stored, at, launches>>
        BY <1>9, <3>3 DEF GuestWrites
      <4> QED
        BY <1>a, <3>1, <4>1 DEF JailType
    <3> QED
      BY <3>2, <3>3
  <2>2. OpInv(v)'
    BY <1>a, <1>b, <1>9 DEF GuestWrites, JailType, OpInv, Launching
  <2>3. FreshJail(v)'
    BY <1>a, <1>b, <1>c, <1>9 DEF GuestWrites, JailType, FreshJail, OpInv, Launching
  <2>4. SourcesKept'
    BY <1>a, <1>d, <1>9 DEF GuestWrites, JailType, SourcesKept
  <2> QED
    BY <1>a, <1>9, <2>1, <2>2, <2>3, <2>4, JailFrame DEF GuestWrites, JailType
<1>10. CASE DeleteJailed(v)
  <2>1. JailType'
    BY <1>a, <1>10 DEF DeleteJailed, JailType, Proceeds, NotStored, Removing
  <2>2. OpInv(v)'
    BY <1>a, <1>b, <1>10 DEF DeleteJailed, JailType, OpInv, Proceeds, Launching, NotStored
  <2>3. FreshJail(v)'
    BY <1>a, <1>b, <1>c, <1>10 DEF DeleteJailed, JailType, FreshJail, Proceeds
  <2>4. SourcesKept'
    BY <1>a, <1>d, <1>10 DEF DeleteJailed, JailType, SourcesKept
  <2> QED
    BY <1>a, <1>10, <2>1, <2>2, <2>3, <2>4, JailFrame DEF DeleteJailed, JailType, Proceeds
<1>11. CASE RemoveWorkspace(v)
  <2>1. JailType'
    BY <1>a, <1>11 DEF RemoveWorkspace, JailType, Proceeds, PlacedFile, Removing
  <2>2. OpInv(v)'
    BY <1>a, <1>b, <1>11 DEF RemoveWorkspace, JailType, OpInv, Proceeds, Launching
  <2>3. FreshJail(v)'
    BY <1>a, <1>b, <1>c, <1>11 DEF RemoveWorkspace, JailType, FreshJail, Proceeds
  <2>4. SourcesKept'
    BY <1>a, <1>d, <1>11 DEF RemoveWorkspace, JailType, SourcesKept
  <2> QED
    BY <1>a, <1>11, <2>1, <2>2, <2>3, <2>4, JailFrame DEF RemoveWorkspace, JailType, Proceeds
<1>12. CASE RemoveJail(v)
  <2>1. JailType'
    BY <1>a, <1>12 DEF RemoveJail, JailType, Proceeds, NoJail, PlacedFile
  <2>2. OpInv(v)'
    BY <1>a, <1>b, <1>12 DEF RemoveJail, JailType, OpInv, Proceeds, Launching, NoJail
  <2>3. FreshJail(v)'
    BY <1>a, <1>b, <1>c, <1>12 DEF RemoveJail, JailType, FreshJail, Proceeds, NoJail
  <2>4. SourcesKept'
    BY <1>a, <1>d, <1>12 DEF RemoveJail, JailType, SourcesKept
  <2> QED
    BY <1>a, <1>12, <2>1, <2>2, <2>3, <2>4, JailFrame DEF RemoveJail, JailType, Proceeds
<1>13. CASE Abandoned(v)
  <2>1. JailType'
    BY <1>a, <1>13 DEF Abandoned, JailType, Proceeds
  <2>2. OpInv(v)'
    BY <1>a, <1>b, <1>13 DEF Abandoned, JailType, OpInv, Proceeds, Launching
  <2>3. FreshJail(v)'
    BY <1>a, <1>b, <1>c, <1>13 DEF Abandoned, JailType, FreshJail, Proceeds
  <2>4. SourcesKept'
    BY <1>a, <1>d, <1>13 DEF Abandoned, JailType, SourcesKept
  <2> QED
    BY <1>a, <1>13, <2>1, <2>2, <2>3, <2>4, JailFrame DEF Abandoned, JailType, Proceeds
<1> QED
  BY <1>p, <1>1, <1>2, <1>3, <1>4, <1>5, <1>6, <1>7, <1>8, <1>9, <1>10, <1>11, <1>12, <1>13

\* The chroots are as they were when another part moves.
LEMMA JailStutter ==
  ASSUME JailInv, UNCHANGED jailVars
  PROVE  JailInv'
  BY DEF jailVars, JailInv, JailType, OpInv, FreshJail, SourcesKept

\* There is no chroot at first.
LEMMA JailStart == JailInit => JailInv
<1> SUFFICES ASSUME JailInit PROVE JailInv
  OBVIOUS
<1>1. JailType
  BY DEF JailInit, JailType, PlacedFile, NoJail, NotStored
<1>2. ASSUME NEW v \in JailedVm PROVE OpInv(v) /\ FreshJail(v)
  BY DEF JailInit, OpInv, FreshJail, NoJail, NotStored, Launching
<1>3. SourcesKept
  BY DEF JailInit, SourcesKept
<1> QED
  BY <1>1, <1>2, <1>3 DEF JailInv

-----------------------------------------------------------------------------
(* The image catalog and the root disk.                                    *)

Signature ==
  [name : Name \cup {"none"}, source : Source \cup {"none"}, sha256 : Bytes \cup {"none"}]

Entry ==
  [source : Source \cup {"none"}, sha256 : Bytes \cup {"none", "absent"}, signature : Signature,
   read_only : BOOLEAN]

CatalogFile == [Name -> Entry]

JobStep ==
  {"idle", "edit", "fetch", "asking", "writing", "fetched", "resolved", "provision", "cloned", "made",
   "provisioned", "failed", "reclaim"}

JobRecord ==
  [op : {"none", "add", "edit", "sign", "export", "build", "create", "delete"},
   at : JobStep,
   name : Name \cup {"none"}, entry : Entry, read : CatalogFile \cup {<<>>},
   raced : BOOLEAN, hold : {"none", "own", "shared", "gone"}, vm : Vm \cup {NoVm}]

\* Types of Catalog's and Provision's variables.
HostType ==
  /\ cache \in [File -> Bytes \cup {"absent", "none"}]
  /\ record \in [Vm -> [status : {"none", "Creating", "Running", "Failed"}, named : BOOLEAN]]
  /\ volume \in [Vm -> BOOLEAN]
  /\ mishap \in SUBSET Vm

DiskType == catalog \in CatalogFile /\ job \in [Task -> JobRecord] /\ HostType

\* A signature vouches for the bytes that its source serves.
Vouches(e) == e.signature.source = e.signature.sha256

\* A call that will write the file it has read, and one that holds the lock for it.
HasRead(j) == j.op \in {"add", "edit", "sign"}

Locks(j) == j.op \in {"add", "edit"}

\* Every signature that is about was made by `catalog sign`.
Signed ==
  /\ \A n \in Name : Vouches(catalog[n])
  /\ \A t \in Task :
       HasRead(job[t]) => Vouches(job[t].entry) /\ \A n \in Name : Vouches(job[t].read[n])

\* A call on a VM has one, and a create an entry whose signature was checked.
CheckedCall(j) ==
  /\ j.op = "create" => j.entry.source = j.entry.sha256
  /\ j.op \in {"create", "delete"} => j.vm \in Vm

Checked == \A t \in Task : CheckedCall(job[t])

\* What c and d have in two different entries is a rename's.
Moved(c, d, n, m) ==
  /\ c[n] # NoEntry /\ d[n] = NoEntry
  /\ c[m] = NoEntry /\ d[m].sha256 = c[n].sha256

OneEdit(c, d) ==
  \A n, m \in Name :
    n # m /\ d[n] # c[n] /\ d[m] # c[m] => Moved(c, d, n, m) \/ Moved(c, d, m, n)

\* What a call will write is what the file holds and its own change, but for
\* what was written without a lock since it read it.
GoodRead(j) ==
  HasRead(j) =>
    /\ j.read \in CatalogFile
    /\ j.op = "add" => j.entry.source \in Source /\ (j.raced \/ j.read = catalog)
    /\ j.op # "add" => j.raced \/ OneEdit(catalog, j.read)

ReadsGood ==
  /\ \A t, u \in Task : Locks(job[t]) /\ Locks(job[u]) => t = u
  /\ \A t \in Task : GoodRead(job[t])

\* At most one call works on a VM, none once its record names the volume;
\* what the volume's create is at says whether it is there.
DiskInv(t) ==
  LET v == job[t].vm IN
  v \in Vm =>
    /\ job[t].op \in {"create", "delete"}
    /\ job[t].op = "delete" => job[t].at = "reclaim"
    /\ \A u \in Task : job[u].vm = v => u = t
    /\ ~record[v].named
    /\ job[t].op = "create" /\ job[t].at \notin {"made", "provisioned", "failed"} => ~volume[v]
    /\ job[t].op = "create" /\ job[t].at = "failed" => ~volume[v] \/ v \in mishap

CatalogInv == DiskType /\ Signed /\ Checked /\ ReadsGood

ProvisionInv == CatalogInv /\ VolumesOwned /\ \A t \in Task : DiskInv(t)

\* Nothing in the catalog and no call.
LEMMA NoneYet ==
  /\ NoEntry \in Entry /\ Vouches(NoEntry) /\ NoEntry.source = NoEntry.sha256
  /\ Idle \in JobRecord /\ Idle.op = "none" /\ Idle.vm = NoVm /\ Idle.at = "idle"
<1>1. NoSig \in Signature /\ NoSig.source = NoSig.sha256
  BY DEF NoSig, Signature
<1>2. NoEntry \in Entry /\ Vouches(NoEntry) /\ NoEntry.source = NoEntry.sha256
  BY <1>1 DEF NoEntry, Entry, Vouches
<1> QED
  BY <1>2 DEF Idle, JobRecord, JobStep

\* An edit of one field of a call's state leaves the others.
LEMMA JobEdit ==
  ASSUME NEW j \in JobRecord
  PROVE  /\ \A a \in JobStep :
              LET k == [j EXCEPT !.at = a]
              IN  /\ k \in JobRecord /\ k.at = a
                  /\ k.op = j.op /\ k.vm = j.vm /\ k.entry = j.entry /\ k.read = j.read /\ k.raced = j.raced
         /\ \A h \in {"none", "own", "shared", "gone"} :
              LET k == [j EXCEPT !.hold = h]
              IN  /\ k \in JobRecord /\ k.at = j.at
                  /\ k.op = j.op /\ k.vm = j.vm /\ k.entry = j.entry /\ k.read = j.read /\ k.raced = j.raced
         /\ \A a \in JobStep, h \in {"none", "own", "shared", "gone"} :
              LET k == [j EXCEPT !.at = a, !.hold = h]
              IN  /\ k \in JobRecord /\ k.at = a
                  /\ k.op = j.op /\ k.vm = j.vm /\ k.entry = j.entry /\ k.read = j.read /\ k.raced = j.raced
<1>1. ASSUME NEW a \in JobStep
      PROVE  LET k == [j EXCEPT !.at = a]
             IN  /\ k \in JobRecord /\ k.at = a
                 /\ k.op = j.op /\ k.vm = j.vm /\ k.entry = j.entry /\ k.read = j.read /\ k.raced = j.raced
  BY DEF JobRecord
<1>2. ASSUME NEW h \in {"none", "own", "shared", "gone"}
      PROVE  LET k == [j EXCEPT !.hold = h]
             IN  /\ k \in JobRecord /\ k.at = j.at
                 /\ k.op = j.op /\ k.vm = j.vm /\ k.entry = j.entry /\ k.read = j.read /\ k.raced = j.raced
  BY DEF JobRecord
<1>3. ASSUME NEW a \in JobStep, NEW h \in {"none", "own", "shared", "gone"}
      PROVE  LET k == [j EXCEPT !.at = a, !.hold = h]
             IN  /\ k \in JobRecord /\ k.at = a
                 /\ k.op = j.op /\ k.vm = j.vm /\ k.entry = j.entry /\ k.read = j.read /\ k.raced = j.raced
  BY DEF JobRecord
<1> QED
  BY <1>1, <1>2, <1>3, Zenon

\* A step that leaves catalog.json alone and reads it for no later write.
LEMMA CatalogFrame ==
  ASSUME CatalogInv, DiskType', UNCHANGED catalog,
         \A u \in Task :
           /\ HasRead(job'[u]) => /\ job'[u].op = job[u].op /\ job'[u].read = job[u].read
                                  /\ job'[u].entry = job[u].entry /\ job'[u].raced = job[u].raced
           /\ CheckedCall(job'[u])
  PROVE  CatalogInv'
<1>1. Signed'
  BY DEF CatalogInv, Signed, HasRead
<1>2. Checked'
  BY DEF Checked
<1>3. ReadsGood'
  <2>1. \A u \in Task : Locks(job'[u]) => Locks(job[u])
    BY DEF Locks, HasRead
  <2>2. ASSUME NEW u \in Task PROVE GoodRead(job[u])'
    <3>1. GoodRead(job[u])
      BY DEF CatalogInv, ReadsGood
    <3> QED
      BY <3>1 DEF GoodRead, HasRead
  <2> QED
    BY <2>1, <2>2 DEF CatalogInv, ReadsGood
<1> QED
  BY <1>1, <1>2, <1>3 DEF CatalogInv

Late == {"made", "provisioned", "failed", "reclaim"}

\* A call keeps its VM, or leaves one without a volume.
LetsGo(u) ==
  \/ /\ job'[u].vm = job[u].vm /\ job'[u].op = job[u].op
     /\ job'[u].at = job[u].at \/ (job[u].at \notin Late /\ job'[u].at \notin Late)
  \/ /\ job'[u].vm = NoVm
     /\ job[u].vm \in Vm => ~volume[job[u].vm] \/ job[u].vm \in mishap'

\* A step that makes and removes no volume and no record.
LEMMA DiskFrame ==
  ASSUME ProvisionInv, CatalogInv', UNCHANGED <<record, volume>>, mishap \subseteq mishap',
         \A u \in Task : LetsGo(u)
  PROVE  ProvisionInv'
<1>1. VolumesOwned'
  BY DEF ProvisionInv, VolumesOwned, LetsGo
<1>2. ASSUME NEW t \in Task PROVE DiskInv(t)'
  <2>1. DiskInv(t)
    BY DEF ProvisionInv
  <2>2. CASE job'[t].vm = NoVm
    BY <2>2, CatalogAssumption DEF DiskInv
  <2>3. CASE /\ job'[t].vm = job[t].vm /\ job'[t].op = job[t].op
             /\ job'[t].at = job[t].at \/ (job[t].at \notin Late /\ job'[t].at \notin Late)
    <3>1. \A u \in Task : job'[u].vm \in {job[u].vm, NoVm}
      BY DEF LetsGo
    <3> QED
      BY <2>1, <2>3, <3>1, CatalogAssumption DEF DiskInv, Late
  <2> QED
    BY <2>2, <2>3 DEF LetsGo
<1> QED
  BY <1>1, <1>2 DEF ProvisionInv

\* A step of the one call that works on v.
LEMMA DiskOne ==
  ASSUME ProvisionInv, CatalogInv', NEW t \in Task, job[t].vm \in Vm,
         NEW j \in JobRecord, job' = [job EXCEPT ![t] = j], j.vm \in {job[t].vm, NoVm},
         \A v \in Vm \ {job[t].vm} :
           record'[v] = record[v] /\ volume'[v] = volume[v] /\ (v \in mishap' <=> v \in mishap),
         DiskInv(t)',
         volume'[job[t].vm] =>
           record'[job[t].vm].named \/ j.vm = job[t].vm \/ job[t].vm \in mishap'
  PROVE  ProvisionInv'
<1>0. job \in [Task -> JobRecord] /\ job'[t] = j /\ DiskInv(t)
  BY DEF ProvisionInv, CatalogInv, DiskType
<1>1. ASSUME NEW u \in Task, u # t PROVE DiskInv(u)'
  <2>1. DiskInv(u) /\ job'[u] = job[u]
    BY <1>0, <1>1 DEF ProvisionInv
  <2>2. job[u].vm \in Vm => job[u].vm # job[t].vm
    BY <1>0, <1>1 DEF DiskInv
  <2>3. \A w \in Task \ {t} : job'[w] = job[w]
    BY <1>0
  <2> QED
    BY <1>0, <2>1, <2>2, <2>3 DEF DiskInv
<1>2. ASSUME NEW v \in Vm, volume'[v]
      PROVE  record'[v].named \/ (\E u \in Task : job'[u].vm = v) \/ v \in mishap'
  <2>1. CASE v = job[t].vm
    BY <1>0, <1>2, <2>1
  <2>2. CASE v # job[t].vm
    <3>1. record[v].named \/ (\E u \in Task : job[u].vm = v) \/ v \in mishap
      BY <1>2, <2>2 DEF ProvisionInv, VolumesOwned
    <3> QED
      BY <1>0, <2>2, <3>1
  <2> QED
    BY <2>1, <2>2
<1> QED
  BY <1>1, <1>2 DEF ProvisionInv, VolumesOwned

\* A step of one call that leaves catalog.json alone.
LEMMA OneCall ==
  ASSUME CatalogInv, HostType', UNCHANGED catalog, NEW t \in Task, NEW j \in JobRecord,
         job' = [job EXCEPT ![t] = j],
         HasRead(j) => /\ j.op = job[t].op /\ j.read = job[t].read
                       /\ j.entry = job[t].entry /\ j.raced = job[t].raced,
         CheckedCall(j)
  PROVE  CatalogInv'
<1>0. job \in [Task -> JobRecord] /\ catalog \in CatalogFile
  BY DEF CatalogInv, DiskType
<1>1. DiskType'
  BY <1>0 DEF DiskType
<1>2. ASSUME NEW u \in Task
      PROVE  /\ HasRead(job'[u]) => /\ job'[u].op = job[u].op /\ job'[u].read = job[u].read
                                    /\ job'[u].entry = job[u].entry /\ job'[u].raced = job[u].raced
             /\ CheckedCall(job'[u])
  BY <1>0 DEF CatalogInv, Checked
<1> QED
  BY <1>1, <1>2, CatalogFrame

\* A call ends.
LEMMA Ends ==
  ASSUME CatalogInv, HostType', UNCHANGED catalog, NEW t \in Task, Done(t)
  PROVE  CatalogInv'
  BY OneCall, NoneYet DEF Done, CheckedCall, HasRead

\* A call goes on to its next step.
LEMMA Moves ==
  ASSUME CatalogInv, HostType', UNCHANGED catalog, NEW t \in Task, NEW a \in JobStep, Goes(t, a)
  PROVE  /\ CatalogInv'
         /\ job'[t] \in JobRecord /\ job' = [job EXCEPT ![t] = job'[t]]
         /\ job'[t].at = a /\ job'[t].op = job[t].op /\ job'[t].vm = job[t].vm
<1> DEFINE j == [job[t] EXCEPT !.at = a]
<1>1. /\ job \in [Task -> JobRecord] /\ job[t] \in JobRecord
      /\ CheckedCall(job[t])
  BY DEF CatalogInv, DiskType, Checked
<1>2. /\ j \in JobRecord /\ j.at = a /\ j.op = job[t].op /\ j.vm = job[t].vm
      /\ j.entry = job[t].entry /\ j.read = job[t].read /\ j.raced = job[t].raced
  BY <1>1, JobEdit
<1>3. job' = [job EXCEPT ![t] = j]
  BY DEF Goes
<1> HIDE DEF j
<1>4. CatalogInv'
  BY <1>1, <1>2, <1>3, OneCall DEF CheckedCall
<1>5. job'[t] = j
  BY <1>1, <1>3
<1> QED
  BY <1>2, <1>3, <1>4, <1>5

\* A call that has no volume ends.
LEMMA EndsEarly ==
  ASSUME ProvisionInv, HostType', UNCHANGED <<catalog, diskVars>>, NEW t \in Task, Done(t),
         job[t].vm \in Vm => job[t].at \notin Late
  PROVE  ProvisionInv'
<1>1. CatalogInv' /\ job \in [Task -> JobRecord]
  BY Ends DEF ProvisionInv, CatalogInv, DiskType
<1>2. DiskInv(t)
  BY DEF ProvisionInv
<1>3. ASSUME NEW u \in Task PROVE LetsGo(u)
  <2>1. CASE u = t
    <3>1. job'[t] = Idle
      BY <1>1 DEF Done
    <3>2. ASSUME job[t].vm \in Vm PROVE ~volume[job[t].vm]
      BY <1>2, <3>2 DEF DiskInv, Late
    <3> QED
      BY <2>1, <3>1, <3>2, NoneYet DEF LetsGo
  <2>2. CASE u # t
    BY <1>1, <2>2 DEF LetsGo, Done
  <2> QED
    BY <2>1, <2>2
<1> QED
  BY <1>1, <1>3, DiskFrame DEF diskVars

\* A call that makes no volume with this step and none with the next.
LEMMA MovesEarly ==
  ASSUME ProvisionInv, HostType', UNCHANGED <<catalog, diskVars>>, NEW t \in Task,
         NEW a \in JobStep \ Late, Goes(t, a), job[t].at \notin Late
  PROVE  ProvisionInv'
<1>0. CatalogInv /\ job \in [Task -> JobRecord]
  BY DEF ProvisionInv, CatalogInv, DiskType
<1>1. CatalogInv'
  BY <1>0, Moves
<1>2. /\ job' = [job EXCEPT ![t] = job'[t]]
      /\ job'[t].at = a /\ job'[t].op = job[t].op /\ job'[t].vm = job[t].vm
  BY <1>0, Moves
<1>3. ASSUME NEW u \in Task PROVE LetsGo(u)
  <2>1. CASE u = t
    BY <2>1, <1>2 DEF LetsGo
  <2>2. CASE u # t
    BY <1>0, <1>2, <2>2 DEF LetsGo
  <2> QED
    BY <2>1, <2>2
<1> QED
  BY <1>1, <1>3, DiskFrame DEF diskVars
\* Calls go on with what they have, none to or from a step that has a volume.
LEMMA Quiet ==
  ASSUME ProvisionInv, HostType', UNCHANGED <<catalog, diskVars>>, job' \in [Task -> JobRecord],
         \A u \in Task :
           /\ job'[u].op = job[u].op /\ job'[u].vm = job[u].vm
           /\ job'[u].entry = job[u].entry /\ job'[u].read = job[u].read /\ job'[u].raced = job[u].raced
           /\ job'[u].at = job[u].at \/ (job[u].at \notin Late /\ job'[u].at \notin Late)
  PROVE  ProvisionInv'
<1>1. CatalogInv
  BY DEF ProvisionInv
<1>2. DiskType' /\ Checked
  BY <1>1 DEF CatalogInv, DiskType
<1>3. CatalogInv'
  BY <1>1, <1>2, CatalogFrame DEF Checked, CheckedCall
<1>4. \A u \in Task : LetsGo(u)
  BY DEF LetsGo
<1> QED
  BY <1>3, <1>4, DiskFrame DEF diskVars

\* fetch_if_needed moves one call, and the hold of those that share its file.
LEMMA FetchStep ==
  ASSUME ProvisionInv, NEW t \in Task, Fetch(t), UNCHANGED diskVars
  PROVE  ProvisionInv'
<1>a. /\ job \in [Task -> JobRecord] /\ job[t] \in JobRecord /\ HostType /\ CatalogInv
  BY DEF ProvisionInv, CatalogInv, DiskType
<1>b. cache \in [File -> Bytes \cup {"absent", "none"}]
  BY <1>a DEF HostType
<1>h. ASSUME NEW b \in Bytes \cup {"absent", "none"}, cache' = [cache EXCEPT ![FileOf(t)] = b]
      PROVE  HostType'
  BY <1>a, <1>b, <1>h DEF HostType, diskVars
<1>1. CASE FetchHit(t)
  <2> DEFINE a == IF cache[FileOf(t)] = "absent" THEN "asking" ELSE "fetched"
  <2>1. a \in JobStep \ Late /\ job[t].at \notin Late
    BY <1>1 DEF JobStep, Late, FetchHit
  <2>2. Goes(t, a) /\ HostType' /\ UNCHANGED catalog
    BY <1>1, <1>a DEF FetchHit, HostType, diskVars
  <2> HIDE DEF a
  <2> QED
    BY <2>1, <2>2, MovesEarly
<1>2. CASE FetchOpens(t)
  <2> DEFINE J(u) ==
        CASE u = t -> [job[t] EXCEPT !.at = "writing",
                                     !.hold = IF Writers(FileOf(t)) = {} THEN "own" ELSE "shared"]
          [] u \in Writers(FileOf(t)) -> [job[u] EXCEPT !.hold = "shared"]
          [] OTHER -> job[u]
  <2>0. job' = [u \in Task |-> J(u)] /\ UNCHANGED catalog
    BY <1>2 DEF FetchOpens
  <2> HIDE DEF J
  <2>1. HostType'
    <3>1. cache' = [cache EXCEPT ![FileOf(t)] = "part"]
      BY <1>2 DEF FetchOpens
    <3>2. "part" \in Bytes \cup {"absent", "none"}
      BY DEF Bytes
    <3> QED
      BY <3>1, <3>2, <1>h
  <2>2. ASSUME NEW u \in Task
        PROVE  /\ job'[u] \in JobRecord
               /\ job'[u].op = job[u].op /\ job'[u].vm = job[u].vm
               /\ job'[u].entry = job[u].entry /\ job'[u].read = job[u].read /\ job'[u].raced = job[u].raced
               /\ job'[u].at = job[u].at \/ (job[u].at \notin Late /\ job'[u].at \notin Late)
    <3>0. job[u] \in JobRecord
      BY <1>a
    <3>1. job'[u] = J(u)
      BY <2>0
    <3>2. CASE u = t
      <4> DEFINE h == IF Writers(FileOf(t)) = {} THEN "own" ELSE "shared"
                 k == [job[u] EXCEPT !.at = "writing", !.hold = h]
      <4>1. "writing" \in JobStep /\ h \in {"none", "own", "shared", "gone"}
        BY DEF JobStep
      <4>2. job'[u] = k
        <5>0. t \notin Writers(FileOf(t))
          BY <1>2 DEF FetchOpens, Writers
        <5>1. J(t) = [job[t] EXCEPT !.at = "writing", !.hold = h]
          BY <5>0 DEF J
        <5> QED
          BY <3>1, <3>2, <5>1
      <4> HIDE DEF h
      <4>3. /\ k \in JobRecord /\ k.at = "writing" /\ k.op = job[u].op /\ k.vm = job[u].vm
            /\ k.entry = job[u].entry /\ k.read = job[u].read /\ k.raced = job[u].raced
        BY <3>0, <4>1 DEF JobRecord
      <4> HIDE DEF k
      <4>4. job[u].at = "asking"
        BY <1>2, <3>2 DEF FetchOpens
      <4>5. "asking" \notin Late /\ "writing" \notin Late
        BY DEF Late
      <4> QED
        BY <4>2, <4>3, <4>4, <4>5
    <3>3. CASE u # t /\ u \in Writers(FileOf(t))
      <4> DEFINE k == [job[u] EXCEPT !.hold = "shared"]
      <4>1. job'[u] = k
        BY <3>1, <3>3 DEF J
      <4>2. /\ k \in JobRecord /\ k.at = job[u].at /\ k.op = job[u].op /\ k.vm = job[u].vm
            /\ k.entry = job[u].entry /\ k.read = job[u].read /\ k.raced = job[u].raced
        BY <3>0, JobEdit
      <4> HIDE DEF k
      <4> QED
        BY <4>1, <4>2
    <3>4. CASE u # t /\ u \notin Writers(FileOf(t))
      BY <3>0, <3>1, <3>4 DEF J
    <3> QED
      BY <3>2, <3>3, <3>4
  <2>3. job' \in [Task -> JobRecord]
    BY <2>0, <2>2
  <2> QED
    BY <2>0, <2>1, <2>2, <2>3, Quiet
<1>3. CASE FetchWritten(t)
  <2>1. HostType'
    <3>1. CASE FileOf(t) \in File
      <4>1. PICK b : /\ b \in CASE job[t].hold = "own" -> {job[t].entry.source}
                                [] job[t].hold = "shared" -> {job[t].entry.source, "part"}
                                [] OTHER -> {cache[FileOf(t)]}
                     /\ cache' = [cache EXCEPT ![FileOf(t)] = b]
        BY <1>3 DEF FetchWritten
      <4>2. job[t].entry.source \in Source \cup {"none"}
        BY <1>a DEF JobRecord, Entry
      <4>3. b \in Bytes \cup {"absent", "none"}
        BY <4>1, <4>2, <1>b, <3>1 DEF Bytes
      <4> QED
        BY <4>1, <4>3, <1>h
    <3>2. CASE FileOf(t) \notin File
      <4>1. cache' = cache
        BY <1>3, <1>b, <3>2 DEF FetchWritten
      <4> QED
        BY <1>a, <4>1 DEF HostType, diskVars
    <3> QED
      BY <3>1, <3>2
  <2> DEFINE j == [job[t] EXCEPT !.at = "fetched", !.hold = "none"]
  <2>2. /\ j \in JobRecord /\ j.at = "fetched" /\ j.op = job[t].op /\ j.vm = job[t].vm
        /\ j.entry = job[t].entry /\ j.read = job[t].read /\ j.raced = job[t].raced
    <3>1. "fetched" \in JobStep
      BY DEF JobStep
    <3> QED
      BY <1>a, <3>1, JobEdit
  <2>3. job' = [job EXCEPT ![t] = j] /\ UNCHANGED catalog /\ job[t].at = "writing"
    BY <1>3 DEF FetchWritten
  <2> HIDE DEF j
  <2>4. "fetched" \notin Late /\ "writing" \notin Late
    BY DEF Late
  <2>5. ASSUME NEW u \in Task
        PROVE  /\ job'[u] \in JobRecord
               /\ job'[u].op = job[u].op /\ job'[u].vm = job[u].vm
               /\ job'[u].entry = job[u].entry /\ job'[u].read = job[u].read /\ job'[u].raced = job[u].raced
               /\ job'[u].at = job[u].at \/ (job[u].at \notin Late /\ job'[u].at \notin Late)
    BY <1>a, <2>2, <2>3, <2>4
  <2>6. job' \in [Task -> JobRecord]
    BY <1>a, <2>2, <2>3
  <2> QED
    BY <2>1, <2>3, <2>5, <2>6, Quiet
<1>4. CASE FetchFails(t)
  <2>1. Done(t) /\ HostType' /\ UNCHANGED catalog
    BY <1>4, <1>a DEF FetchFails, HostType, diskVars
  <2>2. job[t].at \notin Late
    BY <1>4 DEF FetchFails, Late
  <2> QED
    BY <2>1, <2>2, EndsEarly
<1> QED
  BY <1>1, <1>2, <1>3, <1>4 DEF Fetch

\* A call reads the file: what it makes of it changes one entry, or is a rename.
LEMMA FileRead ==
  ASSUME ProvisionInv, NEW t \in Task, UNCHANGED <<cache, catalog, diskVars>>, job[t] = Idle,
         NEW j \in JobRecord, job' = [job EXCEPT ![t] = j], HasRead(j), Locks(j) => Unlocked,
         j.vm = NoVm, GoodRead(j), Vouches(j.entry), \A k \in Name : Vouches(j.read[k])
  PROVE  ProvisionInv'
<1>a. /\ job \in [Task -> JobRecord] /\ catalog \in CatalogFile
      /\ Signed /\ Checked /\ ReadsGood /\ HostType
  BY DEF ProvisionInv, CatalogInv, DiskType
<1>1. job'[t] = j /\ \A u \in Task \ {t} : job'[u] = job[u]
  BY <1>a
<1>2. DiskType'
  BY <1>a DEF DiskType, HostType, diskVars
<1>3. Signed'
  BY <1>a, <1>1 DEF Signed
<1>4. Checked'
  BY <1>a, <1>1 DEF Checked, CheckedCall, HasRead
<1>5. ReadsGood'
  <2>1. ASSUME NEW u \in Task, NEW w \in Task, Locks(job'[u]), Locks(job'[w]) PROVE u = w
    <3>1. CASE Locks(j)
      BY <1>1, <2>1, <3>1 DEF Unlocked, Locks
    <3>2. CASE ~Locks(j)
      BY <1>a, <1>1, <2>1, <3>2 DEF ReadsGood
    <3> QED
      BY <3>1, <3>2
  <2>2. ASSUME NEW u \in Task PROVE GoodRead(job[u])'
    <3>1. GoodRead(job'[u])
      BY <1>a, <1>1 DEF ReadsGood
    <3> QED
      BY <3>1 DEF GoodRead
  <2> QED
    BY <2>1, <2>2 DEF ReadsGood
<1>6. \A u \in Task : LetsGo(u)
  BY <1>1, NoneYet, CatalogAssumption DEF LetsGo
<1> QED
  BY <1>2, <1>3, <1>4, <1>5, <1>6, DiskFrame DEF CatalogInv, diskVars

\* Reading for an edit or a signature.
LEMMA ReadsStep ==
  ASSUME ProvisionInv, NEW t \in Task, NEW op \in {"edit", "sign"}, NEW c \in CatalogFile,
         Reads(t, op, c), UNCHANGED diskVars, op = "edit" => Unlocked, OneEdit(catalog, c),
         \A k \in Name : Vouches(c[k])
  PROVE  ProvisionInv'
<1> DEFINE j == [Idle EXCEPT !.op = op, !.at = "edit", !.read = c]
<1>1. /\ j \in JobRecord /\ j.op = op /\ j.vm = NoVm /\ j.read = c /\ j.entry = NoEntry
  BY NoneYet DEF JobRecord, JobStep, Idle
<1>2. job' = [job EXCEPT ![t] = j] /\ job[t] = Idle /\ UNCHANGED <<catalog, cache>>
  BY DEF Reads
<1> HIDE DEF j
<1>3. HasRead(j) /\ (Locks(j) => Unlocked)
  BY <1>1 DEF HasRead, Locks
<1>4. GoodRead(j)
  BY <1>1 DEF GoodRead
<1> QED
  BY <1>1, <1>2, <1>3, <1>4, NoneYet, FileRead

\* A change of one entry.
LEMMA OneEntry ==
  ASSUME catalog \in CatalogFile, \A k \in Name : Vouches(catalog[k]), NEW n \in Name,
         NEW e \in Entry, Vouches(e)
  PROVE  LET c == [catalog EXCEPT ![n] = e]
         IN c \in CatalogFile /\ OneEdit(catalog, c) /\ \A k \in Name : Vouches(c[k])
<1> DEFINE c == [catalog EXCEPT ![n] = e]
<1>1. c \in CatalogFile /\ \A k \in Name : k # n => c[k] = catalog[k]
  BY DEF CatalogFile
<1>2. \A k \in Name : Vouches(c[k])
  BY DEF CatalogFile
<1>3. OneEdit(catalog, c)
  <2> HIDE DEF c
  <2> QED
    BY <1>1 DEF OneEdit
<1> QED
  BY <1>1, <1>2, <1>3

\* The calls that change entries of the file.
LEMMA EditStep ==
  ASSUME ProvisionInv, Edits, UNCHANGED diskVars
  PROVE  ProvisionInv'
<1>0. PICK t \in Task, n \in Name :
        \/ RemoveEntry(t, n)
        \/ \E m \in Name : RenameEntry(t, n, m) \/ CloneEntry(t, n, m)
        \/ \E flag \in BOOLEAN : SetReadOnly(t, n, flag)
  BY DEF Edits
<1>a. catalog \in CatalogFile /\ catalog[n] \in Entry /\ \A k \in Name : Vouches(catalog[k])
  BY DEF ProvisionInv, CatalogInv, DiskType, Signed, CatalogFile
<1>b. ASSUME NEW c \in CatalogFile, Edit(t, c), OneEdit(catalog, c), \A k \in Name : Vouches(c[k])
      PROVE  ProvisionInv'
  <2>1. Reads(t, "edit", c) /\ Unlocked
    BY <1>b DEF Edit
  <2> QED
    BY <1>b, <2>1, ReadsStep
<1>c. /\ [catalog[n] EXCEPT !.signature = NoSig] \in Entry
      /\ Vouches([catalog[n] EXCEPT !.signature = NoSig])
      /\ [catalog[n] EXCEPT !.signature = NoSig].sha256 = catalog[n].sha256
  <2>1. NoSig \in Signature /\ NoSig.source = NoSig.sha256
    BY DEF NoSig, Signature
  <2> QED
    BY <1>a, <2>1 DEF Entry, Vouches
<1>1. CASE RemoveEntry(t, n)
  <2> DEFINE c == [catalog EXCEPT ![n] = NoEntry]
  <2>1. Edit(t, c)
    BY <1>1 DEF RemoveEntry
  <2>2. c \in CatalogFile /\ OneEdit(catalog, c) /\ \A k \in Name : Vouches(c[k])
    BY <1>a, NoneYet, OneEntry
  <2> HIDE DEF c
  <2> QED
    BY <1>b, <2>1, <2>2
<1>2. ASSUME NEW m \in Name, RenameEntry(t, n, m) PROVE ProvisionInv'
  <2> DEFINE e == [catalog[n] EXCEPT !.signature = NoSig]
             c == [catalog EXCEPT ![n] = NoEntry]
             d == [c EXCEPT ![m] = e]
  <2>1. Edit(t, d) /\ Listed(n) /\ (m # n => ~Listed(m))
    BY <1>2 DEF RenameEntry
  <2>2. c \in CatalogFile /\ \A k \in Name : Vouches(c[k])
    BY <1>a, NoneYet DEF CatalogFile
  <2>3. e \in Entry /\ Vouches(e) /\ e.sha256 = catalog[n].sha256
    BY <1>c
  <2>4. c[n] = NoEntry /\ \A k \in Name : k # n => c[k] = catalog[k]
    BY <1>a DEF CatalogFile
  <2> HIDE DEF e, c
  <2>5. d \in CatalogFile /\ \A k \in Name : Vouches(d[k])
    BY <2>2, <2>3 DEF CatalogFile
  <2>6. d[m] = e /\ \A k \in Name : k # m => d[k] = c[k]
    BY <2>2 DEF CatalogFile
  <2> HIDE DEF d
  <2>7. OneEdit(catalog, d)
    <3>1. SUFFICES ASSUME NEW a \in Name, NEW b \in Name, a # b, d[a] # catalog[a], d[b] # catalog[b]
                   PROVE  Moved(catalog, d, a, b) \/ Moved(catalog, d, b, a)
      BY DEF OneEdit
    <3>2. {a, b} = {n, m} /\ n # m
      BY <2>4, <2>6, <3>1
    <3>3. d[n] = NoEntry /\ d[m] = e
      BY <2>4, <2>6, <3>2
    <3>4. Moved(catalog, d, n, m)
      BY <2>1, <2>3, <3>2, <3>3 DEF Moved, Listed
    <3> QED
      BY <3>2, <3>4
  <2> QED
    BY <1>b, <2>1, <2>5, <2>7
<1>3. ASSUME NEW m \in Name, CloneEntry(t, n, m) PROVE ProvisionInv'
  <2> DEFINE e == [catalog[n] EXCEPT !.signature = NoSig]
             c == [catalog EXCEPT ![m] = e]
  <2>1. Edit(t, c)
    BY <1>3 DEF CloneEntry
  <2>2. e \in Entry /\ Vouches(e)
    BY <1>c
  <2> HIDE DEF e
  <2>3. c \in CatalogFile /\ OneEdit(catalog, c) /\ \A k \in Name : Vouches(c[k])
    BY <1>a, <2>2, OneEntry
  <2> HIDE DEF c
  <2> QED
    BY <1>b, <2>1, <2>3
<1>4. ASSUME NEW flag \in BOOLEAN, SetReadOnly(t, n, flag) PROVE ProvisionInv'
  <2> DEFINE e == [catalog[n] EXCEPT !.read_only = flag]
             c == [catalog EXCEPT ![n] = e]
  <2>1. Edit(t, c)
    BY <1>4 DEF SetReadOnly
  <2>2. e \in Entry /\ Vouches(e)
    BY <1>a DEF Entry, Vouches
  <2> HIDE DEF e
  <2>3. c \in CatalogFile /\ OneEdit(catalog, c) /\ \A k \in Name : Vouches(c[k])
    BY <1>a, <2>2, OneEntry
  <2> HIDE DEF c
  <2> QED
    BY <1>b, <2>1, <2>3
<1> QED
  BY <1>0, <1>1, <1>2, <1>3, <1>4

\* `catalog sign` reads the file, lock or no lock.
LEMMA SignStep ==
  ASSUME ProvisionInv, NEW t \in Task, NEW n \in Name, NEW s \in Source, SignEntry(t, n, s),
         UNCHANGED diskVars
  PROVE  ProvisionInv'
<1> DEFINE e == [Unsigned(s) EXCEPT !.sha256 = s]
           f == [e EXCEPT !.signature = CanonicalPayload(n, e)]
           c == [catalog EXCEPT ![n] = f]
<1>1. catalog \in CatalogFile /\ \A k \in Name : Vouches(catalog[k])
  BY DEF ProvisionInv, CatalogInv, DiskType, Signed
<1>2. Reads(t, "sign", c)
  BY DEF SignEntry
<1>3. Unsigned(s) \in Entry /\ Unsigned(s).source = s
  BY NoneYet DEF Unsigned, Entry, NoEntry
<1>4. e \in Entry /\ e.source = s /\ e.sha256 = s
  BY <1>3 DEF Entry, Bytes
<1> HIDE DEF e
<1>5. CanonicalPayload(n, e) \in Signature /\ CanonicalPayload(n, e).source = CanonicalPayload(n, e).sha256
  BY <1>4 DEF CanonicalPayload, Signature, Bytes
<1>6. f \in Entry /\ f.signature = CanonicalPayload(n, e)
  BY <1>4, <1>5 DEF Entry
<1> HIDE DEF f
<1>7. Vouches(f)
  BY <1>5, <1>6 DEF Vouches
<1>8. c \in CatalogFile /\ OneEdit(catalog, c) /\ \A k \in Name : Vouches(c[k])
  BY <1>1, <1>6, <1>7, OneEntry
<1> HIDE DEF c
<1> QED
  BY <1>2, <1>8, ReadsStep

\* A call writes the file: the others that have read it hold no lock, and know
\* not of the write, or it holds none.
LEMMA WriteStep ==
  ASSUME ProvisionInv, NEW t \in Task, NEW c \in CatalogFile, Writes(t, c),
         UNCHANGED <<cache, diskVars>>, HasRead(job[t]), \A k \in Name : Vouches(c[k])
  PROVE  ProvisionInv'
<1>a. /\ job \in [Task -> JobRecord] /\ Signed /\ Checked /\ ReadsGood /\ HostType /\ DiskInv(t)
  BY DEF ProvisionInv, CatalogInv, DiskType
<1>1. job'[t] = Idle /\ catalog' = c
  BY DEF Writes
<1>2. ASSUME NEW u \in Task \ {t}
      PROVE  /\ job'[u] \in JobRecord /\ job'[u].op = job[u].op /\ job'[u].vm = job[u].vm
             /\ job'[u].at = job[u].at /\ job'[u].entry = job[u].entry /\ job'[u].read = job[u].read
             /\ HasRead(job[u]) => job'[u].raced
  <2> DEFINE k == [job[u] EXCEPT !.raced = TRUE]
  <2>0. job[u] \in JobRecord
    BY <1>a
  <2>1. CASE HasRead(job[u]) /\ "sign" \in {job[t].op, job[u].op}
    <3>1. job'[u] = k
      BY <2>1 DEF Writes, HasRead
    <3>2. /\ k \in JobRecord /\ k.op = job[u].op /\ k.vm = job[u].vm
          /\ k.at = job[u].at /\ k.entry = job[u].entry /\ k.read = job[u].read /\ k.raced = TRUE
      BY <2>0 DEF JobRecord
    <3> HIDE DEF k
    <3> QED
      BY <3>1, <3>2
  <2>2. CASE HasRead(job[u]) /\ "sign" \notin {job[t].op, job[u].op}
    <3>1. Locks(job[t]) /\ Locks(job[u])
      BY <2>2 DEF HasRead, Locks
    <3> QED
      BY <1>a, <3>1 DEF ReadsGood
  <2>3. CASE ~HasRead(job[u])
    <3>1. job'[u] = job[u]
      BY <2>3 DEF Writes, HasRead
    <3> QED
      BY <2>0, <2>3, <3>1
  <2> QED
    BY <2>1, <2>2, <2>3
<1>3. job' \in [Task -> JobRecord]
  <2>1. \A u \in Task : job'[u] \in JobRecord
    BY <1>1, <1>2, NoneYet
  <2>2. job' = [u \in Task |-> job'[u]]
    BY DEF Writes
  <2> QED
    BY <2>1, <2>2
<1>4. DiskType'
  BY <1>a, <1>1, <1>3 DEF DiskType, HostType, diskVars
<1>5. Signed'
  BY <1>a, <1>1, <1>2, NoneYet DEF Signed, HasRead
<1>6. Checked'
  BY <1>a, <1>1, <1>2, NoneYet DEF Checked, CheckedCall
<1>7. ReadsGood'
  <2>1. \A u \in Task : Locks(job'[u]) => Locks(job[u])
    BY <1>1, <1>2, NoneYet DEF Locks
  <2>2. ASSUME NEW u \in Task PROVE GoodRead(job[u])'
    <3>1. CASE u = t
      BY <1>1, <3>1, NoneYet DEF GoodRead, HasRead
    <3>2. CASE u # t
      <4>1. GoodRead(job[u])
        BY <1>a DEF ReadsGood
      <4> QED
        BY <1>2, <3>2, <4>1 DEF GoodRead, HasRead
    <3> QED
      BY <3>1, <3>2
  <2> QED
    BY <1>a, <2>1, <2>2 DEF ReadsGood
<1>8. ASSUME NEW u \in Task PROVE LetsGo(u)
  <2>1. job[t].vm \notin Vm
    BY <1>a DEF DiskInv, HasRead
  <2> QED
    BY <1>1, <1>2, <2>1, NoneYet DEF LetsGo
<1> QED
  BY <1>4, <1>5, <1>6, <1>7, <1>8, DiskFrame DEF CatalogInv, diskVars

\* The writes of the calls that edit, and of `catalog sign`.
LEMMA SaveStep ==
  ASSUME ProvisionInv, NEW t \in Task, SaveCatalog(t) \/ SignSaved(t), UNCHANGED diskVars
  PROVE  ProvisionInv'
<1>1. HasRead(job[t]) /\ Writes(t, job[t].read) /\ UNCHANGED cache
  BY DEF SaveCatalog, SignSaved, HasRead
<1>2. job[t].read \in CatalogFile /\ \A k \in Name : Vouches(job[t].read[k])
  BY <1>1 DEF ProvisionInv, CatalogInv, Signed, ReadsGood, GoodRead
<1> QED
  BY <1>1, <1>2, WriteStep

\* An add reads the file under the lock and writes it back when the image is there.
LEMMA AddStep ==
  ASSUME ProvisionInv, NEW t \in Task, UNCHANGED diskVars,
         AddSaved(t) \/ \E n \in Name, s \in Source : AddEntry(t, n, s)
  PROVE  ProvisionInv'
<1>a. /\ job \in [Task -> JobRecord] /\ catalog \in CatalogFile
      /\ Signed /\ Checked /\ ReadsGood /\ HostType
  BY DEF ProvisionInv, CatalogInv, DiskType
<1>b. cache' = cache /\ HostType'
  BY <1>a DEF AddSaved, AddEntry, HostType, diskVars
<1>1. ASSUME NEW n \in Name, NEW s \in Source, AddEntry(t, n, s) PROVE ProvisionInv'
  <2> DEFINE j == [Idle EXCEPT !.op = "add", !.at = "fetch", !.name = n, !.entry = Unsigned(s),
                               !.read = catalog]
  <2>1. Unsigned(s) \in Entry /\ Vouches(Unsigned(s)) /\ Unsigned(s).source = s
    BY NoneYet DEF Unsigned, Entry, Vouches, NoEntry
  <2>2. /\ j \in JobRecord /\ j.op = "add" /\ j.vm = NoVm /\ j.entry = Unsigned(s)
        /\ j.read = catalog
    BY <1>a, <2>1, NoneYet DEF JobRecord, JobStep
  <2>3. job' = [job EXCEPT ![t] = j] /\ catalog' = catalog /\ job[t] = Idle /\ Unlocked
    BY <1>1 DEF AddEntry
  <2> HIDE DEF j
  <2>4. HasRead(j) /\ GoodRead(j)
    BY <1>a, <2>1, <2>2 DEF HasRead, GoodRead
  <2>5. \A k \in Name : Vouches(j.read[k])
    BY <1>a, <2>2 DEF Signed
  <2> QED
    BY <1>b, <2>1, <2>2, <2>3, <2>4, <2>5, FileRead
<1>2. CASE AddSaved(t)
  <2> DEFINE b == cache[FileOf(t)]
             e == [job[t].entry EXCEPT !.sha256 = b]
             c == [job[t].read EXCEPT ![job[t].name] = e]
  <2>1. /\ job[t].op = "add" /\ job[t].at = "fetched"
        /\ (Done(t) /\ UNCHANGED catalog) \/ Writes(t, c)
    BY <1>2 DEF AddSaved
  <2>2. HasRead(job[t])
    BY <2>1 DEF HasRead
  <2>3. /\ job[t].entry.source \in Source /\ job[t].read \in CatalogFile /\ Vouches(job[t].entry)
        /\ \A n \in Name : Vouches(job[t].read[n])
    BY <1>a, <2>1, <2>2 DEF ReadsGood, GoodRead, Signed
  <2>4. b \in Bytes \cup {"absent", "none"}
    BY <1>a, <2>3 DEF HostType, FileOf, File
  <2>5. job[t].entry \in Entry
    BY <1>a DEF JobRecord
  <2>6. e \in Entry /\ Vouches(e)
    BY <2>3, <2>4, <2>5 DEF Entry, Vouches
  <2> HIDE DEF e
  <2>7. c \in CatalogFile /\ \A n \in Name : Vouches(c[n])
    BY <2>3, <2>6 DEF CatalogFile
  <2> HIDE DEF c
  <2>8. CASE Done(t) /\ UNCHANGED catalog
    <3>1. job[t].at \notin Late
      BY <2>1 DEF Late
    <3> QED
      BY <1>b, <2>8, <3>1, EndsEarly
  <2>9. CASE Writes(t, c)
    BY <1>b, <2>2, <2>7, <2>9, WriteStep
  <2> QED
    BY <2>1, <2>8, <2>9
<1> QED
  BY <1>1, <1>2

\* A call begins that neither adds an entry nor creates a VM.
LEMMA Begins ==
  ASSUME ProvisionInv, NEW t \in Task, NEW op \in {"export", "build"}, NEW n \in Name \cup {"none"},
         NEW e \in Entry, Begin(t, op, n, e), UNCHANGED <<catalog, cache, diskVars>>
  PROVE  ProvisionInv'
<1> DEFINE j == [Idle EXCEPT !.op = op, !.at = "fetch", !.name = n, !.entry = e]
<1>1. CatalogInv /\ HostType' /\ job \in [Task -> JobRecord]
  BY DEF ProvisionInv, CatalogInv, DiskType, HostType, diskVars
<1>2. j \in JobRecord /\ j.op = op /\ j.vm = NoVm
  BY NoneYet DEF JobRecord, JobStep
<1>3. job' = [job EXCEPT ![t] = j] /\ job[t] = Idle
  BY DEF Begin
<1> HIDE DEF j
<1>4. CatalogInv'
  BY <1>1, <1>2, <1>3, OneCall DEF CheckedCall, HasRead
<1>5. ASSUME NEW u \in Task PROVE LetsGo(u)
  BY <1>1, <1>2, <1>3, NoneYet, CatalogAssumption DEF LetsGo
<1> QED
  BY <1>4, <1>5, DiskFrame DEF diskVars

\* The registry and its administrators make no volume and lose none.
LEMMA RegistryStep ==
  ASSUME ProvisionInv, Registry \/ Administers, UNCHANGED diskVars
  PROVE  ProvisionInv'
<1>a. /\ job \in [Task -> JobRecord] /\ HostType /\ catalog \in CatalogFile
      /\ \A t \in Task : DiskInv(t)
  BY DEF ProvisionInv, CatalogInv, DiskType
<1>1. ASSUME NEW t \in Task, Exported(t) \/ Built(t) PROVE ProvisionInv'
  <2>1. Done(t) /\ HostType' /\ UNCHANGED catalog /\ job[t].at \notin Late
    BY <1>1, <1>a DEF Exported, Built, HostType, diskVars, Late
  <2> QED
    BY <2>1, EndsEarly
<1>2. ASSUME NEW t \in Task, Resolved(t) PROVE ProvisionInv'
  <2>1. HostType' /\ UNCHANGED catalog /\ job[t].at \notin Late /\ (Done(t) \/ Goes(t, "resolved"))
    BY <1>2, <1>a DEF Resolved, HostType, diskVars, Late
  <2>2. "resolved" \in JobStep \ Late
    BY DEF JobStep, Late
  <2> QED
    BY <2>1, <2>2, EndsEarly, MovesEarly
<1>3. ASSUME NEW t \in Task, CleanDownloads(t) PROVE ProvisionInv'
  <2> DEFINE kept == {BaseName[catalog[n].source] : n \in {m \in Name : Listed(m)}}
             K(u) == IF job[u].at = "writing" /\ FileOf(u) \notin kept
                       THEN [job[u] EXCEPT !.hold = "gone"] ELSE job[u]
  <2>1. /\ UNCHANGED catalog /\ job' = [u \in Task |-> K(u)]
        /\ cache' = [f \in File |-> IF f \in kept THEN cache[f] ELSE "absent"]
    BY <1>3 DEF CleanDownloads
  <2>2. HostType'
    BY <1>a, <2>1 DEF HostType, diskVars
  <2>3. ASSUME NEW u \in Task
        PROVE  /\ K(u) \in JobRecord /\ K(u).op = job[u].op /\ K(u).vm = job[u].vm
               /\ K(u).entry = job[u].entry /\ K(u).read = job[u].read /\ K(u).raced = job[u].raced /\ K(u).at = job[u].at
    <3>1. job[u] \in JobRecord
      BY <1>a
    <3>2. CASE K(u) = job[u]
      BY <3>1, <3>2
    <3>3. CASE K(u) = [job[u] EXCEPT !.hold = "gone"]
      <4> DEFINE k == [job[u] EXCEPT !.hold = "gone"]
      <4>1. /\ k \in JobRecord /\ k.op = job[u].op /\ k.vm = job[u].vm
            /\ k.entry = job[u].entry /\ k.read = job[u].read /\ k.raced = job[u].raced /\ k.at = job[u].at
        BY <3>1, JobEdit
      <4> HIDE DEF k, K
      <4> QED
        BY <3>3, <4>1 DEF k
    <3> QED
      BY <3>2, <3>3
  <2> HIDE DEF K
  <2>4. job' \in [Task -> JobRecord] /\ \A u \in Task : job'[u] = K(u)
    BY <2>1, <2>3
  <2> QED
    BY <2>1, <2>2, <2>3, <2>4, Quiet
<1>4. ASSUME NEW t \in Task, NEW n \in Name, ExportEntry(t, n) PROVE ProvisionInv'
  <2>1. Begin(t, "export", n, catalog[n]) /\ UNCHANGED <<catalog, cache>> /\ catalog[n] \in Entry
    BY <1>4, <1>a DEF ExportEntry, CatalogFile
  <2> QED
    BY <2>1, Begins
<1>5. ASSUME NEW t \in Task, NEW s \in Source, BuildImage(t, s) PROVE ProvisionInv'
  <2>1. Begin(t, "build", "none", Unsigned(s)) /\ UNCHANGED <<catalog, cache>>
    BY <1>5 DEF BuildImage
  <2>2. Unsigned(s) \in Entry
    BY NoneYet DEF Unsigned, Entry
  <2> QED
    BY <2>1, <2>2, Begins
<1>6. CASE Registry
  <2>1. ASSUME NEW t \in Task, Fetch(t) \/ AddSaved(t) \/ SaveCatalog(t) \/ SignSaved(t)
        PROVE  ProvisionInv'
    BY <2>1, FetchStep, AddStep, SaveStep
  <2> QED
    BY <1>6, <1>1, <1>2, <1>3, <2>1 DEF Registry
<1>7. CASE Administers
  <2>1. PICK t \in Task :
          \/ \E n \in Name, s \in Source : AddEntry(t, n, s) \/ SignEntry(t, n, s)
          \/ \E n \in Name : ExportEntry(t, n)
          \/ \E s \in Source : BuildImage(t, s)
    BY <1>7 DEF Administers
  <2>2. CASE \E n \in Name, s \in Source : AddEntry(t, n, s) \/ SignEntry(t, n, s)
    BY <2>2, AddStep, SignStep
  <2> QED
    BY <2>1, <2>2, <1>4, <1>5
<1> QED
  BY <1>6, <1>7
\* A create begins on a VM that nothing is known of.
LEMMA CreateStep ==
  ASSUME ProvisionInv, NEW t \in Task, NEW v \in Vm,
         CreateFromPath(t, v) \/ \E n \in Name : CreateFromCatalog(t, v, n)
  PROVE  ProvisionInv'
<1>a. /\ CatalogInv /\ job \in [Task -> JobRecord] /\ catalog \in CatalogFile /\ HostType
      /\ \A n \in Name : Vouches(catalog[n])
  BY DEF ProvisionInv, CatalogInv, DiskType, Signed
<1>b. Fresh(v) /\ job[t] = Idle /\ UNCHANGED <<catalog, cache, diskVars>>
  BY DEF CreateFromPath, CreateFromCatalog, ResolveBegins
<1>c. ~record[v].named /\ ~volume[v] /\ \A u \in Task : job[u].vm # v
  BY <1>b DEF Fresh, NoRecord
<1>1. PICK j \in JobRecord :
        /\ job' = [job EXCEPT ![t] = j] /\ j.vm = v /\ j.op = "create" /\ j.at \in {"fetch", "resolved"}
        /\ j.entry.source = j.entry.sha256
  <2>1. CASE CreateFromPath(t, v)
    <3> DEFINE j == [Idle EXCEPT !.op = "create", !.at = "resolved", !.vm = v]
    <3>1. j \in JobRecord /\ j.vm = v /\ j.op = "create" /\ j.at = "resolved" /\ j.entry = Idle.entry
      BY NoneYet DEF JobRecord, JobStep
    <3>2. job' = [job EXCEPT ![t] = j]
      BY <2>1 DEF CreateFromPath
    <3>3. Idle.entry = NoEntry
      BY DEF Idle
    <3> HIDE DEF j
    <3> QED
      BY <3>1, <3>2, <3>3, NoneYet
  <2>2. ASSUME NEW n \in Name, CreateFromCatalog(t, v, n)
        PROVE \E j \in JobRecord :
                /\ job' = [job EXCEPT ![t] = j] /\ j.vm = v /\ j.op = "create"
                /\ j.at \in {"fetch", "resolved"} /\ j.entry.source = j.entry.sha256
    <3> DEFINE e == catalog[n]
               j == [Idle EXCEPT !.op = "create", !.at = "fetch", !.name = n, !.entry = e, !.vm = v]
    <3>1. e \in Entry /\ Vouches(e)
      BY <1>a DEF CatalogFile
    <3>2. job' = [job EXCEPT ![t] = j] /\ VerifySignature(n, e)
      BY <2>2 DEF CreateFromCatalog, ResolveBegins
    <3>3. e.source = e.sha256
      BY <3>1, <3>2 DEF Vouches, VerifySignature, CanonicalPayload
    <3> HIDE DEF e
    <3>4. j \in JobRecord /\ j.vm = v /\ j.op = "create" /\ j.at = "fetch" /\ j.entry = e
      BY <3>1, NoneYet DEF JobRecord, JobStep
    <3> HIDE DEF j
    <3> QED
      BY <3>2, <3>3, <3>4
  <2> QED
    BY <2>1, <2>2
<1>2. CatalogInv'
  <2>1. HostType' /\ CheckedCall(j) /\ ~HasRead(j)
    BY <1>a, <1>b, <1>1 DEF HostType, diskVars, CheckedCall, HasRead
  <2> QED
    BY <1>a, <1>b, <1>1, <2>1, OneCall
<1>3. job'[t] = j /\ \A u \in Task \ {t} : job'[u] = job[u]
  BY <1>a, <1>1
<1>4. UNCHANGED <<record, volume, mishap>>
  BY <1>b DEF diskVars
<1>5. VolumesOwned'
  BY <1>b, <1>3, <1>4, NoneYet, CatalogAssumption DEF ProvisionInv, VolumesOwned
<1>6. ASSUME NEW u \in Task PROVE DiskInv(u)'
  <2>1. CASE u = t
    BY <1>1, <1>c, <1>3, <1>4, <2>1 DEF DiskInv
  <2>2. CASE u # t
    <3>1. DiskInv(u) /\ job'[u] = job[u] /\ job[u].vm # v
      BY <1>c, <1>3, <2>2 DEF ProvisionInv
    <3>2. \A w \in Task : job'[w].vm = job[u].vm => job[w].vm = job[u].vm
      BY <1>1, <1>3, <3>1
    <3> QED
      BY <1>4, <3>1, <3>2 DEF DiskInv
  <2> QED
    BY <2>1, <2>2
<1> QED
  BY <1>2, <1>5, <1>6 DEF ProvisionInv

\* A step of a create that has its record to itself: it goes on to the next
\* step, and only the record, the volume and the mishaps of its VM change.
LEMMA CreateGoes ==
  ASSUME ProvisionInv, NEW t \in Task, job[t].op = "create", NEW a \in JobStep, a # "reclaim",
         Goes(t, a), HostType', UNCHANGED <<catalog, cache>>,
         \A v \in Vm \ {job[t].vm} :
           record'[v] = record[v] /\ volume'[v] = volume[v] /\ (v \in mishap' <=> v \in mishap),
         ~record'[job[t].vm].named,
         a \notin Late => ~volume'[job[t].vm],
         a = "failed" => ~volume'[job[t].vm] \/ job[t].vm \in mishap'
  PROVE  ProvisionInv'
<1>a. CatalogInv /\ Checked /\ DiskInv(t) /\ job \in [Task -> JobRecord]
  BY DEF ProvisionInv, CatalogInv, DiskType
<1>b. job[t].vm \in Vm
  BY <1>a DEF Checked, CheckedCall
<1>1. CatalogInv' /\ job'[t] \in JobRecord
  BY <1>a, Moves
<1>2. /\ job' = [job EXCEPT ![t] = job'[t]]
      /\ job'[t].at = a /\ job'[t].op = job[t].op /\ job'[t].vm = job[t].vm
  BY <1>a, Moves
<1>3. \A u \in Task : job'[u].vm = job[u].vm
  BY <1>a, <1>2
<1>4. DiskInv(t)'
  BY <1>a, <1>b, <1>2, <1>3 DEF DiskInv, Late
<1> QED
  BY <1>b, <1>1, <1>2, <1>4, DiskOne

\* A call on a VM ends, and leaves its volume to the record or to a mishap.
LEMMA CallEnds ==
  ASSUME ProvisionInv, NEW t \in Task, job[t].op \in {"create", "delete"},
         Done(t), HostType', UNCHANGED <<catalog, cache>>,
         \A v \in Vm \ {job[t].vm} :
           record'[v] = record[v] /\ volume'[v] = volume[v] /\ (v \in mishap' <=> v \in mishap),
         volume'[job[t].vm] => record'[job[t].vm].named \/ job[t].vm \in mishap'
  PROVE  ProvisionInv'
<1>a. CatalogInv /\ Checked /\ job \in [Task -> JobRecord]
  BY DEF ProvisionInv, CatalogInv, DiskType
<1>b. job[t].vm \in Vm
  BY <1>a DEF Checked, CheckedCall
<1>1. CatalogInv' /\ job' = [job EXCEPT ![t] = Idle]
  BY <1>a, Ends DEF Done
<1>2. DiskInv(t)'
  BY <1>a, <1>1, NoneYet, CatalogAssumption DEF DiskInv
<1> QED
  BY <1>b, <1>1, <1>2, NoneYet, DiskOne
\* delete takes the record first, and then what it named is its own.
LEMMA DeleteStep ==
  ASSUME ProvisionInv, NEW t \in Task, NEW v \in Vm, Delete(t, v)
  PROVE  ProvisionInv'
<1>a. /\ CatalogInv /\ job \in [Task -> JobRecord] /\ HostType
      /\ \A u \in Task : DiskInv(u)
  BY DEF ProvisionInv, CatalogInv, DiskType
<1>b. /\ job[t] = Idle /\ record' = [record EXCEPT ![v] = NoRecord]
      /\ UNCHANGED <<catalog, cache, focus, storage, volume, mishap>>
  BY DEF Delete
<1>c. HostType' /\ ~record'[v].named /\ \A w \in Vm \ {v} : record'[w] = record[w]
  BY <1>a, <1>b DEF HostType, NoRecord
<1>1. CASE record[v].named
  <2> DEFINE j == [Idle EXCEPT !.op = "delete", !.at = "reclaim", !.vm = v]
  <2>1. j \in JobRecord /\ j.vm = v /\ j.op = "delete" /\ j.at = "reclaim"
    BY NoneYet DEF JobRecord, JobStep
  <2>2. job' = [job EXCEPT ![t] = j]
    BY <1>1 DEF Delete
  <2> HIDE DEF j
  <2>3. CatalogInv'
    <3>1. CheckedCall(j) /\ ~HasRead(j)
      BY <2>1 DEF CheckedCall, HasRead
    <3> QED
      BY <1>a, <1>b, <1>c, <2>1, <2>2, <3>1, OneCall
  <2>4. job'[t] = j /\ \A u \in Task \ {t} : job'[u] = job[u] /\ job[u].vm # v
    BY <1>a, <1>1, <2>2 DEF DiskInv
  <2>5. VolumesOwned'
    BY <1>b, <1>c, <2>1, <2>4, NoneYet, CatalogAssumption DEF ProvisionInv, VolumesOwned
  <2>6. ASSUME NEW u \in Task PROVE DiskInv(u)'
    <3>1. CASE u = t
      BY <1>c, <2>1, <2>4, <3>1 DEF DiskInv
    <3>2. CASE u # t
      BY <1>a, <1>b, <1>c, <2>1, <2>4, <3>2 DEF DiskInv
    <3> QED
      BY <3>1, <3>2
  <2> QED
    BY <2>3, <2>5, <2>6 DEF ProvisionInv
<1>2. CASE ~record[v].named
  <2>1. job' = job
    BY <1>2 DEF Delete
  <2>2. CatalogInv'
    <3>1. DiskType' /\ \A u \in Task : CheckedCall(job'[u])
      BY <1>a, <1>b, <1>c, <2>1 DEF DiskType, CatalogInv, Checked
    <3> QED
      BY <1>a, <1>b, <2>1, <3>1, CatalogFrame DEF HasRead
  <2>3. VolumesOwned'
    BY <1>b, <1>c, <1>2, <2>1 DEF ProvisionInv, VolumesOwned
  <2>4. ASSUME NEW u \in Task PROVE DiskInv(u)'
    BY <1>a, <1>b, <1>c, <2>1 DEF DiskInv
  <2> QED
    BY <2>2, <2>3, <2>4 DEF ProvisionInv
<1> QED
  BY <1>1, <1>2

\* The steps of a create and of a delete.
LEMMA VolumeStep ==
  ASSUME ProvisionInv, NEW t \in Task,
         \/ InsertRecord(t) \/ CloneForVm(t) \/ MakeVolume(t) \/ ProvisionFails(t) \/ VolumeReady(t)
         \/ UndoSnapshot(t) \/ NoPidFile(t) \/ Created(t) \/ CreateFails(t) \/ ProvisionFailed(t)
         \/ ReclaimVolume(t)
  PROVE  ProvisionInv'
<1> DEFINE v == job[t].vm
<1>a. HostType /\ Checked /\ DiskInv(t)
  BY DEF ProvisionInv, CatalogInv, DiskType
<1>b. v \in Vm
  BY <1>a DEF Checked, CheckedCall, InsertRecord, CloneForVm, MakeVolume, ProvisionFails, VolumeReady,
              UndoSnapshot, NoPidFile, Created, CreateFails, ProvisionFailed, ReclaimVolume, Creates
<1>c. /\ ~record[v].named
      /\ job[t].op = "create" /\ job[t].at \notin {"made", "provisioned", "failed"} => ~volume[v]
      /\ job[t].op = "create" /\ job[t].at = "failed" => ~volume[v] \/ v \in mishap
  BY <1>a, <1>b DEF DiskInv
<1>d. \A a \in {"provision", "cloned", "made", "provisioned", "failed"} : a \in JobStep /\ a # "reclaim"
  BY DEF JobStep
<1>1. CASE InsertRecord(t)
  <2>1. CASE ImageExists(t)
    <3>1. /\ record' = [record EXCEPT ![v] = [status |-> "Creating", named |-> FALSE]]
          /\ Goes(t, "provision") /\ UNCHANGED <<catalog, cache, volume, mishap>>
          /\ job[t].op = "create" /\ job[t].at = "resolved"
      BY <1>1, <2>1 DEF InsertRecord, Creates
    <3>2. HostType' /\ ~record'[v].named /\ \A u \in Vm \ {v} : record'[u] = record[u]
      BY <1>a, <1>b, <3>1 DEF HostType
    <3> QED
      BY <1>c, <1>d, <3>1, <3>2, CreateGoes
  <2>2. CASE ~ImageExists(t)
    <3>1. /\ Done(t) /\ UNCHANGED <<catalog, cache, diskVars>> /\ job[t].at = "resolved"
      BY <1>1, <2>2 DEF InsertRecord, Creates, diskVars
    <3>2. HostType' /\ job[t].at \notin Late
      BY <1>a, <3>1 DEF HostType, diskVars, Late
    <3> QED
      BY <3>1, <3>2, EndsEarly
  <2> QED
    BY <2>1, <2>2
<1>2. CASE CloneForVm(t) \/ ProvisionFails(t)
  <2>1. PICK a \in {"cloned", "provisioned", "failed"} : Goes(t, a)
    BY <1>2 DEF CloneForVm, ProvisionFails
  <2>2. /\ UNCHANGED <<catalog, cache, record, volume, mishap>>
        /\ job[t].op = "create" /\ job[t].at \in {"provision", "cloned"}
    BY <1>2 DEF CloneForVm, ProvisionFails, Creates, diskVars
  <2>3. HostType'
    BY <1>a, <2>2 DEF HostType
  <2> QED
    BY <1>c, <1>d, <2>1, <2>2, <2>3, CreateGoes
<1>3. CASE MakeVolume(t)
  <2>1. PICK a \in {"made", "provisioned"} : Goes(t, a)
    BY <1>3 DEF MakeVolume
  <2>2. /\ UNCHANGED <<catalog, cache, record, mishap>> /\ volume' = [volume EXCEPT ![v] = TRUE]
        /\ job[t].op = "create"
    BY <1>3 DEF MakeVolume, Creates
  <2>3. HostType' /\ \A u \in Vm \ {v} : volume'[u] = volume[u]
    BY <1>a, <1>b, <2>2 DEF HostType
  <2>4. a \in Late
    BY DEF Late
  <2> QED
    BY <1>c, <1>d, <2>1, <2>2, <2>3, <2>4, CreateGoes
<1>4. CASE VolumeReady(t)
  <2>1. Goes(t, "provisioned") /\ UNCHANGED <<catalog, cache, record, volume, mishap>> /\ job[t].op = "create"
    BY <1>4 DEF VolumeReady, Creates, diskVars
  <2>2. HostType' /\ "provisioned" \in Late
    BY <1>a, <2>1 DEF HostType, Late
  <2> QED
    BY <1>c, <1>d, <2>1, <2>2, CreateGoes
<1>e. ASSUME Reclaim(v)
      PROVE  /\ volume' \in [Vm -> BOOLEAN]
             /\ \A u \in Vm \ {v} : volume'[u] = volume[u]
  <2>1. PICK gone \in BOOLEAN : volume' = [volume EXCEPT ![v] = volume[v] /\ ~gone]
    BY <1>e DEF Reclaim
  <2>2. (volume[v] /\ ~gone) \in BOOLEAN
    OBVIOUS
  <2> QED
    BY <1>a, <1>b, <2>1, <2>2 DEF HostType
<1>5. CASE UndoSnapshot(t) \/ NoPidFile(t)
  <2>1. Goes(t, "failed") /\ UNCHANGED <<catalog, cache, record>> /\ job[t].op = "create"
    BY <1>5 DEF UndoSnapshot, NoPidFile, Creates
  <2>2. /\ volume' \in [Vm -> BOOLEAN] /\ mishap' \subseteq mishap \cup {v} /\ mishap \subseteq mishap'
        /\ \A u \in Vm \ {v} : volume'[u] = volume[u]
        /\ ~volume'[v] \/ v \in mishap'
    <3>1. CASE UndoSnapshot(t)
      BY <1>b, <1>e, <3>1 DEF UndoSnapshot
    <3>2. CASE NoPidFile(t)
      BY <1>a, <3>2 DEF NoPidFile, HostType
    <3> QED
      BY <1>5, <3>1, <3>2
  <2>3. HostType'
    BY <1>a, <1>b, <2>1, <2>2 DEF HostType
  <2>4. "failed" \in Late
    BY DEF Late
  <2> QED
    BY <1>c, <1>d, <2>1, <2>2, <2>3, <2>4, CreateGoes
<1>6. CASE Created(t) \/ CreateFails(t)
  <2>1. PICK status \in {"Running", "Failed"} : record' = [record EXCEPT ![v] = [status |-> status, named |-> TRUE]]
    BY <1>6 DEF Created, CreateFails, Saved
  <2>2. Done(t) /\ UNCHANGED <<catalog, cache, mishap>> /\ job[t].op = "create"
    BY <1>6 DEF Created, CreateFails, Saved, Creates
  <2>3. /\ volume' \in [Vm -> BOOLEAN]
        /\ \A u \in Vm \ {v} : volume'[u] = volume[u]
    <3>1. UNCHANGED volume \/ Reclaim(v)
      BY <1>6 DEF Created, CreateFails
    <3> QED
      BY <1>a, <1>e, <3>1 DEF HostType
  <2>4. HostType' /\ record'[v].named /\ \A u \in Vm \ {v} : record'[u] = record[u]
    BY <1>a, <1>b, <2>1, <2>2, <2>3 DEF HostType
  <2> QED
    BY <2>2, <2>3, <2>4, CallEnds
<1>7. CASE ProvisionFailed(t)
  <2>1. /\ record' = [record EXCEPT ![v] = [status |-> "Failed", named |-> FALSE]]
        /\ Done(t) /\ UNCHANGED <<catalog, cache, volume, mishap>>
        /\ job[t].op = "create" /\ job[t].at = "failed"
    BY <1>7 DEF ProvisionFailed, Saved, Creates
  <2>2. HostType' /\ \A u \in Vm \ {v} : record'[u] = record[u]
    BY <1>a, <1>b, <2>1 DEF HostType
  <2> QED
    BY <1>c, <2>1, <2>2, CallEnds
<1>8. CASE ReclaimVolume(t)
  <2>1. /\ job[t].op = "delete" /\ Done(t) /\ Reclaim(v) /\ UNCHANGED <<catalog, cache, record>>
        /\ mishap' = mishap \cup {u \in Vm : volume'[u] /\ u = v}
    BY <1>8 DEF ReclaimVolume
  <2>2. HostType' /\ \A u \in Vm \ {v} : volume'[u] = volume[u] /\ (u \in mishap' <=> u \in mishap)
    BY <1>a, <1>b, <1>e, <2>1 DEF HostType
  <2>3. volume'[v] => v \in mishap'
    BY <1>b, <2>1
  <2> QED
    BY <2>1, <2>2, <2>3, CallEnds
<1> QED
  BY <1>1, <1>2, <1>3, <1>4, <1>5, <1>6, <1>7, <1>8
\* Every step of the registry, of creates, deletes and kills keeps the invariant.
LEMMA ProvisionStep ==
  ASSUME ProvisionInv, Next
  PROVE  ProvisionInv'
<1>1. CASE (Registry \/ Administers \/ Edits) /\ UNCHANGED diskVars
  BY <1>1, RegistryStep, EditStep
<1>2. ASSUME NEW t \in Task, Killed(t) PROVE ProvisionInv'
  <2>1. /\ CatalogInv /\ HostType /\ job \in [Task -> JobRecord]
    BY DEF ProvisionInv, CatalogInv, DiskType
  <2>2. /\ Done(t) /\ UNCHANGED <<catalog, cache, record, volume>>
        /\ mishap' = mishap \cup (Vm \cap {job[t].vm})
    BY <1>2 DEF Killed
  <2>3. HostType'
    BY <2>1, <2>2 DEF HostType
  <2>4. CatalogInv' /\ job'[t] = Idle /\ \A u \in Task \ {t} : job'[u] = job[u]
    BY <2>1, <2>2, <2>3, Ends DEF Done
  <2>5. ASSUME NEW u \in Task PROVE LetsGo(u)
    BY <2>2, <2>4, NoneYet DEF LetsGo
  <2> QED
    BY <2>2, <2>4, <2>5, DiskFrame
<1> QED
  BY <1>1, <1>2, CreateStep, DeleteStep, VolumeStep DEF Next

\* The catalog and the disks are as they were when another part moves.
LEMMA ProvisionStutter ==
  ASSUME ProvisionInv, UNCHANGED vars
  PROVE  ProvisionInv'
<1>1. UNCHANGED <<catalog, cache, job, record, volume, mishap>>
  BY DEF vars, catalogVars, diskVars
<1>2. DiskType'
  BY <1>1 DEF ProvisionInv, CatalogInv, DiskType, HostType
<1>3. Signed' /\ Checked' /\ ReadsGood'
  BY <1>1 DEF ProvisionInv, CatalogInv, Signed, Checked, ReadsGood, GoodRead
<1>4. VolumesOwned' /\ \A t \in Task : DiskInv(t)'
  BY <1>1 DEF ProvisionInv, VolumesOwned, DiskInv
<1> QED
  BY <1>2, <1>3, <1>4 DEF ProvisionInv, CatalogInv

\* At first there is neither an entry nor a volume.
LEMMA ProvisionStart == Init => ProvisionInv
<1> SUFFICES ASSUME Init PROVE ProvisionInv
  OBVIOUS
<1>1. \A t \in Task : job[t] = Idle
  BY DEF Init, CatalogInit
<1>2. DiskType
  <2>1. catalog \in CatalogFile /\ job \in [Task -> JobRecord]
    BY NoneYet DEF Init, CatalogInit, CatalogFile
  <2>2. HostType
    BY DEF Init, CatalogInit, HostType, NoRecord
  <2> QED
    BY <2>1, <2>2 DEF DiskType
<1>3. Signed /\ Checked /\ ReadsGood
  BY <1>1, NoneYet DEF Init, CatalogInit, Signed, Checked, CheckedCall, ReadsGood, HasRead, Locks, GoodRead
<1>4. VolumesOwned
  BY DEF Init, VolumesOwned
<1>5. \A t \in Task : DiskInv(t)
  BY <1>1, NoneYet, CatalogAssumption DEF DiskInv
<1> QED
  BY <1>2, <1>3, <1>4, <1>5 DEF ProvisionInv, CatalogInv

-----------------------------------------------------------------------------
(* What a step does to the catalog and to a create.                        *)

\* A step that changes two entries is a rename, or the end of a call that did
\* not see a write without the lock.
LEMMA TwoChanged ==
  ASSUME ProvisionInv, Next, NEW n \in Name, NEW m \in Name, n # m,
         catalog'[n] # catalog[n], catalog'[m] # catalog[m]
  PROVE  \/ Renamed(n, m) \/ Renamed(m, n)
         \/ \E t \in Task : job[t].raced /\ job'[t] = Idle
<1>a. catalog \in CatalogFile /\ job \in [Task -> JobRecord] /\ ReadsGood
  BY DEF ProvisionInv, CatalogInv, DiskType
<1>1. catalog' # catalog
  OBVIOUS
<1>2. Registry
  BY <1>1 DEF Next, CreateFromCatalog, ResolveBegins, CreateFromPath, Delete, InsertRecord, CloneForVm,
              MakeVolume, ProvisionFails, VolumeReady, UndoSnapshot, NoPidFile, Created, CreateFails,
              ProvisionFailed, ReclaimVolume, Killed, Administers, AddEntry, SignEntry, ExportEntry,
              BuildImage, Edits, RemoveEntry, RenameEntry, CloneEntry, SetReadOnly, Edit, Reads
<1>3. PICK t \in Task : AddSaved(t) \/ SaveCatalog(t) \/ SignSaved(t)
  BY <1>1, <1>2 DEF Registry, Fetch, FetchHit, FetchOpens, FetchWritten, FetchFails, Exported, Built,
                    Resolved, CleanDownloads
<1>4. SUFFICES ASSUME ~job[t].raced PROVE Renamed(n, m) \/ Renamed(m, n)
  <2>1. job'[t] = Idle
    BY <1>a, <1>3 DEF AddSaved, SaveCatalog, SignSaved, Done, Writes
  <2> QED
    BY <2>1
<1>5. GoodRead(job[t]) /\ HasRead(job[t])
  BY <1>a, <1>3 DEF ReadsGood, AddSaved, SaveCatalog, SignSaved, HasRead
<1>6. CASE AddSaved(t)
  <2>1. PICK e : catalog' = [catalog EXCEPT ![job[t].name] = e]
    BY <1>1, <1>4, <1>5, <1>6 DEF AddSaved, Writes, GoodRead
  <2> QED
    BY <1>a, <2>1 DEF CatalogFile
<1>7. CASE SaveCatalog(t) \/ SignSaved(t)
  <2>1. catalog' = job[t].read /\ job[t].op # "add"
    BY <1>7 DEF SaveCatalog, SignSaved, Writes
  <2>2. OneEdit(catalog, catalog')
    BY <1>4, <1>5, <2>1 DEF GoodRead
  <2> QED
    BY <2>2 DEF OneEdit, Moved, Renamed, Listed
<1> QED
  BY <1>3, <1>6, <1>7

\* Only the check of the whole file takes a create from "fetched" to "resolved".
LEMMA OnlyResolved ==
  ASSUME ProvisionInv, Next, NEW t \in Task, job[t].at = "fetched", job'[t].at = "resolved"
  PROVE  Resolved(t)
<1>a. job \in [Task -> JobRecord] /\ Idle.at = "idle"
  BY NoneYet DEF ProvisionInv, CatalogInv, DiskType
<1>b. job'[t] # job[t]
  OBVIOUS
<1>1. ASSUME NEW u \in Task, NEW a, Goes(u, a) PROVE u = t /\ a = "resolved"
  <2>1. u = t
    BY <1>a, <1>b, <1>1 DEF Goes
  <2>2. job' = [job EXCEPT ![t] = [job[t] EXCEPT !.at = a]]
    BY <1>1, <2>1 DEF Goes
  <2>3. job'[t].at = a
    BY <1>a, <2>2 DEF JobRecord
  <2> QED
    BY <2>1, <2>3
<1>2. ASSUME NEW u \in Task, Done(u) PROVE FALSE
  BY <1>a, <1>b, <1>2 DEF Done
<1>3. ASSUME NEW u \in Task, NEW j, job[u] = Idle, job' = [job EXCEPT ![u] = j] PROVE FALSE
  BY <1>a, <1>b, <1>3
<1>4. ASSUME NEW u \in Task, Fetch(u) PROVE FALSE
  <2>1. CASE FetchHit(u)
    <3>1. Goes(u, "asking") \/ Goes(u, "fetched")
      BY <2>1 DEF FetchHit
    <3> QED
      BY <1>1, <3>1
  <2>2. CASE FetchOpens(u)
    <3>1. job'[t].at \in {job[t].at, "writing"}
      <4>0. job[t] \in JobRecord /\ u \notin Writers(FileOf(u))
        BY <1>a, <2>2 DEF FetchOpens, Writers
      <4>1. CASE t = u
        BY <4>0, <4>1, <2>2 DEF FetchOpens
      <4>2. CASE t # u /\ t \in Writers(FileOf(u))
        <5>1. job'[t] = [job[t] EXCEPT !.hold = "shared"]
          BY <4>2, <2>2 DEF FetchOpens
        <5> QED
          BY <4>0, <5>1 DEF JobRecord
      <4>3. CASE t # u /\ t \notin Writers(FileOf(u))
        BY <4>3, <2>2 DEF FetchOpens
      <4> QED
        BY <4>1, <4>2, <4>3
    <3> QED
      BY <3>1
  <2>3. CASE FetchWritten(u)
    <3>1. u = t /\ job[u].at = "writing"
      BY <1>a, <1>b, <2>3 DEF FetchWritten
    <3> QED
      BY <3>1
  <2>4. CASE FetchFails(u)
    BY <1>2, <2>4 DEF FetchFails
  <2> QED
    BY <1>4, <2>1, <2>2, <2>3, <2>4 DEF Fetch
<1>5. ASSUME NEW u \in Task, CleanDownloads(u) PROVE FALSE
  <2>1. job'[t] = job[t] \/ job'[t] = [job[t] EXCEPT !.hold = "gone"]
    BY <1>5 DEF CleanDownloads
  <2>2. job'[t].at = job[t].at
    BY <1>a, <2>1 DEF JobRecord
  <2> QED
    BY <2>2
<1>6. ASSUME NEW u \in Task, Resolved(u) PROVE Resolved(t)
  BY <1>1, <1>2, <1>6 DEF Resolved
<1>w. ASSUME NEW u \in Task, NEW c, Writes(u, c) PROVE FALSE
  <2>1. job'[t] \in {Idle, job[t], [job[t] EXCEPT !.raced = TRUE]}
    BY <1>w DEF Writes
  <2>2. [job[t] EXCEPT !.raced = TRUE].at = job[t].at
    BY <1>a DEF JobRecord
  <2> QED
    BY <1>a, <2>1, <2>2
<1>7. CASE Registry
  BY <1>2, <1>4, <1>5, <1>6, <1>7, <1>w DEF Registry, AddSaved, SaveCatalog, SignSaved, Exported, Built
<1>8. CASE Administers \/ Edits
  BY <1>3, <1>8 DEF Administers, Edits, AddEntry, RemoveEntry, RenameEntry, CloneEntry, SetReadOnly, Edit,
                    SignEntry, Reads, ExportEntry, BuildImage, Begin
<1>9. ASSUME NEW u \in Task, NEW v \in Vm,
             \/ \E n \in Name : CreateFromCatalog(u, v, n)
             \/ CreateFromPath(u, v) \/ Delete(u, v)
      PROVE  FALSE
  BY <1>3, <1>9, <1>b DEF CreateFromCatalog, ResolveBegins, CreateFromPath, Delete
<1>10. ASSUME NEW u \in Task,
              \/ InsertRecord(u) \/ CloneForVm(u) \/ MakeVolume(u) \/ ProvisionFails(u) \/ VolumeReady(u)
              \/ UndoSnapshot(u) \/ NoPidFile(u) \/ Created(u) \/ CreateFails(u) \/ ProvisionFailed(u)
              \/ ReclaimVolume(u) \/ Killed(u)
       PROVE  FALSE
  <2>1. Done(u) \/ \E a \in {"provision", "cloned", "made", "provisioned", "failed"} : Goes(u, a)
    BY <1>10 DEF InsertRecord, CloneForVm, MakeVolume, ProvisionFails, VolumeReady, UndoSnapshot,
                 NoPidFile, Created, CreateFails, ProvisionFailed, ReclaimVolume, Killed, Saved
  <2> QED
    BY <1>1, <1>2, <2>1
<1> QED
  BY <1>7, <1>8, <1>9, <1>10 DEF Next

\* What it takes is the image of the source that was signed.
LEMMA TakenAsSigned ==
  ASSUME ProvisionInv, Next, NEW t \in Task, job[t].at = "fetched", job'[t].at = "resolved"
  PROVE  cache[FileOf(t)] = job[t].entry.source
<1>1. Resolved(t)
  BY OnlyResolved
<1>2. job \in [Task -> JobRecord] /\ CheckedCall(job[t]) /\ Idle.at = "idle"
  BY NoneYet DEF ProvisionInv, CatalogInv, Checked, DiskType
<1>3. VerifySha256(FileOf(t), job[t].entry.sha256) /\ job[t].op = "create"
  BY <1>1, <1>2 DEF Resolved, Done
<1> QED
  BY <1>2, <1>3 DEF CheckedCall, VerifySha256
-----------------------------------------------------------------------------
(* The control channel.                                                    *)

Command == {"stop", "cont", "savevm", "system_powerdown"}

Unanswered == {<<>>, <<"event">>}

Yes == {<<"return">>, <<"event", "return">>}

No == {<<"error">>, <<"event", "error">>}

CallRecord ==
  [op : {"none", "pause", "resume", "snapshot", "stop"}, cmd : Command \cup {"none"},
   at : {"idle", "connect", "greeting", "capabilities", "sent", "ok", "failed"},
   lines : Unanswered \cup Yes \cup No, sent : Nat, did : BOOLEAN, live : BOOLEAN, resumes : BOOLEAN]

PendingRecord == [cmd : Command, by : Caller \cup {Nobody}]

\* Types of VmmControl's variables.
ControlType ==
  /\ kind \in {"qemu", "firecracker", "ch"} /\ solo \in BOOLEAN
  /\ rec \in {"Running", "Paused", "Stopped"}
  /\ vmm \in {"starting", "up", "dead"}
  /\ guest \in {"running", "paused"}
  /\ serving \in Caller \cup {Nobody}
  /\ pending \in Seq(PendingRecord)
  /\ call \in [Caller -> CallRecord]
  /\ strayed \in BOOLEAN /\ slips \in Nat

\* What an exchange knows of its command: sent once if at all, and an answer
\* says whether it was carried out, but for a savevm of QEMU.
Sound(k) ==
  /\ k.at = "idle" => k = Rest
  /\ k.at # "idle" => k.op # "none" /\ k.cmd # "none"
  /\ k.at \in {"connect", "greeting", "capabilities"} => k.sent = 0 /\ k.lines = <<>> /\ ~k.did
  /\ k.sent \in {0, 1}
  /\ (k.lines \in Yes \/ k.at = "ok") /\ ~(kind = "qemu" /\ k.cmd = "savevm") => k.did
  /\ k.lines \in No => ~k.did
  /\ k.at = "failed" /\ k.did => strayed

\* A command in the VMM whose caller still waits has not been answered.
Waits(p) ==
  LET k == call[p.by]
  IN  p.by \in Caller => k.at = "sent" /\ k.cmd = p.cmd /\ k.lines \in Unanswered /\ ~k.did

PendingInv ==
  /\ vmm # "up" => pending = <<>>
  /\ \A i \in 1 .. Len(pending) : Waits(pending[i])
  /\ \A i, j \in 1 .. Len(pending) : pending[i].by \in Caller /\ pending[i].by = pending[j].by => i = j

\* Requests that come one after the other.
Alone == solo => \A c, d \in Caller : ~At(c, "idle") /\ ~At(d, "idle") => c = d

\* What a call to a live QEMU meets while nothing goes wrong.
Early(k) ==
  k.live => /\ k.at # "failed" /\ k.lines \notin No
            /\ vmm # "dead" /\ (k.at = "sent" => vmm = "up")

EarlyInv == kind = "qemu" /\ solo /\ slips = 0 => \A c \in Caller : Early(call[c])

Agree == rec = "Paused" <=> guest = "paused"

\* What the record and the guest are at every stage of a request.
Stage(k) ==
  CASE k.op = "pause"  -> k.cmd = "stop" /\ IF k.did THEN guest = "paused" ELSE Agree
    [] k.op = "resume" -> k.cmd = "cont" /\ IF k.did THEN guest = "running" ELSE Agree
    [] k.op = "stop"   -> k.cmd = "system_powerdown" /\ Agree
    [] OTHER ->
         \/ /\ k.cmd = "stop" /\ k.resumes
            /\ IF k.did THEN guest = "paused" /\ rec = "Running"
                        ELSE Agree /\ (kind # "ch" => rec = "Running")
         \/ k.cmd = "savevm" /\ guest = "paused" /\ rec = IF k.resumes THEN "Running" ELSE "Paused"
         \/ k.cmd = "cont" /\ rec = "Running" /\ (k.did => guest = "running")

\* Nobody has given up on a command that is in the VMM.
AllAwaited == \A i \in 1 .. Len(pending) : pending[i].by \in Caller

StageInv ==
  /\ vmm # "dead" => rec # "Stopped"
  /\ solo /\ ~strayed /\ vmm # "dead" =>
       /\ AllAwaited
       /\ (\A c \in Caller : At(c, "idle")) => Agree
       /\ \A c \in Caller : ~At(c, "idle") => Stage(call[c])

ControlInv ==
  /\ ControlType /\ (\A c \in Caller : Sound(call[c])) /\ PendingInv
  /\ Alone /\ EarlyInv /\ StageInv
\* A step of one caller, or of the VMM for one caller.
Only(c) == \A d \in Caller \ {c} : call'[d] = call[d]

\* The step leaves the request of c, and what its command did, as they are.
SameRequest(c) ==
  /\ call'[c].op = call[c].op /\ call'[c].cmd = call[c].cmd /\ call'[c].did = call[c].did
  /\ call'[c].live = call[c].live /\ call'[c].resumes = call[c].resumes

\* Requests that come one after the other find everybody else at rest.
LEMMA Others ==
  ASSUME ControlInv, NEW c \in Caller, ~At(c, "idle"), solo
  PROVE  \A d \in Caller \ {c} : At(d, "idle")
  BY DEF ControlInv, Alone

LEMMA OneCaller ==
  ASSUME ControlInv, ControlType', NEW c \in Caller, UNCHANGED <<kind, solo>>, Only(c),
         solo => \A d \in Caller \ {c} : At(d, "idle"),
         strayed => strayed',
         Sound(call[c])', PendingInv',
         kind = "qemu" /\ solo /\ slips' = 0 => Early(call[c])',
         vmm' # "dead" => rec' # "Stopped",
         solo /\ ~strayed' /\ vmm' # "dead" =>
           /\ AllAwaited'
           /\ call'[c].at = "idle" => Agree'
           /\ call'[c].at # "idle" => Stage(call[c])'
  PROVE  ControlInv'
<1>1. ASSUME NEW d \in Caller PROVE Sound(call[d])'
  <2>1. CASE d # c
    <3>1. Sound(call[d]) /\ call'[d] = call[d]
      BY <2>1 DEF ControlInv, Only
    <3> QED
      BY <3>1 DEF Sound
  <2> QED
    BY <2>1
<1>2. solo => \A d \in Caller \ {c} : call'[d] = Rest
  BY DEF Only, ControlInv, Sound, At
<1>3. Rest.at = "idle" /\ ~Rest.live
  BY DEF Rest
<1>4. Alone'
  BY <1>2, <1>3 DEF Alone, At
<1>5. EarlyInv'
  BY <1>2, <1>3 DEF EarlyInv, Early
<1>6. StageInv'
  BY <1>2, <1>3 DEF StageInv, At
<1> QED
  BY <1>1, <1>4, <1>5, <1>6 DEF ControlInv

\* The commands in the VMM when a caller that waits for none goes on.
LEMMA Unasked ==
  ASSUME ControlInv, NEW c \in Caller, Only(c), ~At(c, "sent"), UNCHANGED <<vmm, pending>>
  PROVE  PendingInv'
  BY DEF ControlInv, PendingInv, Only, Waits, At

\* ... when a caller hangs up,
LEMMA HungUp ==
  ASSUME ControlInv, NEW c \in Caller, Only(c), HangUp(c), UNCHANGED vmm
  PROVE  /\ PendingInv' /\ pending' \in Seq(PendingRecord) /\ serving' \in Caller \cup {Nobody}
         /\ AllAwaited /\ (call[c].at # "sent" \/ call[c].lines \notin Unanswered) => AllAwaited'
<1> DEFINE P(i) == IF pending[i].by = c THEN [pending[i] EXCEPT !.by = Nobody] ELSE pending[i]
<1>a. /\ pending \in Seq(PendingRecord) /\ serving \in Caller \cup {Nobody} /\ PendingInv
      /\ Nobody \notin Caller
  BY ControlAssumption DEF ControlInv, ControlType
<1>1. ASSUME NEW i \in 1 .. Len(pending)
      PROVE  /\ P(i) \in PendingRecord
             /\ pending[i].by = c => P(i).by = Nobody
             /\ pending[i].by # c => P(i) = pending[i]
  <2> DEFINE p == pending[i]
  <2>1. p \in PendingRecord
    BY <1>a
  <2> HIDE DEF p
  <2>2. [p EXCEPT !.by = Nobody] \in PendingRecord /\ [p EXCEPT !.by = Nobody].by = Nobody
    BY <2>1 DEF PendingRecord
  <2> QED
    BY <2>1, <2>2 DEF p
<1>2. pending' = [i \in 1 .. Len(pending) |-> P(i)] /\ serving' \in Caller \cup {Nobody}
  BY <1>a DEF HangUp
<1> HIDE DEF P
<1>3. pending' \in Seq(PendingRecord) /\ Len(pending') = Len(pending) /\ \A i \in 1 .. Len(pending) : pending'[i] = P(i)
  BY <1>a, <1>1, <1>2
<1>4. vmm' # "up" => pending' = <<>>
  BY <1>a, <1>3 DEF PendingInv
<1>5. ASSUME NEW i \in 1 .. Len(pending) PROVE Waits(pending[i])'
  BY <1>a, <1>1, <1>3 DEF PendingInv, Waits, Only, PendingRecord
<1>6. \A i, j \in 1 .. Len(pending') : pending'[i].by \in Caller /\ pending'[i].by = pending'[j].by => i = j
  BY <1>a, <1>1, <1>3 DEF PendingInv
<1>7. AllAwaited /\ (call[c].at # "sent" \/ call[c].lines \notin Unanswered) => AllAwaited'
  BY <1>a, <1>1, <1>3 DEF AllAwaited, PendingInv, Waits
<1> QED
  BY <1>2, <1>3, <1>4, <1>5, <1>6, <1>7 DEF PendingInv

\* ... when a command arrives, with or without a caller that waits for it,
LEMMA Reached ==
  ASSUME ControlInv, NEW c \in Caller, Only(c), NEW by \in {c, Nobody}, Reaches(c, by), UNCHANGED vmm,
         call[c].at \notin {"idle", "sent"}, vmm = "up",
         by = c => /\ call'[c].at = "sent" /\ call'[c].cmd = call[c].cmd /\ call'[c].lines = <<>>
                   /\ ~call'[c].did
  PROVE  /\ PendingInv' /\ pending' \in Seq(PendingRecord)
         /\ AllAwaited /\ by = c => AllAwaited'
<1> DEFINE p == [cmd |-> call[c].cmd, by |-> by]
<1>a. /\ pending \in Seq(PendingRecord) /\ PendingInv /\ Nobody \notin Caller
      /\ call[c] \in CallRecord /\ Sound(call[c])
  BY ControlAssumption DEF ControlInv, ControlType
<1>1. p \in PendingRecord /\ p.by = by /\ p.cmd = call[c].cmd
  BY <1>a DEF PendingRecord, CallRecord, Sound
<1>2. pending' = Append(pending, p)
  BY DEF Reaches
<1> HIDE DEF p
<1>3. /\ pending' \in Seq(PendingRecord) /\ Len(pending') = Len(pending) + 1
      /\ pending'[Len(pending) + 1] = p
      /\ \A i \in 1 .. Len(pending) : pending'[i] = pending[i] /\ pending[i].by # c
  BY <1>a, <1>1, <1>2 DEF PendingInv, Waits
<1>4. ASSUME NEW i \in 1 .. Len(pending') PROVE Waits(pending[i])'
  <2>1. CASE i = Len(pending) + 1
    BY <1>a, <1>1, <1>3, <2>1 DEF Waits, Unanswered
  <2>2. CASE i \in 1 .. Len(pending)
    BY <1>a, <1>3, <2>2 DEF PendingInv, Waits, Only
  <2> QED
    BY <1>a, <1>3, <2>1, <2>2
<1>5. \A i, j \in 1 .. Len(pending') : pending'[i].by \in Caller /\ pending'[i].by = pending'[j].by => i = j
  BY <1>a, <1>1, <1>3 DEF PendingInv
<1>6. AllAwaited /\ by = c => AllAwaited'
  BY <1>a, <1>1, <1>3 DEF AllAwaited
<1> QED
  BY <1>3, <1>4, <1>5, <1>6 DEF PendingInv
\* A caller at rest.
LEMMA AtRest == Rest \in CallRecord /\ Rest.at = "idle" /\ Sound(Rest) /\ ~Rest.live
<1>1. <<>> \in Unanswered /\ <<>> \notin Yes /\ <<>> \notin No
  BY DEF Unanswered, Yes, No
<1> QED
  BY <1>1 DEF Rest, CallRecord, Sound

\* The next step of an exchange.
LEMMA OutcomeEdit ==
  ASSUME call \in [Caller -> CallRecord], NEW c \in Caller,
         NEW a \in {"connect", "greeting", "capabilities", "ok", "failed"}, Outcome(c, a)
  PROVE  /\ call' \in [Caller -> CallRecord] /\ Only(c) /\ SameRequest(c)
         /\ call'[c].at = a /\ call'[c].lines = call[c].lines /\ call'[c].sent = call[c].sent
<1> DEFINE k == [call[c] EXCEPT !.at = a]
<1>1. call[c] \in CallRecord
  OBVIOUS
<1>2. /\ k \in CallRecord /\ k.at = a /\ k.lines = call[c].lines /\ k.sent = call[c].sent
      /\ k.op = call[c].op /\ k.cmd = call[c].cmd /\ k.did = call[c].did
      /\ k.live = call[c].live /\ k.resumes = call[c].resumes
  BY <1>1 DEF CallRecord
<1>3. call' = [call EXCEPT ![c] = k]
  BY DEF Outcome
<1> HIDE DEF k
<1>4. call'[c] = k
  BY <1>3
<1> QED
  BY <1>2, <1>3, <1>4 DEF Only, SameRequest

\* The stage of a request depends on nothing else.
LEMMA SameStage ==
  ASSUME NEW c \in Caller, SameRequest(c), UNCHANGED <<kind, rec, guest>>, Stage(call[c])
  PROVE  Stage(call[c])'
  BY DEF SameRequest, Stage, Agree

\* An exchange goes on, or ends: "ok" only after a return; a failure after the
\* command did its work strays.
LEMMA OutcomeStep ==
  ASSUME ControlInv, NEW c \in Caller, NEW a \in {"connect", "greeting", "capabilities", "ok", "failed"},
         Outcome(c, a), ~At(c, "idle"), UNCHANGED <<kind, solo, rec, vmm, guest>>,
         pending' \in Seq(PendingRecord), serving' \in Caller \cup {Nobody}, PendingInv',
         strayed' \in BOOLEAN, slips' \in Nat, strayed => strayed', slips' = 0 => slips = 0,
         a \notin {"ok", "failed"} => call[c].at \in {"connect", "greeting", "capabilities"},
         a = "ok" => call[c].lines \in Yes,
         a = "failed" /\ call[c].did => strayed',
         a = "failed" /\ kind = "qemu" /\ solo /\ slips' = 0 => ~call[c].live,
         ~strayed' /\ AllAwaited => AllAwaited'
  PROVE  ControlInv'
<1>a. ControlType /\ Sound(call[c]) /\ EarlyInv /\ StageInv
  BY DEF ControlInv
<1>b. /\ call' \in [Caller -> CallRecord] /\ Only(c) /\ SameRequest(c)
      /\ call'[c].at = a /\ call'[c].lines = call[c].lines /\ call'[c].sent = call[c].sent
  BY <1>a, OutcomeEdit DEF ControlType
<1>1. ControlType'
  BY <1>a, <1>b DEF ControlType
<1>2. Sound(call[c])'
  BY <1>a, <1>b DEF Sound, SameRequest, At
<1>3. kind = "qemu" /\ solo /\ slips' = 0 => Early(call[c])'
  BY <1>a, <1>b DEF EarlyInv, Early, SameRequest
<1>4. vmm' # "dead" => rec' # "Stopped"
  BY <1>a DEF StageInv
<1>5. ASSUME solo, ~strayed', vmm' # "dead"
      PROVE  AllAwaited' /\ Stage(call[c])'
  <2>1. AllAwaited /\ Stage(call[c])
    BY <1>a, <1>5 DEF StageInv
  <2> QED
    BY <1>b, <1>5, <2>1, SameStage
<1>6. solo => \A d \in Caller \ {c} : At(d, "idle")
  BY Others
<1> QED
  BY <1>1, <1>2, <1>3, <1>4, <1>5, <1>6, <1>b, OneCaller

\* The handshake, and what ends an exchange.
LEMMA ExchangeStep ==
  ASSUME ControlInv, NEW c \in Caller,
         \/ QmpConnect(c) \/ QmpGreeting(c) \/ QmpReset(c) \/ ApiRefused(c) \/ Closed(c) \/ TimesOut(c)
  PROVE  ControlInv'
<1>a. /\ ControlType /\ Sound(call[c])
      /\ kind = "qemu" /\ solo /\ slips = 0 => Early(call[c])
  BY DEF ControlInv, EarlyInv
<1>b. call[c].at \in {"connect", "greeting", "capabilities"} => ~call[c].did
  BY <1>a DEF Sound
<1>c. /\ pending \in Seq(PendingRecord) /\ serving \in Caller \cup {Nobody}
      /\ strayed \in BOOLEAN /\ slips \in Nat
  BY <1>a DEF ControlType
<1>d. ASSUME Slip PROVE slips' \in Nat /\ slips' # 0
  BY <1>c, <1>d DEF Slip
<1>1. CASE QmpConnect(c) \/ QmpGreeting(c)
  <2>1. PICK a \in {"greeting", "capabilities"} : Outcome(c, a)
    BY <1>1 DEF QmpConnect, QmpGreeting
  <2>2. /\ call[c].at \in {"connect", "greeting"} /\ UNCHANGED <<kind, solo, rec, vmm, guest, pending, strayed, slips>>
        /\ serving' \in Caller \cup {Nobody}
    BY <1>1, <1>c DEF QmpConnect, QmpGreeting, At, Host
  <2>3. PendingInv'
    <3>1. Only(c)
      BY <1>a, <2>1, OutcomeEdit DEF ControlType
    <3> QED
      BY <2>2, <3>1, Unasked DEF At
  <2>4. AllAwaited => AllAwaited'
    BY <2>2 DEF AllAwaited
  <2> QED
    BY <1>c, <2>1, <2>2, <2>3, <2>4, OutcomeStep DEF At
<1>2. CASE QmpReset(c)
  <2>1. /\ Outcome(c, "connect") /\ HangUp(c) /\ call[c].at \in {"greeting", "capabilities"}
        /\ UNCHANGED <<kind, solo, rec, vmm, guest, strayed, slips>>
    BY <1>2 DEF QmpReset, Host
  <2>2. Only(c)
    BY <1>a, <2>1, OutcomeEdit DEF ControlType
  <2>3. /\ PendingInv' /\ pending' \in Seq(PendingRecord) /\ serving' \in Caller \cup {Nobody}
        /\ AllAwaited => AllAwaited'
    BY <2>1, <2>2, HungUp
  <2> QED
    BY <1>c, <2>1, <2>3, OutcomeStep DEF At
<1>3. CASE ApiRefused(c)
  <2>1. /\ Outcome(c, "failed") /\ kind # "qemu" /\ call[c].at = "connect"
        /\ UNCHANGED <<kind, solo, rec, vmm, guest, serving, pending, strayed, slips>>
    BY <1>3 DEF ApiRefused, Host, At
  <2>2. PendingInv'
    <3>1. Only(c)
      BY <1>a, <2>1, OutcomeEdit DEF ControlType
    <3> QED
      BY <2>1, <3>1, Unasked DEF At
  <2>3. AllAwaited => AllAwaited'
    BY <2>1 DEF AllAwaited
  <2> QED
    BY <1>b, <1>c, <2>1, <2>2, <2>3, OutcomeStep DEF At
<1>4. CASE Closed(c)
  <2>1. /\ Outcome(c, "failed") /\ HangUp(c) /\ call[c].at = "sent" /\ strayed'
        /\ UNCHANGED <<kind, solo, rec, vmm, guest>> /\ (IF vmm = "up" THEN Slip ELSE UNCHANGED slips)
    BY <1>4 DEF Closed, Host, At
  <2>2. Only(c)
    BY <1>a, <2>1, OutcomeEdit DEF ControlType
  <2>3. PendingInv' /\ pending' \in Seq(PendingRecord) /\ serving' \in Caller \cup {Nobody}
    BY <2>1, <2>2, HungUp
  <2>4. /\ slips' \in Nat /\ (slips' = 0 => slips = 0 /\ vmm # "up")
    BY <1>c, <1>d, <2>1
  <2>5. kind = "qemu" /\ solo /\ slips' = 0 => ~call[c].live
    BY <1>a, <2>1, <2>4 DEF Early
  <2>6. strayed' \in BOOLEAN
    BY <1>4 DEF Closed
  <2> QED
    BY <1>c, <2>1, <2>3, <2>4, <2>5, <2>6, OutcomeStep DEF At
<1>5. CASE TimesOut(c)
  <2>1. /\ Outcome(c, "failed") /\ call[c].at \in {"connect", "greeting", "capabilities", "sent"}
        /\ UNCHANGED <<kind, solo, rec, vmm, guest>>
        /\ IF vmm = "dead" THEN UNCHANGED slips ELSE Slip
        /\ strayed' = (strayed \/ call[c].at = "sent" \/ kind = "ch")
    BY <1>5 DEF TimesOut, Host, At
  <2>2. Only(c)
    BY <1>a, <2>1, OutcomeEdit DEF ControlType
  <2>3. /\ PendingInv' /\ pending' \in Seq(PendingRecord) /\ serving' \in Caller \cup {Nobody}
        /\ ~strayed' /\ AllAwaited => AllAwaited'
    <3>1. CASE HangUp(c)
      BY <2>1, <2>2, <3>1, HungUp
    <3>2. CASE /\ kind = "ch" /\ At(c, "connect") /\ vmm = "up" /\ Reaches(c, Nobody)
               /\ UNCHANGED serving
      <4>1. PendingInv' /\ pending' \in Seq(PendingRecord)
        BY <2>1, <2>2, <3>2, Reached, ControlAssumption DEF At
      <4> QED
        BY <1>c, <2>1, <3>2, <4>1
    <3> QED
      BY <1>5, <3>1, <3>2 DEF TimesOut
  <2>4. slips' \in Nat /\ (slips' = 0 => slips = 0 /\ vmm = "dead")
    BY <1>c, <1>d, <2>1
  <2>5. kind = "qemu" /\ solo /\ slips' = 0 => ~call[c].live
    BY <1>a, <2>4 DEF Early
  <2>6. strayed' \in BOOLEAN /\ (strayed => strayed') /\ (call[c].did => strayed')
    BY <1>b, <1>c, <2>1
  <2> QED
    BY <2>1, <2>3, <2>4, <2>5, <2>6, OutcomeStep DEF At
<1> QED
  BY <1>1, <1>2, <1>3, <1>4, <1>5
\* What the lines of a connection may be.
LEMMA Lines ==
  ASSUME NEW l
  PROVE  /\ l \in Unanswered => l \notin Yes /\ l \notin No /\ l # <<"return">> /\ l # <<"error">>
         /\ l \in Yes => l \notin No
         /\ l \in Unanswered \cup Yes \cup No /\ l # <<>> /\ Head(l) = "event" =>
              \/ l = <<"event">> /\ Tail(l) = <<>>
              \/ l = <<"event", "return">> /\ Tail(l) = <<"return">>
              \/ l = <<"event", "error">> /\ Tail(l) = <<"error">>
         /\ l \in Unanswered \cup Yes \cup No /\ l # <<>> /\ Head(l) # "event" =>
              \/ l = <<"return">> /\ Head(l) = "return"
              \/ l = <<"error">> /\ Head(l) = "error"
<1>1. /\ Head(<<"event">>) = "event" /\ Tail(<<"event">>) = <<>>
      /\ Head(<<"event", "return">>) = "event" /\ Tail(<<"event", "return">>) = <<"return">>
      /\ Head(<<"event", "error">>) = "event" /\ Tail(<<"event", "error">>) = <<"error">>
      /\ Head(<<"return">>) = "return" /\ Head(<<"error">>) = "error"
  OBVIOUS
<1>2. /\ <<>> # <<"event">> /\ <<>> # <<"return">> /\ <<>> # <<"error">>
      /\ <<>> # <<"event", "return">> /\ <<>> # <<"event", "error">>
      /\ <<"event">> # <<"event", "return">> /\ <<"event">> # <<"event", "error">>
      /\ <<"event", "return">> # <<"event", "error">>
  OBVIOUS
<1>3. CASE l = <<>>
  BY <1>2, <1>3 DEF Unanswered, Yes, No
<1>4. CASE l = <<"event">>
  BY <1>1, <1>2, <1>4 DEF Unanswered, Yes, No
<1>5. CASE l = <<"return">>
  BY <1>1, <1>2, <1>5 DEF Unanswered, Yes, No
<1>6. CASE l = <<"error">>
  BY <1>1, <1>2, <1>6 DEF Unanswered, Yes, No
<1>7. CASE l = <<"event", "return">>
  BY <1>1, <1>2, <1>7 DEF Unanswered, Yes, No
<1>8. CASE l = <<"event", "error">>
  BY <1>1, <1>2, <1>8 DEF Unanswered, Yes, No
<1> QED
  BY <1>3, <1>4, <1>5, <1>6, <1>7, <1>8 DEF Unanswered, Yes, No

\* An answer is put after what is there.
LEMMA Answers ==
  ASSUME NEW l \in Unanswered
  PROVE  Append(l, "return") \in Yes /\ Append(l, "error") \in No
<1>1. ASSUME NEW e \in {"return", "error"} PROVE Append(<<>>, e) = <<e>>
  BY <1>1
<1>2. ASSUME NEW e \in {"return", "error"} PROVE Append(<<"event">>, e) = <<"event", e>>
  <2> DEFINE S == {"event", "return", "error"}
             x == Append(<<"event">>, e)
             y == <<"event", e>>
  <2>1. <<"event">> \in Seq(S) /\ e \in S
    OBVIOUS
  <2>2. x \in Seq(S) /\ Len(x) = 2 /\ x[1] = "event" /\ x[2] = e
    BY <2>1
  <2>3. y \in Seq(S) /\ Len(y) = 2 /\ y[1] = "event" /\ y[2] = e
    BY <2>1
  <2>4. \A i \in 1 .. Len(x) : x[i] = y[i]
    BY <2>2, <2>3
  <2> HIDE DEF S, x, y
  <2>5. x = y
    BY <2>2, <2>3, <2>4, SeqEqual
  <2> QED
    BY <2>5 DEF x, y
<1> QED
  BY <1>1, <1>2 DEF Unanswered, Yes, No

\* The command is sent.
LEMMA SendStep ==
  ASSUME ControlInv, NEW c \in Caller, QmpSend(c) \/ ApiSend(c)
  PROVE  ControlInv'
<1> DEFINE k == [call[c] EXCEPT !.at = "sent", !.sent = 1]
<1>a. ControlType /\ Sound(call[c]) /\ EarlyInv /\ StageInv /\ call[c] \in CallRecord
  BY DEF ControlInv, ControlType
<1>b. /\ call[c].at \in {"capabilities", "connect"} /\ vmm = "up" /\ Reaches(c, c)
      /\ UNCHANGED <<kind, solo, rec, vmm, guest, serving, strayed, slips>>
  BY DEF QmpSend, ApiSend, Host, At
<1>c. call[c].sent = 0 /\ call[c].lines = <<>> /\ ~call[c].did
  BY <1>a, <1>b DEF Sound
<1>f. call' = [call EXCEPT ![c] = k]
  <2>1. call' = [call EXCEPT ![c] = [call[c] EXCEPT !.at = "sent", !.sent = call[c].sent + 1]]
    BY DEF QmpSend, ApiSend
  <2> QED
    BY <1>c, <2>1
<1>d. /\ k \in CallRecord /\ k.at = "sent" /\ k.lines = call[c].lines /\ k.sent = 1
      /\ k.op = call[c].op /\ k.cmd = call[c].cmd /\ k.did = call[c].did
      /\ k.live = call[c].live /\ k.resumes = call[c].resumes
  BY <1>a, <1>c DEF CallRecord
<1> HIDE DEF k
<1>e. call'[c] = k /\ Only(c) /\ SameRequest(c) /\ call' \in [Caller -> CallRecord]
  BY <1>a, <1>d, <1>f DEF ControlType, Only, SameRequest
<1>1. PendingInv' /\ pending' \in Seq(PendingRecord) /\ (AllAwaited => AllAwaited')
  BY <1>b, <1>c, <1>d, <1>e, Reached
<1>2. ControlType'
  BY <1>a, <1>b, <1>e, <1>1 DEF ControlType
<1>3. Sound(call[c])'
  <2>1. <<>> \notin Yes /\ <<>> \notin No
    BY DEF Yes, No
  <2> QED
    BY <1>a, <1>b, <1>c, <1>d, <1>e, <2>1 DEF Sound
<1>4. kind = "qemu" /\ solo /\ slips' = 0 => Early(call[c])'
  BY <1>a, <1>b, <1>d, <1>e DEF EarlyInv, Early
<1>5. ASSUME solo, ~strayed', vmm' # "dead"
      PROVE  AllAwaited' /\ Stage(call[c])'
  <2>1. AllAwaited /\ Stage(call[c])
    BY <1>a, <1>b, <1>5 DEF StageInv, At
  <2> QED
    BY <1>1, <1>b, <1>e, <2>1, SameStage
<1>6. solo => \A d \in Caller \ {c} : At(d, "idle")
  BY <1>b, Others DEF At
<1>7. vmm' # "dead" => rec' # "Stopped"
  BY <1>a, <1>b DEF StageInv
<1> QED
  BY <1>1, <1>2, <1>3, <1>4, <1>5, <1>6, <1>7, <1>b, <1>d, <1>e, OneCaller

\* Lines that say no more of the command: an event comes, or has been read.
LEMMA LinesStep ==
  ASSUME ControlInv, NEW c \in Caller, At(c, "sent"), NEW lines \in Unanswered \cup Yes \cup No,
         call' = [call EXCEPT ![c].lines = lines],
         UNCHANGED <<kind, solo, rec, vmm, guest, serving, pending, strayed, slips>>,
         call[c].lines \in Unanswered <=> lines \in Unanswered,
         call[c].lines \in Yes <=> lines \in Yes, call[c].lines \in No <=> lines \in No
  PROVE  ControlInv'
<1> DEFINE k == [call[c] EXCEPT !.lines = lines]
<1>a. /\ ControlType /\ Sound(call[c]) /\ EarlyInv /\ StageInv /\ PendingInv /\ call[c] \in CallRecord
      /\ Nobody \notin Caller
  BY ControlAssumption DEF ControlInv, ControlType
<1>b. call' = [call EXCEPT ![c] = k]
  OBVIOUS
<1>d. /\ k \in CallRecord /\ k.at = call[c].at /\ k.lines = lines /\ k.sent = call[c].sent
      /\ k.op = call[c].op /\ k.cmd = call[c].cmd /\ k.did = call[c].did
      /\ k.live = call[c].live /\ k.resumes = call[c].resumes
  BY <1>a DEF CallRecord
<1> HIDE DEF k
<1>e. call'[c] = k /\ Only(c) /\ SameRequest(c) /\ call' \in [Caller -> CallRecord]
  BY <1>a, <1>b, <1>d DEF ControlType, Only, SameRequest
<1>1. PendingInv'
  <2>1. ASSUME NEW i \in 1 .. Len(pending) PROVE Waits(pending[i])'
    <3>1. Waits(pending[i])
      BY <1>a DEF PendingInv
    <3> QED
      BY <1>d, <1>e, <3>1 DEF Waits, Only
  <2> QED
    BY <1>a, <2>1 DEF PendingInv
<1>2. ControlType'
  BY <1>a, <1>e DEF ControlType
<1>3. Sound(call[c])'
  BY <1>a, <1>d, <1>e DEF Sound, At
<1>4. kind = "qemu" /\ solo /\ slips' = 0 => Early(call[c])'
  BY <1>a, <1>d, <1>e DEF EarlyInv, Early
<1>5. ASSUME solo, ~strayed', vmm' # "dead"
      PROVE  AllAwaited' /\ Stage(call[c])'
  <2>1. AllAwaited /\ Stage(call[c])
    BY <1>a, <1>5 DEF StageInv, At
  <2> QED
    BY <1>e, <2>1, SameStage DEF AllAwaited
<1>6. solo => \A d \in Caller \ {c} : At(d, "idle")
  BY Others DEF At
<1>7. vmm' # "dead" => rec' # "Stopped"
  BY <1>a DEF StageInv
<1> QED
  BY <1>1, <1>2, <1>3, <1>4, <1>5, <1>6, <1>7, <1>d, <1>e, OneCaller DEF At

\* execute_inner reads a line.
LEMMA ReadStep ==
  ASSUME ControlInv, NEW c \in Caller, ReadLine(c)
  PROVE  ControlInv'
<1>a. ControlType /\ Sound(call[c]) /\ EarlyInv
  BY DEF ControlInv
<1>b. /\ call[c].lines \in Unanswered \cup Yes \cup No /\ call[c].lines # <<>>
      /\ At(c, "sent") /\ UNCHANGED <<kind, solo, rec, vmm, guest, strayed, slips>>
  BY <1>a DEF ReadLine, ControlType, CallRecord, Host
<1>1. CASE Head(call[c].lines) = "event"
  <2> DEFINE l == Tail(call[c].lines)
  <2>1. call' = [call EXCEPT ![c].lines = l] /\ UNCHANGED <<serving, pending>>
    BY <1>1 DEF ReadLine
  <2>2. \/ call[c].lines = <<"event">> /\ l = <<>>
        \/ call[c].lines = <<"event", "return">> /\ l = <<"return">>
        \/ call[c].lines = <<"event", "error">> /\ l = <<"error">>
    BY <1>1, <1>b, Lines
  <2> HIDE DEF l
  <2>3. /\ l \in Unanswered \cup Yes \cup No
        /\ call[c].lines \in Unanswered <=> l \in Unanswered
        /\ call[c].lines \in Yes <=> l \in Yes
        /\ call[c].lines \in No <=> l \in No
    <3>1. /\ {<<>>, <<"event">>} \subseteq Unanswered
          /\ {<<"return">>, <<"event", "return">>} \subseteq Yes
          /\ {<<"error">>, <<"event", "error">>} \subseteq No
      BY DEF Unanswered, Yes, No
    <3> QED
      BY <2>2, <3>1, Lines
  <2> QED
    BY <1>b, <2>1, <2>3, LinesStep
<1>2. CASE Head(call[c].lines) # "event"
  <2>1. /\ HangUp(c)
        /\ \/ Outcome(c, "ok") /\ call[c].lines = <<"return">>
           \/ Outcome(c, "failed") /\ call[c].lines = <<"error">>
    <3>1. \/ call[c].lines = <<"return">> /\ Head(call[c].lines) = "return"
          \/ call[c].lines = <<"error">> /\ Head(call[c].lines) = "error"
      BY <1>2, <1>b, Lines
    <3>2. "error" # "return"
      OBVIOUS
    <3>3. HangUp(c) /\ Outcome(c, IF Head(call[c].lines) = "return" THEN "ok" ELSE "failed")
      BY <1>2 DEF ReadLine
    <3>4. CASE Head(call[c].lines) = "return"
      <4>1. call[c].lines = <<"return">>
        BY <3>1, <3>2, <3>4
      <4>2. Outcome(c, "ok")
        BY <3>3, <3>4
      <4> QED
        BY <3>3, <4>1, <4>2
    <3>5. CASE Head(call[c].lines) # "return"
      BY <3>1, <3>3, <3>5
    <3> QED
      BY <3>4, <3>5
  <2>2. Only(c)
    BY <1>a, <2>1, OutcomeEdit DEF ControlType
  <2>3. /\ <<"return">> \in Yes /\ <<"error">> \in No
        /\ <<"return">> \notin Unanswered /\ <<"error">> \notin Unanswered
    BY DEF Yes, No, Unanswered
  <2>4. /\ PendingInv' /\ pending' \in Seq(PendingRecord) /\ serving' \in Caller \cup {Nobody}
        /\ AllAwaited => AllAwaited'
    BY <1>b, <2>1, <2>2, <2>3, HungUp
  <2>5. call[c].lines = <<"error">> => /\ ~call[c].did
                                       /\ kind = "qemu" /\ solo /\ slips = 0 => ~call[c].live
    BY <1>a, <2>3 DEF Sound, EarlyInv, Early
  <2>6. strayed' \in BOOLEAN /\ slips' \in Nat
    BY <1>a, <1>b DEF ControlType
  <2>7. CASE Outcome(c, "ok") /\ call[c].lines = <<"return">>
    BY <1>b, <2>3, <2>4, <2>6, <2>7, OutcomeStep DEF At
  <2>8. CASE Outcome(c, "failed") /\ call[c].lines = <<"error">>
    BY <1>b, <2>3, <2>4, <2>5, <2>6, <2>8, OutcomeStep DEF At
  <2> QED
    BY <2>1, <2>7, <2>8
<1> QED
  BY <1>1, <1>2
\* The VMM takes its next command.
LEMMA Popped ==
  ASSUME ControlInv, vmm = "up", UNCHANGED vmm, pending # <<>>, pending' = Tail(pending),
         \A d \in Caller : d # Head(pending).by => call'[d] = call[d]
  PROVE  /\ PendingInv' /\ pending' \in Seq(PendingRecord)
         /\ AllAwaited => AllAwaited'
<1>a. /\ pending \in Seq(PendingRecord) /\ PendingInv /\ Nobody \notin Caller
  BY ControlAssumption DEF ControlInv, ControlType
<1>1. /\ pending' \in Seq(PendingRecord) /\ Len(pending') = Len(pending) - 1 /\ Len(pending) > 0
      /\ \A i \in 1 .. Len(pending') : pending'[i] = pending[i + 1]
      /\ Head(pending) = pending[1]
  BY <1>a
<1>2. ASSUME NEW i \in 1 .. Len(pending') PROVE Waits(pending[i])'
  <2>1. i + 1 \in 1 .. Len(pending) /\ 1 \in 1 .. Len(pending) /\ i + 1 # 1 /\ pending'[i] = pending[i + 1]
    BY <1>a, <1>1
  <2>2. Waits(pending[i + 1]) /\ (pending[i + 1].by \in Caller => pending[i + 1].by # pending[1].by)
    BY <1>a, <2>1 DEF PendingInv
  <2> QED
    BY <1>1, <2>1, <2>2 DEF Waits
<1>3. \A i, j \in 1 .. Len(pending') : pending'[i].by \in Caller /\ pending'[i].by = pending'[j].by => i = j
  <2> SUFFICES ASSUME NEW i \in 1 .. Len(pending'), NEW j \in 1 .. Len(pending'),
                      pending'[i].by \in Caller, pending'[i].by = pending'[j].by
               PROVE  i = j
    OBVIOUS
  <2>1. /\ i + 1 \in 1 .. Len(pending) /\ j + 1 \in 1 .. Len(pending) /\ i \in Nat /\ j \in Nat
        /\ pending'[i] = pending[i + 1] /\ pending'[j] = pending[j + 1]
    BY <1>a, <1>1
  <2>2. i + 1 = j + 1
    BY <1>a, <2>1 DEF PendingInv
  <2> QED
    BY <2>1, <2>2
<1>4. AllAwaited => AllAwaited'
  BY <1>a, <1>1 DEF AllAwaited
<1> QED
  BY <1>1, <1>2, <1>3, <1>4 DEF PendingInv

\* A command that its caller waits for, carried out or refused.
LEMMA PerformFor ==
  ASSUME ControlInv, Perform, NEW p, p = Head(pending), NEW c \in Caller, p.by = c
  PROVE  ControlInv'
<1>a. /\ ControlType /\ EarlyInv /\ StageInv /\ Nobody \notin Caller
      /\ c \in Caller /\ Sound(call[c]) /\ call[c] \in CallRecord
  BY ControlAssumption DEF ControlInv, ControlType
<1>b. /\ vmm = "up" /\ pending # <<>> /\ pending' = Tail(pending)
      /\ UNCHANGED <<kind, solo, rec, vmm, serving, strayed>>
  BY DEF Perform
<1>c. p \in PendingRecord /\ Waits(p)
  <2>1. pending \in Seq(PendingRecord) /\ PendingInv
    BY DEF ControlInv, ControlType
  <2>2. Len(pending) > 0 /\ p = pending[1] /\ p \in PendingRecord /\ 1 \in 1 .. Len(pending)
    BY <1>b, <2>1
  <2> QED
    BY <2>1, <2>2 DEF PendingInv
<1>d. call[c].at = "sent" /\ call[c].cmd = p.cmd /\ call[c].lines \in Unanswered /\ ~call[c].did
  BY <1>a, <1>c DEF Waits
<1>e. PICK line \in {"return", "error"}, done \in BOOLEAN :
        /\ Tell(c, line, done)
        /\ \/ /\ done /\ line = "return" /\ Accepts(p.cmd) /\ UNCHANGED slips
              /\ guest' = CASE p.cmd = "stop" -> "paused" [] p.cmd = "cont" -> "running" [] OTHER -> guest
           \/ /\ ~done /\ UNCHANGED guest /\ (IF Accepts(p.cmd) THEN Slip ELSE UNCHANGED slips)
              /\ line = IF kind = "qemu" /\ p.cmd = "savevm" THEN "return" ELSE "error"
  BY DEF Perform
<1> DEFINE l == Append(call[c].lines, line)
           k == [call[c] EXCEPT !.lines = l, !.did = done]
<1>f. /\ line = "return" => l \in Yes
      /\ line = "error" => l \in No
      /\ l \in Unanswered \cup Yes \cup No
  BY <1>d, Answers
<1>g. call' = [call EXCEPT ![c] = k]
  BY <1>a, <1>e DEF Tell
<1> HIDE DEF l
<1>h. /\ k \in CallRecord /\ k.at = call[c].at /\ k.lines = l /\ k.sent = call[c].sent
      /\ k.op = call[c].op /\ k.cmd = call[c].cmd /\ k.did = done
      /\ k.live = call[c].live /\ k.resumes = call[c].resumes
  BY <1>a, <1>f DEF CallRecord
<1> HIDE DEF k
<1>i. call'[c] = k /\ Only(c) /\ call' \in [Caller -> CallRecord]
  BY <1>a, <1>g, <1>h DEF ControlType, Only
<1>1. PendingInv' /\ pending' \in Seq(PendingRecord) /\ (AllAwaited => AllAwaited')
  <2>1. \A d \in Caller : d # Head(pending).by => call'[d] = call[d]
    BY <1>i DEF Only
  <2> QED
    BY <1>b, <2>1, Popped
<1>s. slips' \in Nat /\ (slips' = 0 => slips = 0)
  BY <1>a, <1>e DEF ControlType, Slip
<1>j. guest' \in {"running", "paused"}
  BY <1>a, <1>e DEF ControlType
<1>2. ControlType'
  BY <1>a, <1>b, <1>i, <1>1, <1>s, <1>j DEF ControlType
<1>3. Sound(call[c])'
  <2>1. l \in Yes => l \notin No
    BY Lines
  <2> QED
    BY <1>a, <1>b, <1>d, <1>e, <1>f, <1>h, <1>i, <2>1 DEF Sound
<1>4. ASSUME kind = "qemu", solo, slips' = 0 PROVE Early(call[c])'
  <2>1. Accepts(p.cmd)
    BY <1>4 DEF Accepts
  <2>2. line = "return"
    BY <1>e, <1>a, <1>4, <2>1 DEF Slip, ControlType
  <2>3. l \notin No
    BY <1>f, <2>2, Lines
  <2> QED
    BY <1>b, <1>d, <1>h, <1>i, <2>3 DEF Early
<1>5. ASSUME solo, ~strayed', vmm' # "dead"
      PROVE  AllAwaited' /\ Stage(call[c])'
  <2>1. AllAwaited /\ Stage(call[c]) /\ rec # "Stopped" /\ rec \in {"Running", "Paused", "Stopped"}
    BY <1>a, <1>b, <1>d, <1>5 DEF StageInv, At, ControlType
  <2>2. CASE ~done
    <3>1. SameRequest(c) /\ UNCHANGED guest
      BY <1>a, <1>d, <1>e, <1>h, <1>i, <2>2 DEF SameRequest, CallRecord
    <3> QED
      BY <1>1, <1>a, <1>b, <2>1, <3>1, SameStage
  <2>3. CASE done
    <3>1. /\ guest' = CASE p.cmd = "stop" -> "paused" [] p.cmd = "cont" -> "running" [] OTHER -> guest
          /\ Accepts(p.cmd)
      BY <1>e, <2>3
    <3>2. p.cmd \in {"stop", "cont", "savevm", "system_powerdown"}
      BY <1>c DEF PendingRecord, Command
    <3>3. CASE p.cmd = "stop"
      <4>1. guest' = "paused"
        BY <3>1, <3>3
      <4>2. kind = "ch" => guest = "running"
        BY <3>1, <3>3 DEF Accepts
      <4> QED
        BY <1>1, <1>b, <1>d, <1>h, <1>i, <2>1, <2>3, <3>3, <4>1, <4>2 DEF Stage, Agree
    <3>4. CASE p.cmd = "cont"
      <4>1. guest' = "running"
        BY <3>1, <3>4
      <4> QED
        BY <1>1, <1>b, <1>d, <1>h, <1>i, <2>1, <2>3, <3>4, <4>1 DEF Stage, Agree
    <3>5. CASE p.cmd \in {"savevm", "system_powerdown"}
      <4>1. guest' = guest
        BY <3>1, <3>5
      <4> QED
        BY <1>1, <1>b, <1>d, <1>h, <1>i, <2>1, <2>3, <3>5, <4>1 DEF Stage, Agree
    <3> QED
      BY <3>2, <3>3, <3>4, <3>5
  <2> QED
    BY <2>2, <2>3
<1>6. solo => \A d \in Caller \ {c} : At(d, "idle")
  BY <1>a, <1>d, Others DEF At
<1>7. vmm' # "dead" => rec' # "Stopped"
  BY <1>a, <1>b DEF StageInv
<1> QED
  BY <1>1, <1>2, <1>3, <1>4, <1>5, <1>6, <1>7, <1>a, <1>b, <1>d, <1>h, <1>i, OneCaller
\* The VMM, an event and the reaper.
LEMMA VmmStep ==
  ASSUME ControlInv, Perform \/ Event \/ VmmUp \/ VmmDies \/ NoticeDead
  PROVE  ControlInv'
<1>a. /\ ControlType /\ PendingInv /\ Alone /\ EarlyInv /\ StageInv /\ Nobody \notin Caller
      /\ \A c \in Caller : Sound(call[c])
  BY ControlAssumption DEF ControlInv
<1>1. CASE Perform
  <2> DEFINE p == Head(pending)
  <2>1. /\ vmm = "up" /\ pending # <<>> /\ pending' = Tail(pending)
        /\ UNCHANGED <<kind, solo, rec, vmm, serving, strayed>>
    BY <1>1 DEF Perform
  <2>2. /\ p \in PendingRecord /\ 1 \in 1 .. Len(pending) /\ p = pending[1]
    BY <1>a, <2>1 DEF ControlType
  <2>3. CASE p.by \in Caller
    BY <1>1, <2>3, PerformFor
  <2>4. CASE p.by = Nobody
    <3>1. /\ call' = call /\ guest' \in {"running", "paused"} /\ slips' \in Nat /\ (slips' = 0 => slips = 0)
      BY <1>1, <1>a, <2>4 DEF Perform, Tell, ControlType, Slip
    <3>2. PendingInv' /\ pending' \in Seq(PendingRecord)
      BY <2>1, <3>1, Popped
    <3>3. ControlType'
      BY <1>a, <2>1, <3>1, <3>2 DEF ControlType
    <3>4. \A c \in Caller : Sound(call[c])'
      BY <1>a, <2>1, <3>1 DEF Sound
    <3>5. Alone' /\ EarlyInv'
      BY <1>a, <2>1, <3>1 DEF Alone, EarlyInv, Early, At
    <3>6. ~(solo /\ ~strayed)
      BY <1>a, <2>1, <2>2, <2>4 DEF StageInv, AllAwaited
    <3>7. StageInv'
      BY <1>a, <2>1, <3>6 DEF StageInv
    <3> QED
      BY <3>2, <3>3, <3>4, <3>5, <3>7 DEF ControlInv
  <2> QED
    BY <2>2, <2>3, <2>4 DEF PendingRecord
<1>2. CASE Event
  <2>1. /\ serving \in Caller /\ At(serving, "sent") /\ call[serving].lines = <<>>
        /\ call' = [call EXCEPT ![serving].lines = <<"event">>]
        /\ UNCHANGED <<kind, solo, rec, vmm, guest, serving, pending, strayed, slips>>
    BY <1>2, <1>a DEF Event, Host, ControlType
  <2>2. PICK c \in Caller : c = serving
    BY <2>1
  <2>3. <<>> \in Unanswered /\ <<"event">> \in Unanswered
    BY DEF Unanswered
  <2>4. /\ call[c].lines \in Unanswered <=> <<"event">> \in Unanswered
        /\ call[c].lines \in Yes <=> <<"event">> \in Yes
        /\ call[c].lines \in No <=> <<"event">> \in No
    BY <2>1, <2>2, <2>3, Lines
  <2> QED
    BY <2>1, <2>2, <2>3, <2>4, LinesStep
<1>3. CASE VmmUp
  <2>1. vmm = "starting" /\ vmm' = "up" /\ UNCHANGED <<kind, solo, rec, guest, serving, pending, call, strayed, slips>>
    BY <1>3 DEF VmmUp
  <2>2. ControlType'
    BY <1>a, <2>1 DEF ControlType
  <2>3. (\A c \in Caller : Sound(call[c])') /\ Alone' /\ EarlyInv'
    BY <1>a, <2>1 DEF Sound, Alone, EarlyInv, Early, At
  <2>4. PendingInv'
    BY <1>a, <2>1 DEF PendingInv, Waits
  <2>5. StageInv'
    BY <1>a, <2>1 DEF StageInv, AllAwaited, Agree, Stage, At
  <2> QED
    BY <2>2, <2>3, <2>4, <2>5 DEF ControlInv
<1>4. CASE VmmDies
  <2>1. /\ vmm' = "dead" /\ pending' = <<>> /\ slips' = slips + 1
        /\ UNCHANGED <<kind, solo, rec, guest, serving, call, strayed>>
    BY <1>4 DEF VmmDies, Slip
  <2>2. ControlType' /\ slips' # 0
    BY <1>a, <2>1 DEF ControlType
  <2>3. (\A c \in Caller : Sound(call[c])') /\ Alone' /\ EarlyInv'
    BY <1>a, <2>1, <2>2 DEF Sound, Alone, EarlyInv, At
  <2>4. PendingInv' /\ StageInv'
    BY <2>1 DEF PendingInv, StageInv
  <2> QED
    BY <2>2, <2>3, <2>4 DEF ControlInv
<1>5. CASE NoticeDead
  <2>1. vmm = "dead" /\ rec' = "Stopped" /\ UNCHANGED <<kind, solo, vmm, guest, serving, pending, call, strayed, slips>>
    BY <1>5 DEF NoticeDead
  <2>2. ControlType'
    BY <1>a, <2>1 DEF ControlType
  <2>3. (\A c \in Caller : Sound(call[c])') /\ Alone' /\ EarlyInv'
    BY <1>a, <2>1 DEF Sound, Alone, EarlyInv, Early, At
  <2>4. PendingInv' /\ StageInv'
    BY <1>a, <2>1 DEF PendingInv, Waits, StageInv
  <2> QED
    BY <2>2, <2>3, <2>4 DEF ControlInv
<1> QED
  BY <1>1, <1>2, <1>3, <1>4, <1>5

\* A request begins, and a VM is launched again.
LEMMA BeginStep ==
  ASSUME ControlInv, NEW c \in Caller,
         Relaunch(c) \/ \E op \in {"pause", "resume", "snapshot", "stop"} : Request(c, op)
  PROVE  ControlInv'
<1>a. /\ ControlType /\ PendingInv /\ Alone /\ EarlyInv /\ StageInv
      /\ \A d \in Caller : Sound(call[d])
  BY DEF ControlInv
<1>1. CASE Relaunch(c)
  <2>1. /\ vmm = "dead" /\ vmm' = "starting" /\ guest' = "running" /\ rec' = "Running"
        /\ strayed' = (\E d \in Caller : ~At(d, "idle"))
        /\ UNCHANGED <<kind, solo, serving, pending, call, slips>>
        /\ solo => \A d \in Caller : At(d, "idle")
    BY <1>1 DEF Relaunch
  <2>2. ControlType'
    <3>1. strayed' \in BOOLEAN
      BY <2>1
    <3> QED
      BY <1>a, <2>1, <3>1 DEF ControlType
  <2>3. ASSUME NEW d \in Caller PROVE Sound(call[d])'
    BY <1>a, <2>1 DEF Sound, At
  <2>4. solo => \A d \in Caller : call[d] = Rest
    BY <1>a, <2>1 DEF Sound, At
  <2>5. Alone' /\ EarlyInv'
    BY <1>a, <2>1, <2>4, AtRest DEF Alone, EarlyInv, Early, At
  <2>6. pending = <<>> /\ PendingInv'
    BY <1>a, <2>1 DEF PendingInv, Waits
  <2>7. StageInv'
    BY <2>1, <2>6 DEF StageInv, AllAwaited, Agree, At
  <2> QED
    BY <2>2, <2>3, <2>5, <2>6, <2>7 DEF ControlInv
<1>2. ASSUME NEW op \in {"pause", "resume", "snapshot", "stop"}, Request(c, op) PROVE ControlInv'
  <2> DEFINE first == First(op)
             live == rec # "Stopped" /\ vmm # "dead"
             resumes == kind = "ch" \/ rec = "Running"
             k == [Rest EXCEPT !.op = op, !.cmd = first, !.at = "connect", !.live = live, !.resumes = resumes]
  <2>1. /\ call' = [call EXCEPT ![c] = k] /\ At(c, "idle")
        /\ UNCHANGED <<kind, solo, rec, vmm, guest, serving, pending, strayed, slips>>
        /\ solo => \A d \in Caller : At(d, "idle")
        /\ op = "snapshot" => rec # "Stopped"
    BY <1>2 DEF Request, Host
  <2>2. /\ first \in Command /\ live \in BOOLEAN /\ resumes \in BOOLEAN
        /\ op = "pause" => first = "stop"
        /\ op = "resume" => first = "cont"
        /\ op = "stop" => first = "system_powerdown"
        /\ op = "snapshot" => first = IF resumes THEN "stop" ELSE "savevm"
    BY DEF First, Command
  <2>3. live => vmm # "dead"
    OBVIOUS
  <2>r. resumes <=> kind = "ch" \/ rec = "Running"
    OBVIOUS
  <2> HIDE DEF first, live, resumes
  <2>4. /\ k \in CallRecord /\ k.at = "connect" /\ k.lines = <<>> /\ k.sent = 0 /\ k.op = op
        /\ k.cmd = first /\ k.did = FALSE /\ k.live = live /\ k.resumes = resumes
    <3>1. <<>> \in Unanswered
      BY DEF Unanswered
    <3> QED
      BY <2>2, <3>1 DEF CallRecord, Rest
  <2> HIDE DEF k
  <2>5. call'[c] = k /\ Only(c) /\ call' \in [Caller -> CallRecord]
    BY <1>a, <2>1, <2>4 DEF ControlType, Only
  <2>6. PendingInv'
    BY <2>1, <2>5, Unasked DEF At
  <2>7. ControlType'
    BY <1>a, <2>1, <2>5 DEF ControlType
  <2>8. Sound(call[c])'
    <3>1. <<>> \notin Yes /\ <<>> \notin No
      BY DEF Yes, No
    <3>2. "none" \notin Command
      BY DEF Command
    <3> QED
      BY <2>2, <2>4, <2>5, <3>1, <3>2 DEF Sound
  <2>9. Early(call[c])'
    <3>1. <<>> \notin No
      BY DEF No
    <3> QED
      BY <2>1, <2>3, <2>4, <2>5, <3>1 DEF Early
  <2>10. ASSUME solo, ~strayed', vmm' # "dead"
         PROVE  AllAwaited' /\ Stage(call[c])'
    <3>1. AllAwaited /\ Agree /\ rec \in {"Running", "Paused"}
      BY <1>a, <2>1, <2>10 DEF StageInv, ControlType
    <3>2. AllAwaited'
      BY <2>1, <3>1 DEF AllAwaited
    <3>3. Agree' /\ UNCHANGED <<rec, guest, kind>>
      BY <2>1, <3>1 DEF Agree
    <3>4. op = "snapshot" /\ ~resumes => kind # "ch" /\ rec = "Paused" /\ guest = "paused"
      BY <2>r, <3>1 DEF Agree
    <3> QED
      BY <2>2, <2>4, <2>5, <2>r, <3>2, <3>3, <3>4 DEF Stage
  <2>11. vmm' # "dead" => rec' # "Stopped"
    BY <1>a, <2>1 DEF StageInv
  <2> QED
    BY <2>1, <2>4, <2>5, <2>6, <2>7, <2>8, <2>9, <2>10, <2>11, OneCaller
<1> QED
  BY <1>1, <1>2
\* A request is over.
LEMMA OverStep ==
  ASSUME ControlInv, NEW c \in Caller, Over(c), call[c].at \in {"ok", "failed"},
         UNCHANGED <<kind, solo, guest, serving, slips>>,
         strayed' \in BOOLEAN, strayed => strayed',
         rec' \in {"Running", "Paused", "Stopped"}, vmm' \in {"up", "starting", "dead"},
         pending' \in Seq(PendingRecord), PendingInv',
         vmm' # "dead" => /\ UNCHANGED <<vmm, pending>>
                          /\ rec' # "Stopped"
                          /\ solo /\ ~strayed' => Agree'
  PROVE  ControlInv'
<1>a. ControlType /\ StageInv
  BY DEF ControlInv
<1>b. call'[c] = Rest /\ Only(c) /\ call' \in [Caller -> CallRecord]
  BY <1>a, AtRest DEF Over, ControlType, Only
<1>1. ControlType'
  BY <1>a, <1>b DEF ControlType
<1>2. Sound(call[c])'
  <2>1. Sound(Rest)'
    BY AtRest DEF Sound
  <2> QED
    BY <1>b, <2>1 DEF Sound
<1>3. Early(call[c])'
  BY <1>b, AtRest DEF Early
<1>4. solo /\ ~strayed' /\ vmm' # "dead" => AllAwaited'
  BY <1>a DEF StageInv, AllAwaited
<1>5. solo => \A d \in Caller \ {c} : At(d, "idle")
  BY Others DEF At
<1> QED
  BY <1>1, <1>2, <1>3, <1>4, <1>5, <1>b, AtRest, OneCaller

\* A snapshot's next exchange.
LEMMA NextExchange ==
  ASSUME ControlInv, NEW c \in Caller, NEW cmd \in {"savevm", "cont"}, Exchange(c, cmd),
         call[c].at \in {"ok", "failed"},
         UNCHANGED <<kind, solo, rec, vmm, guest, serving, pending, strayed, slips>>,
         call[c].op = "snapshot",
         solo /\ ~strayed /\ vmm # "dead" =>
           IF cmd = "savevm" THEN call[c].resumes /\ guest = "paused" /\ rec = "Running" ELSE rec = "Running"
  PROVE  ControlInv'
<1> DEFINE k == [call[c] EXCEPT !.cmd = cmd, !.at = "connect", !.lines = <<>>, !.sent = 0, !.did = FALSE]
<1>a. ControlType /\ EarlyInv /\ StageInv /\ Sound(call[c]) /\ call[c] \in CallRecord
  BY DEF ControlInv, ControlType
<1>b. <<>> \in Unanswered /\ <<>> \notin Yes /\ <<>> \notin No
  BY DEF Unanswered, Yes, No
<1>c. call' = [call EXCEPT ![c] = k]
  BY DEF Exchange
<1>d. /\ k \in CallRecord /\ k.at = "connect" /\ k.lines = <<>> /\ k.sent = 0
      /\ k.op = call[c].op /\ k.cmd = cmd /\ k.did = FALSE
      /\ k.live = call[c].live /\ k.resumes = call[c].resumes
  BY <1>a, <1>b DEF CallRecord, Command
<1> HIDE DEF k
<1>e. call'[c] = k /\ Only(c) /\ call' \in [Caller -> CallRecord]
  BY <1>a, <1>c, <1>d DEF ControlType, Only
<1>1. PendingInv'
  BY <1>e, Unasked DEF At
<1>2. ControlType'
  BY <1>a, <1>e DEF ControlType
<1>3. Sound(call[c])'
  BY <1>a, <1>b, <1>d, <1>e DEF Sound
<1>4. kind = "qemu" /\ solo /\ slips' = 0 => Early(call[c])'
  BY <1>a, <1>b, <1>d, <1>e DEF EarlyInv, Early
<1>5. ASSUME solo, ~strayed', vmm' # "dead"
      PROVE  AllAwaited' /\ Stage(call[c])'
  <2>1. AllAwaited'
    BY <1>a, <1>5 DEF StageInv, AllAwaited
  <2> QED
    BY <1>5, <1>d, <1>e, <2>1 DEF Stage
<1>6. solo => \A d \in Caller \ {c} : At(d, "idle")
  BY Others DEF At
<1>7. vmm' # "dead" => rec' # "Stopped"
  BY <1>a DEF StageInv
<1> QED
  BY <1>1, <1>2, <1>3, <1>4, <1>5, <1>6, <1>7, <1>d, <1>e, OneCaller

\* What the manager makes of the end of an exchange.
LEMMA ManagerStep ==
  ASSUME ControlInv, NEW c \in Caller, Manager(c)
  PROVE  ControlInv'
<1>a. ControlType /\ StageInv /\ Sound(call[c]) /\ PendingInv
  BY DEF ControlInv
<1>b. call[c].at \in {"ok", "failed"}
  BY DEF Manager, Switched, Quiesced, StateSaved, Resumed, Stopped, Ended
<1>c. /\ strayed \in BOOLEAN /\ rec \in {"Running", "Paused", "Stopped"}
      /\ vmm \in {"up", "starting", "dead"} /\ pending \in Seq(PendingRecord)
  BY <1>a DEF ControlType
<1>d. vmm # "dead" => rec # "Stopped"
  BY <1>a DEF StageInv
<1>e. ASSUME solo, ~strayed, vmm # "dead"
      PROVE  /\ Stage(call[c])
             /\ call[c].at = "ok" /\ call[c].cmd # "savevm" => call[c].did
             /\ call[c].at = "failed" => ~call[c].did
  BY <1>a, <1>b, <1>e DEF StageInv, Sound, At
<1>f. ASSUME Over(c), UNCHANGED <<vmm, pending>> PROVE PendingInv'
  <2>1. Only(c)
    BY <1>a, <1>f DEF Over, Only, ControlType
  <2> QED
    BY <1>b, <1>f, <2>1, Unasked DEF At
<1>1. CASE Switched(c)
  <2>1. PICK op \in {"pause", "resume"} :
          /\ call[c].op = op
          /\ rec' = IF ~At(c, "ok") THEN rec ELSE IF op = "pause" THEN "Paused" ELSE "Running"
    BY <1>1 DEF Switched, Ended
  <2>2. Over(c) /\ UNCHANGED <<kind, solo, vmm, guest, serving, pending, strayed, slips>>
    BY <1>1 DEF Switched
  <2>3. /\ call[c].at = "ok" /\ op = "pause" => rec' = "Paused"
        /\ call[c].at = "ok" /\ op = "resume" => rec' = "Running"
        /\ call[c].at = "failed" => rec' = rec
    <3>1. CASE call[c].at = "failed"
      BY <2>1, <3>1 DEF At
    <3>2. CASE call[c].at = "ok" /\ op = "pause"
      BY <2>1, <3>2 DEF At
    <3>3. CASE call[c].at = "ok" /\ op = "resume"
      BY <2>1, <3>3 DEF At
    <3> QED
      BY <1>b, <3>1, <3>2, <3>3
  <2>4. ASSUME vmm # "dead", solo, ~strayed PROVE Agree'
    <3>1. \/ op = "pause" /\ call[c].cmd = "stop" /\ IF call[c].did THEN guest = "paused" ELSE Agree
          \/ op = "resume" /\ call[c].cmd = "cont" /\ IF call[c].did THEN guest = "running" ELSE Agree
      BY <1>e, <2>1, <2>4 DEF Stage
    <3> QED
      BY <1>b, <1>e, <2>2, <2>3, <2>4, <3>1 DEF Agree
  <2>5. rec' \in {"Running", "Paused", "Stopped"} /\ (vmm # "dead" => rec' # "Stopped")
    BY <1>b, <1>c, <1>d, <2>3
  <2> QED
    BY <1>b, <1>c, <1>f, <2>2, <2>4, <2>5, OverStep
<1>2. CASE Quiesced(c)
  <2>1. /\ call[c].op = "snapshot" /\ call[c].cmd = "stop"
        /\ IF At(c, "ok") THEN Exchange(c, "savevm") ELSE Over(c)
        /\ UNCHANGED <<kind, solo, rec, vmm, guest, serving, pending, strayed, slips>>
    BY <1>2 DEF Quiesced, Ended, Host
  <2>2. ASSUME solo, ~strayed, vmm # "dead"
        PROVE  /\ call[c].resumes
               /\ IF call[c].did THEN guest = "paused" /\ rec = "Running" ELSE Agree
    BY <1>e, <2>1, <2>2 DEF Stage
  <2>3. CASE At(c, "ok")
    BY <1>b, <1>e, <2>1, <2>2, <2>3, NextExchange DEF At
  <2>4. CASE ~At(c, "ok")
    <3>1. solo /\ ~strayed /\ vmm # "dead" => Agree'
      BY <1>b, <1>e, <2>1, <2>2, <2>4 DEF At, Agree
    <3> QED
      BY <1>b, <1>c, <1>d, <1>f, <2>1, <2>4, <3>1, OverStep
  <2> QED
    BY <2>3, <2>4
<1>3. CASE StateSaved(c)
  <2>1. /\ call[c].op = "snapshot" /\ call[c].cmd = "savevm"
        /\ IF call[c].resumes THEN Exchange(c, "cont") ELSE Over(c)
        /\ UNCHANGED <<kind, solo, rec, vmm, guest, serving, pending, strayed, slips>>
    BY <1>3 DEF StateSaved, Ended, Host
  <2>2. ASSUME solo, ~strayed, vmm # "dead"
        PROVE  guest = "paused" /\ rec = IF call[c].resumes THEN "Running" ELSE "Paused"
    BY <1>e, <2>1, <2>2 DEF Stage
  <2>3. CASE call[c].resumes
    BY <1>b, <2>1, <2>2, <2>3, NextExchange
  <2>4. CASE ~call[c].resumes
    <3>1. solo /\ ~strayed /\ vmm # "dead" => Agree'
      BY <2>1, <2>2, <2>4 DEF Agree
    <3> QED
      BY <1>b, <1>c, <1>d, <1>f, <2>1, <2>4, <3>1, OverStep
  <2> QED
    BY <2>3, <2>4
<1>4. CASE Resumed(c)
  <2>1. /\ call[c].op = "snapshot" /\ call[c].cmd = "cont" /\ Over(c)
        /\ strayed' = (strayed \/ ~At(c, "ok"))
        /\ UNCHANGED <<kind, solo, rec, vmm, guest, serving, pending, slips>>
    BY <1>4 DEF Resumed, Ended, Host
  <2>2. ASSUME solo, ~strayed', vmm # "dead" PROVE Agree'
    <3>1. ~strayed /\ call[c].at = "ok"
      BY <2>1, <2>2 DEF At
    <3>2. rec = "Running" /\ (call[c].did => guest = "running") /\ call[c].did
      BY <1>e, <2>1, <2>2, <3>1 DEF Stage
    <3> QED
      BY <2>1, <3>2 DEF Agree
  <2>3. strayed' \in BOOLEAN /\ (strayed => strayed')
    BY <1>c, <2>1
  <2> QED
    BY <1>b, <1>c, <1>d, <1>f, <2>1, <2>2, <2>3, OverStep
<1>5. CASE Stopped(c)
  <2>1. /\ vmm' = "dead" /\ pending' = <<>> /\ rec' = "Stopped" /\ Over(c)
        /\ UNCHANGED <<kind, solo, guest, serving, strayed, slips>>
    BY <1>5 DEF Stopped
  <2>2. PendingInv' /\ pending' \in Seq(PendingRecord)
    BY <2>1 DEF PendingInv
  <2> QED
    BY <1>b, <1>c, <2>1, <2>2, OverStep
<1> QED
  BY <1>1, <1>2, <1>3, <1>4, <1>5 DEF Manager

\* A request goes no further.
LEMMA DropStep ==
  ASSUME ControlInv, NEW c \in Caller, Dropped(c)
  PROVE  ControlInv'
<1>a. ControlType /\ StageInv
  BY DEF ControlInv
<1>b. call'[c] = Rest /\ Only(c) /\ call' \in [Caller -> CallRecord]
  BY <1>a, AtRest DEF Dropped, Over, ControlType, Only
<1>1. strayed' /\ UNCHANGED <<kind, solo, rec, vmm, guest>> /\ slips' \in Nat
  BY <1>a DEF Dropped, Host, Slip, ControlType
<1>2. PendingInv' /\ pending' \in Seq(PendingRecord) /\ serving' \in Caller \cup {Nobody}
  <2>1. CASE HangUp(c)
    BY <1>b, <1>1, <2>1, HungUp
  <2>2. CASE kind = "ch" /\ At(c, "connect") /\ vmm = "up" /\ Reaches(c, Nobody) /\ UNCHANGED serving
    <3>1. PendingInv' /\ pending' \in Seq(PendingRecord)
      BY <1>b, <1>1, <2>2, Reached, ControlAssumption DEF At
    <3> QED
      BY <1>a, <2>2, <3>1 DEF ControlType
  <2> QED
    BY <2>1, <2>2 DEF Dropped
<1>3. ControlType'
  <2>1. strayed' = TRUE
    BY DEF Dropped
  <2>2. strayed' \in BOOLEAN
    BY <2>1
  <2> QED
    BY <1>a, <1>b, <1>1, <1>2, <2>2 DEF ControlType
<1>4. Sound(call[c])'
  <2>1. Sound(Rest)'
    BY <1>1, AtRest DEF Sound
  <2> QED
    BY <1>b, <2>1 DEF Sound
<1>5. Early(call[c])'
  BY <1>b, AtRest DEF Early
<1>6. solo => \A d \in Caller \ {c} : At(d, "idle")
  BY Others DEF At, Dropped
<1>7. vmm' # "dead" => rec' # "Stopped"
  BY <1>a, <1>1 DEF StageInv
<1> QED
  BY <1>1, <1>2, <1>3, <1>4, <1>5, <1>6, <1>7, <1>b, AtRest, OneCaller

\* Every step of callers, VMM and reaper keeps the invariant.
LEMMA ControlStep ==
  ASSUME ControlInv, ControlNext
  PROVE  ControlInv'
  BY VmmStep, ExchangeStep, SendStep, ReadStep, ManagerStep, DropStep, BeginStep DEF ControlNext

\* The channel is as it was when another part moves.
LEMMA ControlStutter ==
  ASSUME ControlInv, UNCHANGED controlVars
  PROVE  ControlInv'
<1>1. UNCHANGED <<kind, solo, rec, vmm, guest, serving, pending, call, strayed, slips>>
  BY DEF controlVars
<1>2. ControlType' /\ \A c \in Caller : Sound(call[c])'
  BY <1>1 DEF ControlInv, ControlType, Sound
<1>3. PendingInv' /\ Alone' /\ EarlyInv'
  BY <1>1 DEF ControlInv, PendingInv, Waits, Alone, EarlyInv, Early, At
<1>4. StageInv'
  BY <1>1 DEF ControlInv, StageInv, AllAwaited, Agree, Stage, At
<1> QED
  BY <1>2, <1>3, <1>4 DEF ControlInv

\* The VM has no VMM at first, and nobody calls.
LEMMA ControlStart == ControlInit => ControlInv
<1> SUFFICES ASSUME ControlInit PROVE ControlInv
  OBVIOUS
<1>1. \A c \in Caller : call[c] = Rest
  BY DEF ControlInit
<1>2. ControlType
  <2>1. <<>> \in Seq(PendingRecord)
    OBVIOUS
  <2> QED
    BY <2>1, AtRest, ControlAssumption DEF ControlInit, ControlType
<1>3. (\A c \in Caller : Sound(call[c])) /\ Alone /\ EarlyInv
  BY <1>1, AtRest DEF Alone, EarlyInv, Early, At
<1>4. PendingInv /\ StageInv
  BY DEF ControlInit, PendingInv, StageInv
<1> QED
  BY <1>2, <1>3, <1>4 DEF ControlInv
-----------------------------------------------------------------------------
(* The machine.                                                            *)

MachineInv == JailInv /\ ProvisionInv /\ ControlInv

\* One part moves, the others stay as they are.
LEMMA MachineStep ==
  ASSUME MachineInv, [MachineNext]_machineVars
  PROVE  MachineInv'
<1>1. CASE Next /\ UNCHANGED <<jailVars, controlVars>>
  BY <1>1, ProvisionStep, JailStutter, ControlStutter DEF MachineInv
<1>2. CASE JailNext /\ UNCHANGED <<vars, controlVars>>
  BY <1>2, ProvisionStutter, JailStep, ControlStutter DEF MachineInv
<1>3. CASE ControlNext /\ UNCHANGED <<vars, jailVars>>
  BY <1>3, ProvisionStutter, JailStutter, ControlStep DEF MachineInv
<1>4. CASE UNCHANGED machineVars
  BY <1>4, ProvisionStutter, JailStutter, ControlStutter DEF MachineInv, machineVars
<1> QED
  BY <1>1, <1>2, <1>3, <1>4 DEF MachineNext

\* The three parts' invariants hold throughout.
THEOREM MachineInvariant == MachineSpec => []MachineInv
<1>1. MachineInit => MachineInv
  BY ProvisionStart, JailStart, ControlStart DEF MachineInit, MachineInv
<1> QED
  BY <1>1, MachineStep, PTL DEF MachineSpec

\* For any number of VMs, entries and requests: every volume and every chroot
\* has an owner that will give it back, and no launch spoils a kernel or a disk
\* that others use (provision, launch_jailed, link_or_copy, delete).
THEOREM HostAlwaysKept == MachineSpec => []HostKept
<1>1. ASSUME MachineInv PROVE HostKept
  <2>1. VolumesOwned /\ SourcesKept /\ (\A v \in JailedVm : OpInv(v)) /\ JailType
    BY <1>1 DEF MachineInv, ProvisionInv, JailInv
  <2>2. JailOwned
    BY <2>1 DEF JailOwned, OpInv, JailType, Launching, Removing
  <2> QED
    BY <2>1, <2>2 DEF HostKept
<1> QED
  BY <1>1, MachineInvariant, PTL

\* Every write of catalog.json changes one entry, but for a rename's two and
\* for what `catalog sign` overwrites, or has overwritten, because it takes no
\* lock (catalog_lock).
THEOREM UpdatesAlwaysKept == MachineSpec => UpdatesKept
<1> DEFINE Kept ==
      \A n, m \in Name :
        n # m /\ catalog'[n] # catalog[n] /\ catalog'[m] # catalog[m] =>
          \/ Renamed(n, m) \/ Renamed(m, n)
          \/ \E t \in Task : job[t].raced /\ job'[t] = Idle
<1>1. ASSUME MachineInv, [MachineNext]_machineVars PROVE [Kept]_catalog
  <2>1. CASE Next
    BY <1>1, <2>1, TwoChanged DEF MachineInv
  <2>2. CASE UNCHANGED catalog
    BY <2>2
  <2> QED
    BY <1>1, <2>1, <2>2 DEF MachineNext, machineVars, vars, catalogVars
<1>2. MachineSpec => [][Kept]_catalog
  BY <1>1, MachineInvariant, PTL DEF MachineSpec
<1> QED
  BY <1>2 DEF UpdatesKept

\* A create goes on with the whole image of the source the operator signed for
\* the name, whatever is in the cache (resolve with trusted_signers).
THEOREM AlwaysResolvedAsVouched == MachineSpec => ResolvedAsVouched
<1> DEFINE Vouched ==
      \A t \in Task :
        job[t].at = "fetched" /\ job'[t].at = "resolved" => cache[FileOf(t)] = job[t].entry.source
<1>1. ASSUME MachineInv, [MachineNext]_machineVars PROVE [Vouched]_job
  <2>1. CASE Next
    BY <1>1, <2>1, TakenAsSigned DEF MachineInv
  <2>2. CASE UNCHANGED job
    BY <2>2
  <2> QED
    BY <1>1, <2>1, <2>2 DEF MachineNext, machineVars, vars, catalogVars
<1>2. MachineSpec => [][Vouched]_job
  BY <1>1, MachineInvariant, PTL DEF MachineSpec
<1> QED
  BY <1>2 DEF ResolvedAsVouched

\* A command reaches the VMM at most once for each call, and a call that
\* succeeds has been carried out (handshake_retrying, execute_inner).
THEOREM AlwaysDoneOnce == MachineSpec => []DoneOnce
<1>1. ASSUME MachineInv PROVE DoneOnce
  <2>1. \A c \in Caller : Sound(call[c])
    BY <1>1 DEF MachineInv, ControlInv
  <2> QED
    BY <2>1 DEF DoneOnce, Sound, At
<1> QED
  BY <1>1, MachineInvariant, PTL

\* While nothing goes wrong a call to a QEMU that was only just spawned does
\* not fail (is_transient_startup_error).
THEOREM EarlyCallsAlwaysSucceed == MachineSpec => []EarlyCallsSucceed
<1>1. ASSUME MachineInv PROVE EarlyCallsSucceed
  <2>1. EarlyInv
    BY <1>1 DEF MachineInv, ControlInv
  <2> QED
    BY <2>1 DEF EarlyCallsSucceed, EarlyInv, Early, At
<1> QED
  BY <1>1, MachineInvariant, PTL

\* Between requests that come one after the other the record says Paused
\* exactly if the guest is (pause, resume, snapshot_save).
THEOREM RecordAlwaysMatches == MachineSpec => []RecordMatchesGuest
<1>1. ASSUME MachineInv PROVE RecordMatchesGuest
  <2>1. StageInv
    BY <1>1 DEF MachineInv, ControlInv
  <2> QED
    BY <2>1 DEF RecordMatchesGuest, StageInv, Agree
<1> QED
  BY <1>1, MachineInvariant, PTL
=============================================================================
