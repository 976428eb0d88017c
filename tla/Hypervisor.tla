----------------------------- MODULE Hypervisor -----------------------------
(***************************************************************************)
(* fluxvm-hypervisor: the process between the VM manager and the engine of *)
(* a FluxVm sandbox.  It serves requests on a socket, one task for each    *)
(* client, and keeps a lifecycle and a guest handle behind a mutex that a  *)
(* request holds from its first engine command to its answer.              *)
(*                                                                         *)
(* The engine is a Firecracker process with an API of its own, or a thread *)
(* of the in-tree KVM engine.  A Firecracker command may fail, and one     *)
(* that runs into the ten seconds' timeout is an error to its caller and   *)
(* is carried out later, ahead of any command that follows it.             *)
(***************************************************************************)
EXTENDS Naturals, FiniteSets

CONSTANTS
  Caller,    \* clients of the API socket
  Engine,    \* engines to start with: "firecracker", "kvm"
  MaxSlip    \* bound on failed commands, late commands and deaths

Nobody == "nobody"

BootTask == "boot task"

ASSUME HypervisorAssumption ==
  /\ Engine \subseteq {"firecracker", "kvm"} /\ MaxSlip \in Nat
  /\ Nobody \notin Caller /\ BootTask \notin Caller

VARIABLES
  engine,      \* fluxvm_engine
  hv,          \* whether the hypervisor process runs
  lifecycle,   \* VmState.lifecycle
  guest,       \* what VmState.guest holds: "none", "running", "paused", "dead"
  late,        \* a command that timed out and is still to be carried out
  ask,         \* ask[c]: the request of client c and how far it is
  holder,      \* who holds the mutex
  snap,        \* the snapshot on disk
  since,       \* whether the guest ran since its memory was last captured
  acked,       \* whether the engine acknowledged the last command it was given
  slips        \* what has gone wrong so far

hvVars == <<engine, hv, lifecycle, guest, late, ask, holder, snap, since, acked, slips>>

NoAsk == [op |-> "none", step |-> "none", ok |-> FALSE]

HvInit ==
  /\ engine \in Engine
  /\ hv = FALSE
  /\ lifecycle = "Created"
  /\ guest = "none"
  /\ late = "none"
  /\ ask = [c \in Caller |-> NoAsk]
  /\ holder = Nobody
  /\ snap = "none"
  /\ since = FALSE
  /\ acked = TRUE
  /\ slips = 0

Slip == slips < MaxSlip /\ slips' = slips + 1

-----------------------------------------------------------------------------
(* guest.rs                                                                *)

\* Bug: fc_request waits for Firecracker without a timeout.
WaitForEver(state, ok) ==
  \/ /\ guest = "none" \/ engine = "kvm"
     /\ ok
     /\ UNCHANGED <<guest, since, late, acked, slips>>
  \/ /\ engine = "firecracker" /\ guest \in {"running", "paused"} /\ late = "none"
     /\ ok
     /\ guest' = state
     /\ since' = (since \/ state = "running")
     /\ acked' = TRUE
     /\ UNCHANGED <<late, slips>>
  \/ /\ engine = "firecracker" /\ guest = "dead"
     /\ ~ok
     /\ UNCHANGED <<guest, since, late, acked, slips>>
  \/ /\ engine = "firecracker" /\ guest \in {"running", "paused"} /\ late = "none"
     /\ ~ok
     /\ Slip
     /\ acked' = FALSE
     /\ late' \in {"none", state}
     /\ UNCHANGED <<guest, since>>

\* GuestHandle::pause and resume, with fc_request.  KVM has nothing to do.
Command(state, ok) ==
  \/ /\ guest = "none" \/ engine = "kvm"
     /\ ok
     /\ UNCHANGED <<guest, since, late, acked, slips>>
  \/ /\ engine = "firecracker" /\ guest \in {"running", "paused"} /\ late = "none"
     /\ ok
     /\ guest' = state
     /\ since' = (since \/ state = "running")
     /\ acked' = TRUE
     /\ UNCHANGED <<late, slips>>
  \/ /\ engine = "firecracker" /\ guest = "dead"        \* connection refused
     /\ ~ok
     /\ UNCHANGED <<guest, since, late, acked, slips>>
  \/ /\ engine = "firecracker" /\ guest \in {"running", "paused"} /\ late = "none"
     /\ ~ok
     /\ Slip
     /\ acked' = FALSE
     /\ late' \in {"none", state}
     /\ UNCHANGED <<guest, since>>
  \/ /\ late # "none"                                    \* behind a late one
     /\ ~ok
     /\ acked' = FALSE
     /\ UNCHANGED <<guest, since, late, slips>>

\* Nobody hears of it: its caller has had an error.
LateCommand ==
  /\ late # "none"
  /\ guest' = IF guest \in {"running", "paused"} THEN late ELSE guest
  /\ since' = (since \/ late = "running")
  /\ late' = "none"
  /\ UNCHANGED <<engine, hv, lifecycle, ask, holder, snap, acked, slips>>

\* The engine process ends, or the KVM thread returns.
EngineDies ==
  /\ guest \in {"running", "paused"}
  /\ Slip
  /\ guest' = "dead"
  /\ late' = "none"
  /\ UNCHANGED <<engine, hv, lifecycle, ask, holder, snap, since, acked>>

\* shutdown_guest: the process is killed, the thread stopped.
Reaped == guest' = "none" /\ late' = "none" /\ acked' = TRUE

\* start, start_kvm: a KVM thread that cannot instantiate its VM just ends.
Started(ok) ==
  \/ /\ ok
     /\ guest' = "running" /\ since' = TRUE /\ acked' = TRUE
     /\ lifecycle' = "Running"
     /\ UNCHANGED slips
  \/ /\ ok /\ engine = "kvm"
     /\ Slip
     /\ guest' = "dead"
     /\ lifecycle' = "Running"
     /\ UNCHANGED <<since, acked>>
  \/ /\ ~ok
     /\ Slip
     /\ UNCHANGED <<guest, since, acked, lifecycle>>

-----------------------------------------------------------------------------
(* control.rs                                                              *)

Bootable == lifecycle \in {"Created", "Stopped"}

\* launch, serve: the socket answers pings, and the boot task has the mutex.
\* Firecracker processes of an earlier run are not looked for.
Serve ==
  /\ hv' = TRUE
  /\ lifecycle' = "Created"
  /\ guest' = "none" /\ late' = "none" /\ acked' = TRUE
  /\ holder' = BootTask
  /\ UNCHANGED <<engine, ask, snap, since, slips>>

\* The initial boot; its failure is a warning.
InitialBoot ==
  /\ hv /\ holder = BootTask
  /\ \E ok \in BOOLEAN : Started(ok)
  /\ holder' = Nobody
  /\ UNCHANGED <<engine, hv, late, ask, snap>>

\* request: connected, or not.
Ask(c, op) ==
  ask' = [ask EXCEPT ![c] = IF hv THEN [op |-> op, step |-> "lock", ok |-> FALSE]
                                  ELSE [op |-> op, step |-> "done", ok |-> FALSE]]

Hears(c) == ask[c].step = "done"

Answer(c, ok) == ask' = [ask EXCEPT ![c].step = "done", ![c].ok = ok]

\* A request gets the mutex.
Alone(c, op) == hv /\ ask[c].op = op /\ ask[c].step = "lock" /\ holder = Nobody

Inside(c, op, step) == hv /\ holder = c /\ ask[c].op = op /\ ask[c].step = step

\* The engine first, then the lifecycle, which may refuse.
PauseGuest(c) ==
  /\ Alone(c, "pause")
  /\ \E ok \in BOOLEAN :
       /\ Command("paused", ok)
       /\ lifecycle' = IF ok /\ lifecycle = "Running" THEN "Paused" ELSE lifecycle
       /\ Answer(c, ok /\ lifecycle = "Running")
  /\ UNCHANGED <<engine, hv, holder, snap>>

\* Bug: a resume does not wait for the mutex.
ResumeUnlocked(c) ==
  /\ hv /\ ask[c].op = "resume" /\ ask[c].step = "lock"
  /\ \E ok \in BOOLEAN :
       /\ Command("running", ok)
       /\ lifecycle' = IF ok /\ lifecycle = "Paused" THEN "Running" ELSE lifecycle
       /\ Answer(c, ok /\ lifecycle = "Paused")
  /\ UNCHANGED <<engine, hv, holder, snap>>

ResumeGuest(c) ==
  /\ Alone(c, "resume")
  /\ \E ok \in BOOLEAN :
       /\ Command("running", ok)
       /\ lifecycle' = IF ok /\ lifecycle = "Paused" THEN "Running" ELSE lifecycle
       /\ Answer(c, ok /\ lifecycle = "Paused")
  /\ UNCHANGED <<engine, hv, holder, snap>>

ShutdownGuest(c) ==
  /\ Alone(c, "shutdown")
  /\ Reaped
  /\ lifecycle' = "Stopped"
  /\ Answer(c, TRUE)
  /\ UNCHANGED <<engine, hv, holder, snap, since, slips>>

\* A Boot request, refused while a guest is there.
BootGuest(c) ==
  /\ Alone(c, "boot")
  /\ \/ Bootable /\ \E ok \in BOOLEAN : Started(ok) /\ Answer(c, ok)
     \/ ~Bootable /\ Answer(c, FALSE) /\ UNCHANGED <<guest, since, acked, lifecycle, slips>>
  /\ UNCHANGED <<engine, hv, late, holder, snap>>

GoOn(c, step) == ask' = [ask EXCEPT ![c].step = step]

\* SnapshotSave: the guest is paused, at best.
SaveQuiesce(c) ==
  /\ Alone(c, "save")
  /\ \E ok \in BOOLEAN : Command("paused", ok)
  /\ holder' = c
  /\ GoOn(c, "memory")
  /\ UNCHANGED <<engine, hv, lifecycle, snap>>

\* save: memory and vmstate, which Firecracker gives of a paused guest only.
\* A spec that is there already now stands beside the new memory.
SaveMemory(c) ==
  /\ Inside(c, "save", "memory")
  /\ \/ /\ engine = "firecracker" /\ guest = "paused" /\ late = "none"
        /\ since' = FALSE
        /\ snap' = IF snap = "none" THEN "none" ELSE "half"
        /\ GoOn(c, "clone")
        /\ UNCHANGED slips
     \/ /\ ~(engine = "firecracker" /\ guest = "paused" /\ late = "none")
        /\ GoOn(c, "failed")
        /\ UNCHANGED <<since, snap, slips>>
     \/ /\ engine = "firecracker" /\ guest = "paused" /\ late = "none"
        /\ Slip
        /\ snap' \in {snap, IF snap = "none" THEN "none" ELSE "half"}
        /\ GoOn(c, "failed")
        /\ UNCHANGED since
  /\ UNCHANGED <<engine, hv, lifecycle, guest, late, holder, acked>>

\* clone_cow of the root disk, then the spec that names all files.
SaveDisk(c) ==
  /\ Inside(c, "save", "clone")
  /\ \/ /\ snap' = IF since THEN "torn" ELSE "whole"
        /\ GoOn(c, "saved")
        /\ UNCHANGED slips
     \/ Slip /\ GoOn(c, "failed") /\ UNCHANGED snap
  /\ UNCHANGED <<engine, hv, lifecycle, guest, late, holder, since, acked>>

\* Bug: a guest that was paused before is resumed as well.
ResumeAlways(c) ==
  /\ hv /\ holder = c /\ ask[c].step \in {"saved", "failed"}
  /\ \E ok \in BOOLEAN : Command("running", ok)
  /\ holder' = Nobody
  /\ Answer(c, ask[c].step = "saved")
  /\ UNCHANGED <<engine, hv, lifecycle, snap>>

\* Back to running, if that is what it was.
SaveResume(c) ==
  /\ hv /\ holder = c /\ ask[c].step \in {"saved", "failed"}
  /\ IF lifecycle = "Running"
       THEN \E ok \in BOOLEAN : Command("running", ok)
       ELSE UNCHANGED <<guest, since, late, acked, slips>>
  /\ holder' = Nobody
  /\ Answer(c, ask[c].step = "saved")
  /\ UNCHANGED <<engine, hv, lifecycle, snap>>

\* SnapshotRestore: the guest goes before the spec is read.
RestoreMeta(c) ==
  /\ Alone(c, "restore")
  /\ Reaped
  /\ IF snap = "none"
       THEN lifecycle' = "Stopped" /\ Answer(c, FALSE) /\ UNCHANGED holder
       ELSE lifecycle' = "Created" /\ GoOn(c, "load") /\ holder' = c
  /\ UNCHANGED <<engine, hv, snap, since, slips>>

\* start_from_snapshot, or else a cold boot from the cloned disk.
RestoreGuest(c) ==
  /\ hv /\ holder = c /\ ask[c].step \in {"load", "cold"}
  /\ \E ok \in BOOLEAN :
       /\ Started(ok)
       /\ IF ~ok /\ ask[c].step = "load"
            THEN GoOn(c, "cold") /\ UNCHANGED holder
            ELSE Answer(c, ok) /\ holder' = Nobody
  /\ UNCHANGED <<engine, hv, late, snap>>

\* terminate_pid, or the process dies by itself: no destructor runs, and a
\* Firecracker child goes on.
Ends ==
  /\ hv' = FALSE
  /\ guest' = IF engine = "kvm" THEN "none" ELSE guest
  /\ late' = late
  /\ holder' = Nobody
  /\ ask' = [c \in Caller |-> IF ask[c].step \in {"none", "done"} THEN ask[c]
                              ELSE [ask[c] EXCEPT !.step = "done", !.ok = FALSE]]

HvDies ==
  /\ hv
  /\ Slip
  /\ Ends
  /\ UNCHANGED <<engine, lifecycle, snap, since, acked>>

\* What the process does for client c.
Dispatch(c) ==
  \/ PauseGuest(c) \/ ResumeGuest(c) \/ ShutdownGuest(c) \/ BootGuest(c)
  \/ SaveQuiesce(c) \/ SaveMemory(c) \/ SaveDisk(c) \/ SaveResume(c)
  \/ RestoreMeta(c) \/ RestoreGuest(c)

HvNext ==
  \/ LateCommand \/ EngineDies \/ InitialBoot \/ HvDies
  \/ \E c \in Caller : Dispatch(c)

-----------------------------------------------------------------------------
(* Properties.                                                             *)

\* A command that fails, or is carried out after its caller gave up on it, can
\* leave the lifecycle and the guest apart, and so can the resume that ends a
\* save.  They are apart until the next command only: whatever failed or came
\* late before, once Firecracker has acknowledged one, and no request is in
\* progress, the lifecycle says Paused exactly if the guest is paused, also
\* when the request of that command was itself answered with an error
\* (control.rs: dispatch; state.rs: pause, resume).
AgreesOnceAcked ==
  engine = "firecracker" /\ hv /\ holder = Nobody /\ acked
    => (guest = "paused" => lifecycle = "Paused") /\ (guest = "running" => lifecycle # "Paused")

\* A snapshot that can be restored never joins a memory image with a root
\* disk that the guest has written to since (control.rs: SnapshotSave holds
\* the mutex from the pause to the resume; snapshot.rs: save).
NeverTorn == snap # "torn"
=============================================================================
