---------------------------- MODULE SandboxProofs ----------------------------
(***************************************************************************)
(* Proofs about a FluxVm sandbox: no snapshot is torn, and the lifecycle   *)
(* agrees with the engine once the engine has acknowledged its last        *)
(* command.  Both rest on what a request knows while it holds the          *)
(* hypervisor's mutex.                                                     *)
(***************************************************************************)
EXTENDS Sandbox, TLAPS

Asked == {"none", "pause", "resume", "save", "boot", "restore", "shutdown"}

AskStep == {"none", "lock", "done", "memory", "clone", "saved", "failed", "load", "cold"}

AskRecord == [op : Asked, step : AskStep, ok : BOOLEAN]

\* Types of the hypervisor's variables.
HvType ==
  /\ engine \in {"firecracker", "kvm"}
  /\ lifecycle \in {"Created", "Running", "Paused", "Stopped"}
  /\ guest \in {"none", "running", "paused", "dead"}
  /\ late \in {"none", "running", "paused"}
  /\ ask \in [Caller -> AskRecord]
  /\ holder \in Caller \cup {Nobody, BootTask}
  /\ since \in BOOLEAN /\ acked \in BOOLEAN
  /\ slips \in Nat

\* There is a guest for an engine command to reach.
Present == guest \in {"running", "paused"}

\* A request of c inside the mutex, at one of the steps.
Holds(c, steps) == holder = c /\ ask[c].step \in steps

\* A guest that is there has a lifecycle to be in; a late command is one of
\* Firecracker's to such a guest, and nothing was acknowledged since.
Engaged ==
  /\ Present => lifecycle \in {"Running", "Paused"}
  /\ late # "none" => engine = "firecracker" /\ Present /\ ~acked

\* Whoever starts a guest has the mutex, and finds none.
Vacant ==
  /\ holder = BootTask => ~Present
  /\ \A c \in Caller : Holds(c, {"load", "cold"}) => ~Present

\* From the capture of the memory to the clone of the disk nothing runs, and
\* nothing is under way that would make the guest run.
Quiesced == \A c \in Caller : Holds(c, {"clone"}) => ~since /\ late = "none"

\* A save has an engine that acknowledged the pause paused until it is resumed,
\* whatever the lifecycle says.
Stilled ==
  \A c \in Caller : Holds(c, {"memory", "clone", "saved", "failed"}) =>
    (engine = "firecracker" /\ acked => guest # "running")

HvInv ==
  /\ HvType /\ Engaged /\ Vacant /\ Quiesced /\ Stilled
  /\ NeverTorn /\ AgreesOnceAcked

\* A step of one request leaves those of the others alone.
LEMMA AskMoves ==
  ASSUME ask \in [Caller -> AskRecord], NEW c \in Caller
  PROVE  /\ \A s \in AskStep : GoOn(c, s) =>
              /\ ask' \in [Caller -> AskRecord] /\ ask'[c].step = s
              /\ \A d \in Caller \ {c} : ask'[d] = ask[d]
         /\ \A ok \in BOOLEAN : Answer(c, ok) =>
              /\ ask' \in [Caller -> AskRecord] /\ ask'[c].step = "done"
              /\ \A d \in Caller \ {c} : ask'[d] = ask[d]
<1>1. ASSUME NEW s \in AskStep, GoOn(c, s)
      PROVE  /\ ask' \in [Caller -> AskRecord] /\ ask'[c].step = s
             /\ \A d \in Caller \ {c} : ask'[d] = ask[d]
  BY <1>1 DEF GoOn, AskRecord
<1>2. ASSUME NEW ok \in BOOLEAN, Answer(c, ok)
      PROVE  /\ ask' \in [Caller -> AskRecord] /\ ask'[c].step = "done"
             /\ \A d \in Caller \ {c} : ask'[d] = ask[d]
  <2>1. ask' = [ask EXCEPT ![c] = [ask[c] EXCEPT !.step = "done", !.ok = ok]]
    BY <1>2 DEF Answer
  <2>2. /\ [ask[c] EXCEPT !.step = "done", !.ok = ok] \in AskRecord
        /\ [ask[c] EXCEPT !.step = "done", !.ok = ok].step = "done"
    BY DEF AskRecord, AskStep
  <2> QED
    BY <2>1, <2>2
<1> QED
  BY <1>1, <1>2

\* What a command does: nothing, or what it says, or it is not acknowledged.
LEMMA CommandOutcome ==
  ASSUME HvType, NEW state \in {"running", "paused"}, NEW ok \in BOOLEAN, Command(state, ok)
  PROVE  /\ slips' \in Nat
         /\ \/ /\ UNCHANGED <<guest, since, late, acked>>
               /\ engine = "kvm" \/ ~Present
            \/ /\ engine = "firecracker" /\ Present /\ late = "none" /\ ok
               /\ guest' = state /\ since' = (since \/ state = "running") /\ acked' = TRUE
               /\ late' = late
            \/ /\ ~ok /\ acked' = FALSE /\ UNCHANGED <<guest, since>>
               /\ \/ late' = late
                  \/ late' = "none"
                  \/ late' = state /\ engine = "firecracker" /\ Present
  BY HypervisorAssumption DEF Command, HvType, Present, Slip

\* What starting a guest does.
LEMMA StartedOutcome ==
  ASSUME HvType, NEW ok \in BOOLEAN, Started(ok)
  PROVE  /\ slips' \in Nat
         /\ \/ ok /\ guest' = "running" /\ lifecycle' = "Running" /\ since' = TRUE /\ acked' = TRUE
            \/ ok /\ engine = "kvm" /\ guest' = "dead" /\ lifecycle' = "Running" /\ UNCHANGED <<since, acked>>
            \/ ~ok /\ UNCHANGED <<guest, since, acked, lifecycle>>
  BY HypervisorAssumption DEF Started, HvType, Slip

\* A step that moves requests only, none of them within the mutex.
LEMMA AskOnly ==
  ASSUME HvInv, NEW c \in Caller,
         ask' \in [Caller -> AskRecord], ask'[c].step \in {"none", "lock", "done"},
         \A d \in Caller \ {c} : ask'[d] = ask[d],
         UNCHANGED <<engine, hv, lifecycle, guest, late, holder, snap, since, acked, slips>>
  PROVE  HvInv'
<1>1. HvType' /\ Engaged' /\ NeverTorn' /\ AgreesOnceAcked'
  BY DEF HvInv, HvType, Engaged, Present, NeverTorn, AgreesOnceAcked
<1>2. \A d \in Caller, steps \in SUBSET (AskStep \ {"none", "lock", "done"}) :
        Holds(d, steps)' => Holds(d, steps)
  BY DEF Holds
<1>3. Vacant'
  BY <1>2 DEF HvInv, Vacant, Present, AskStep
<1>4. Quiesced' /\ Stilled'
  BY <1>2 DEF HvInv, Quiesced, Stilled, AskStep
<1> QED
  BY <1>1, <1>3, <1>4 DEF HvInv

\* No request exists and no guest does before the first start.
LEMMA HvInitInv == HvInit => HvInv
<1> SUFFICES ASSUME HvInit PROVE HvInv
  OBVIOUS
<1>1. NoAsk \in AskRecord /\ NoAsk.step = "none"
  BY DEF NoAsk, AskRecord, Asked, AskStep
<1>2. HvType
  BY <1>1, HypervisorAssumption DEF HvInit, HvType
<1>3. Engaged /\ Vacant /\ NeverTorn /\ AgreesOnceAcked
  BY DEF HvInit, Engaged, Vacant, Present, NeverTorn, AgreesOnceAcked
<1>4. Quiesced /\ Stilled
  BY <1>1 DEF HvInit, Quiesced, Stilled, Holds
<1> QED
  BY <1>2, <1>3, <1>4 DEF HvInv

\* With no request inside the mutex nothing is promised of the requests.
LEMMA Unheld ==
  ASSUME HvType', holder' \notin Caller
  PROVE  Quiesced' /\ Stilled' /\ ((holder' = BootTask => ~Present') => Vacant')
  BY DEF Quiesced, Stilled, Vacant, Holds

\* The process that ends, or is started again, has no request in it.
LEMMA ProcessSteps ==
  ASSUME HvInv, (Ends /\ UNCHANGED <<engine, lifecycle, snap, since, acked>> /\ slips' \in Nat) \/ Serve
  PROVE  HvInv'
<1> USE HypervisorAssumption DEF HvInv
<1>1. CASE Ends /\ UNCHANGED <<engine, lifecycle, snap, since, acked>> /\ slips' \in Nat
  <2>1. ask' \in [Caller -> AskRecord]
    BY <1>1 DEF HvType, Ends, AskRecord, AskStep
  <2>2. HvType'
    BY <1>1, <2>1 DEF HvType, Ends
  <2>3. Engaged' /\ NeverTorn' /\ AgreesOnceAcked' /\ holder' \notin Caller /\ holder' # BootTask
    BY <1>1 DEF HvType, Ends, Engaged, Present, NeverTorn, AgreesOnceAcked, Nobody, BootTask
  <2> QED
    BY <2>2, <2>3, Unheld
<1>2. CASE Serve
  <2>1. HvType' /\ holder' \notin Caller /\ ~Present'
    BY <1>2 DEF HvType, Serve, Present
  <2>2. Engaged' /\ NeverTorn' /\ AgreesOnceAcked'
    BY <1>2 DEF Serve, Engaged, Present, NeverTorn, AgreesOnceAcked
  <2> QED
    BY <2>1, <2>2, Unheld
<1> QED
  BY <1>1, <1>2

\* What the engine does by itself, and the boot task.
LEMMA EngineSteps ==
  ASSUME HvInv, LateCommand \/ EngineDies \/ InitialBoot
  PROVE  HvInv'
<1> USE HypervisorAssumption DEF HvInv
<1>1. CASE LateCommand
  <2>0. late # "none" /\ Present /\ ~acked /\ holder # BootTask
    BY <1>1 DEF LateCommand, Engaged, Vacant
  <2>1. guest' \in {"running", "paused"} /\ guest' = late /\ late' = "none"
    BY <1>1, <2>0 DEF LateCommand, HvType, Present
  <2>2. /\ UNCHANGED <<engine, hv, lifecycle, ask, holder, snap, acked, slips>>
        /\ since' \in BOOLEAN
    BY <1>1 DEF LateCommand
  <2>3. HvType' /\ Engaged' /\ NeverTorn' /\ AgreesOnceAcked'
    BY <2>0, <2>1, <2>2 DEF HvType, Engaged, Present, NeverTorn, AgreesOnceAcked
  <2>4. Vacant'
    BY <2>0, <2>2 DEF Vacant, Holds
  <2>5. Quiesced' /\ Stilled'
    BY <2>0, <2>2 DEF Quiesced, Stilled, Holds
  <2> QED
    BY <2>3, <2>4, <2>5
<1>2. CASE EngineDies
  <2>1. /\ UNCHANGED <<engine, hv, lifecycle, ask, holder, snap, since, acked>>
        /\ guest' = "dead" /\ late' = "none" /\ slips' \in Nat
    BY <1>2 DEF EngineDies, Slip, HvType
  <2>2. HvType' /\ Engaged' /\ NeverTorn' /\ AgreesOnceAcked' /\ Vacant'
    BY <2>1 DEF HvType, Engaged, Present, NeverTorn, AgreesOnceAcked, Vacant
  <2>3. Quiesced' /\ Stilled'
    BY <2>1 DEF Quiesced, Stilled, Holds
  <2> QED
    BY <2>2, <2>3
<1>3. CASE InitialBoot
  <2>0. PICK ok \in BOOLEAN : Started(ok)
    BY <1>3 DEF InitialBoot
  <2>1. ~Present /\ late = "none"
    BY <1>3 DEF InitialBoot, Vacant, Engaged
  <2>2. holder' = Nobody /\ holder' \notin Caller /\ holder' # BootTask /\ UNCHANGED <<engine, hv, late, ask, snap>>
    BY <1>3 DEF InitialBoot, Nobody, BootTask
  <2>3. HvType'
    BY <2>0, <2>2, StartedOutcome DEF HvType
  <2>4. Engaged' /\ NeverTorn' /\ AgreesOnceAcked'
    BY <2>0, <2>1, <2>2, StartedOutcome DEF Engaged, Present, NeverTorn, AgreesOnceAcked
  <2> QED
    BY <2>2, <2>3, <2>4, Unheld
<1> QED
  BY <1>1, <1>2, <1>3

\* Requests that take and leave the mutex in one step.
LEMMA ShortRequests ==
  ASSUME HvInv, NEW c \in Caller,
         PauseGuest(c) \/ ResumeGuest(c) \/ ShutdownGuest(c) \/ BootGuest(c)
  PROVE  HvInv'
<1> USE HypervisorAssumption DEF HvInv
<1>0. /\ hv /\ holder = Nobody /\ holder' = holder /\ holder' \notin Caller /\ holder' # BootTask
      /\ UNCHANGED <<engine, hv, snap>>
  BY DEF PauseGuest, ResumeGuest, ShutdownGuest, BootGuest, Alone, Nobody, BootTask
<1>1. ask' \in [Caller -> AskRecord]
  BY AskMoves DEF HvType, PauseGuest, ResumeGuest, ShutdownGuest, BootGuest
<1>2. CASE PauseGuest(c)
  <2>1. PICK ok \in BOOLEAN :
          /\ Command("paused", ok)
          /\ lifecycle' = IF ok /\ lifecycle = "Running" THEN "Paused" ELSE lifecycle
    BY <1>2 DEF PauseGuest
  <2>2. HvType'
    BY <1>0, <1>1, <2>1, CommandOutcome DEF HvType
  <2>3. Engaged' /\ NeverTorn' /\ AgreesOnceAcked'
    BY <1>0, <2>1, CommandOutcome DEF HvType, Engaged, Present, NeverTorn, AgreesOnceAcked
  <2> QED
    BY <1>0, <2>2, <2>3, Unheld
<1>3. CASE ResumeGuest(c)
  <2>1. PICK ok \in BOOLEAN :
          /\ Command("running", ok)
          /\ lifecycle' = IF ok /\ lifecycle = "Paused" THEN "Running" ELSE lifecycle
    BY <1>3 DEF ResumeGuest
  <2>2. HvType'
    BY <1>0, <1>1, <2>1, CommandOutcome DEF HvType
  <2>3. Engaged' /\ NeverTorn' /\ AgreesOnceAcked'
    BY <1>0, <2>1, CommandOutcome DEF HvType, Engaged, Present, NeverTorn, AgreesOnceAcked
  <2> QED
    BY <1>0, <2>2, <2>3, Unheld
<1>4. CASE ShutdownGuest(c)
  <2>1. HvType'
    BY <1>0, <1>1, <1>4 DEF HvType, ShutdownGuest, Reaped
  <2>2. Engaged' /\ NeverTorn' /\ AgreesOnceAcked'
    BY <1>0, <1>4 DEF ShutdownGuest, Reaped, Engaged, Present, NeverTorn, AgreesOnceAcked
  <2> QED
    BY <1>0, <2>1, <2>2, Unheld
<1>5. CASE BootGuest(c)
  <2>1. CASE UNCHANGED <<guest, since, acked, lifecycle, slips, late>>
    <3>1. HvType' /\ Engaged' /\ NeverTorn' /\ AgreesOnceAcked'
      BY <1>0, <1>1, <2>1 DEF HvType, Engaged, Present, NeverTorn, AgreesOnceAcked
    <3> QED
      BY <1>0, <3>1, Unheld
  <2>2. ASSUME NEW ok \in BOOLEAN, Bootable, Started(ok), UNCHANGED late
        PROVE  HvInv'
    <3>1. ~Present /\ late = "none"
      BY <2>2 DEF Bootable, Engaged
    <3>2. HvType'
      BY <1>0, <1>1, <2>2, StartedOutcome DEF HvType
    <3>3. Engaged' /\ NeverTorn' /\ AgreesOnceAcked'
      BY <1>0, <2>2, <3>1, StartedOutcome DEF Engaged, Present, NeverTorn, AgreesOnceAcked
    <3> QED
      BY <1>0, <3>2, <3>3, Unheld
  <2> QED
    BY <1>5, <2>1, <2>2 DEF BootGuest
<1> QED
  BY <1>2, <1>3, <1>4, <1>5

\* The steps of a save.  The mutex is c's from the pause to the resume.
LEMMA SaveSteps ==
  ASSUME HvInv, NEW c \in Caller,
         SaveQuiesce(c) \/ SaveMemory(c) \/ SaveDisk(c) \/ SaveResume(c)
  PROVE  HvInv'
<1> USE HypervisorAssumption DEF HvInv
<1>1. CASE SaveQuiesce(c)
  <2>1. PICK ok \in BOOLEAN : Command("paused", ok)
    BY <1>1 DEF SaveQuiesce
  <2>2. /\ hv /\ holder = Nobody /\ holder' = c /\ UNCHANGED <<engine, hv, lifecycle, snap>>
        /\ c # BootTask /\ c # Nobody
    BY <1>1 DEF SaveQuiesce, Alone
  <2>3. /\ ask' \in [Caller -> AskRecord] /\ ask'[c].step = "memory"
        /\ \A d \in Caller \ {c} : ask'[d] = ask[d]
    BY <1>1, AskMoves DEF HvType, SaveQuiesce, AskStep
  <2>4. HvType'
    BY <2>1, <2>2, <2>3, CommandOutcome DEF HvType
  <2>5. Engaged' /\ NeverTorn' /\ AgreesOnceAcked'
    BY <2>1, <2>2, CommandOutcome DEF HvType, Engaged, Present, NeverTorn, AgreesOnceAcked
  <2>6. Vacant' /\ Quiesced'
    BY <2>2, <2>3 DEF Vacant, Quiesced, Holds
  <2>7. engine' = "firecracker" /\ acked' => guest' # "running"
    BY <2>1, <2>2, CommandOutcome DEF Present
  <2>8. Stilled'
    BY <2>7 DEF Stilled
  <2> QED
    BY <2>4, <2>5, <2>6, <2>8
<1>2. CASE SaveMemory(c)
  <2>1. PICK s \in {"clone", "failed"} :
          /\ GoOn(c, s) /\ snap' # "torn" /\ slips' \in Nat
          /\ s = "clone" => since' = FALSE /\ late = "none"
          /\ s = "failed" => UNCHANGED since
    BY <1>2 DEF SaveMemory, NeverTorn, HvType, Slip
  <2>2. /\ hv /\ holder = c /\ ask[c].step = "memory" /\ c # BootTask /\ c # Nobody
        /\ UNCHANGED <<engine, hv, lifecycle, guest, late, holder, acked>>
    BY <1>2 DEF SaveMemory, Inside
  <2>3. /\ ask' \in [Caller -> AskRecord] /\ ask'[c].step = s
        /\ \A d \in Caller \ {c} : ask'[d] = ask[d]
    BY <2>1, AskMoves DEF HvType, AskStep
  <2>4. since' \in BOOLEAN
    BY <2>1 DEF HvType
  <2>5. HvType' /\ Engaged' /\ NeverTorn' /\ AgreesOnceAcked'
    BY <2>1, <2>2, <2>3, <2>4 DEF HvType, Engaged, Present, NeverTorn, AgreesOnceAcked
  <2>6. Vacant' /\ Quiesced'
    BY <2>1, <2>2, <2>3 DEF Vacant, Quiesced, Holds
  <2>7. Stilled'
    BY <2>2 DEF Stilled, Holds
  <2> QED
    BY <2>5, <2>6, <2>7
<1>3. CASE SaveDisk(c)
  <2>1. /\ hv /\ holder = c /\ ask[c].step = "clone" /\ c # BootTask /\ c # Nobody
        /\ UNCHANGED <<engine, hv, lifecycle, guest, late, holder, since, acked>>
    BY <1>3 DEF SaveDisk, Inside
  <2>2. ~since
    BY <2>1 DEF Quiesced, Holds
  <2>3. PICK s \in {"saved", "failed"} : GoOn(c, s) /\ snap' # "torn" /\ slips' \in Nat
    BY <1>3, <2>2 DEF SaveDisk, NeverTorn, HvType, Slip
  <2>4. /\ ask' \in [Caller -> AskRecord] /\ ask'[c].step = s
        /\ \A d \in Caller \ {c} : ask'[d] = ask[d]
    BY <2>3, AskMoves DEF HvType, AskStep
  <2>5. HvType' /\ Engaged' /\ NeverTorn' /\ AgreesOnceAcked'
    BY <2>1, <2>3, <2>4 DEF HvType, Engaged, Present, NeverTorn, AgreesOnceAcked
  <2>6. Vacant' /\ Quiesced'
    BY <2>1, <2>3, <2>4 DEF Vacant, Quiesced, Holds
  <2>7. Stilled'
    BY <2>1 DEF Stilled, Holds
  <2> QED
    BY <2>5, <2>6, <2>7
<1>4. CASE SaveResume(c)
  <2>1. /\ hv /\ holder = c /\ ask[c].step \in {"saved", "failed"} /\ UNCHANGED <<engine, hv, lifecycle, snap>>
        /\ holder' = Nobody /\ holder' \notin Caller /\ holder' # BootTask
    BY <1>4 DEF SaveResume, Nobody, BootTask
  <2>2. ask' \in [Caller -> AskRecord]
    BY <1>4, AskMoves DEF HvType, SaveResume
  <2>3. engine = "firecracker" /\ acked => guest # "running"
    BY <2>1 DEF Stilled, Holds
  <2>4. CASE lifecycle = "Running"
    <3>1. PICK ok \in BOOLEAN : Command("running", ok)
      BY <1>4, <2>4 DEF SaveResume
    <3>2. HvType'
      BY <2>1, <2>2, <3>1, CommandOutcome DEF HvType
    <3>3. Engaged' /\ NeverTorn' /\ AgreesOnceAcked'
      BY <2>1, <2>4, <3>1, CommandOutcome DEF HvType, Engaged, Present, NeverTorn, AgreesOnceAcked
    <3> QED
      BY <2>1, <3>2, <3>3, Unheld
  <2>5. CASE lifecycle # "Running"
    <3>1. UNCHANGED <<guest, since, late, acked, slips>>
      BY <1>4, <2>5 DEF SaveResume
    <3>2. HvType'
      BY <2>1, <2>2, <3>1 DEF HvType
    <3>3. Engaged' /\ NeverTorn' /\ AgreesOnceAcked'
      BY <2>1, <2>3, <2>5, <3>1 DEF HvType, Engaged, Present, NeverTorn, AgreesOnceAcked
    <3> QED
      BY <2>1, <3>2, <3>3, Unheld
  <2> QED
    BY <2>4, <2>5
<1> QED
  BY <1>1, <1>2, <1>3, <1>4

\* The steps of a restore: the old guest is gone before a new one starts.
LEMMA RestoreSteps ==
  ASSUME HvInv, NEW c \in Caller, RestoreMeta(c) \/ RestoreGuest(c)
  PROVE  HvInv'
<1> USE HypervisorAssumption DEF HvInv
<1>1. CASE RestoreMeta(c)
  <2>1. /\ hv /\ holder = Nobody /\ guest' = "none" /\ late' = "none" /\ acked' = TRUE
        /\ UNCHANGED <<engine, hv, snap, since, slips>> /\ lifecycle' \in {"Stopped", "Created"}
    BY <1>1 DEF RestoreMeta, Alone, Reaped
  <2>2. PICK s \in {"done", "load"} :
          /\ ask' \in [Caller -> AskRecord] /\ ask'[c].step = s
          /\ \A d \in Caller \ {c} : ask'[d] = ask[d]
          /\ holder' \in {Nobody, c}
    BY <1>1, <2>1, AskMoves DEF HvType, RestoreMeta, AskStep
  <2>3. HvType' /\ Engaged' /\ NeverTorn' /\ AgreesOnceAcked'
    BY <2>1, <2>2 DEF HvType, Engaged, Present, NeverTorn, AgreesOnceAcked
  <2>4. Vacant' /\ Quiesced' /\ Stilled'
    BY <2>1, <2>2 DEF Vacant, Present, Quiesced, Stilled, Holds
  <2> QED
    BY <2>3, <2>4
<1>2. CASE RestoreGuest(c)
  <2>1. /\ hv /\ holder = c /\ ask[c].step \in {"load", "cold"} /\ c # BootTask /\ c # Nobody
        /\ UNCHANGED <<engine, hv, late, snap>>
    BY <1>2 DEF RestoreGuest
  <2>2. ~Present /\ late = "none"
    BY <2>1 DEF Vacant, Holds, Engaged
  <2>3. PICK ok \in BOOLEAN :
          /\ Started(ok)
          /\ IF ~ok /\ ask[c].step = "load"
               THEN GoOn(c, "cold") /\ UNCHANGED holder
               ELSE Answer(c, ok) /\ holder' = Nobody
    BY <1>2 DEF RestoreGuest
  <2>4. PICK s \in {"cold", "done"} :
          /\ ask' \in [Caller -> AskRecord] /\ ask'[c].step = s
          /\ \A d \in Caller \ {c} : ask'[d] = ask[d]
          /\ holder' = (IF s = "cold" THEN c ELSE Nobody)
          /\ s = "cold" => ~ok
    BY <2>1, <2>3, AskMoves DEF HvType, AskStep
  <2>5. HvType'
    BY <2>1, <2>3, <2>4, StartedOutcome DEF HvType
  <2>6. Engaged' /\ NeverTorn' /\ AgreesOnceAcked'
    BY <2>1, <2>2, <2>3, <2>4, StartedOutcome DEF Engaged, Present, NeverTorn, AgreesOnceAcked
  <2>7. CASE s = "cold"
    <3>1. ~Present'
      BY <2>2, <2>3, <2>4, <2>7, StartedOutcome DEF Present
    <3>2. Vacant' /\ Quiesced' /\ Stilled'
      BY <2>1, <2>4, <2>7, <3>1 DEF Vacant, Quiesced, Stilled, Holds
    <3> QED
      BY <2>5, <2>6, <3>2
  <2>8. CASE s = "done"
    <3>1. holder' \notin Caller /\ holder' # BootTask
      BY <2>4, <2>8 DEF Nobody, BootTask
    <3> QED
      BY <2>5, <2>6, <3>1, Unheld
  <2> QED
    BY <2>4, <2>7, <2>8
<1> QED
  BY <1>1, <1>2

\* What the hypervisor does by itself or for a client.
LEMMA HypervisorSteps ==
  ASSUME HvInv, HvNext
  PROVE  HvInv'
<1>1. CASE HvDies
  <2>1. slips' \in Nat
    BY <1>1 DEF HvDies, Slip, HvInv, HvType
  <2> QED
    BY <1>1, <2>1, ProcessSteps DEF HvDies
<1>2. ASSUME NEW c \in Caller, Dispatch(c) PROVE HvInv'
  BY <1>2, ShortRequests, SaveSteps, RestoreSteps DEF Dispatch
<1> QED
  BY <1>1, <1>2, EngineSteps DEF HvNext

\* The invariant reads the hypervisor's variables only.
LEMMA HvStutter ==
  ASSUME HvInv, UNCHANGED hvVars
  PROVE  HvInv'
  BY DEF hvVars, HvInv, HvType, Engaged, Present, Vacant, Quiesced, Stilled, Holds,
         NeverTorn, AgreesOnceAcked

\* What the VM manager does for a request: it asks the hypervisor, hears its
\* answer, ends the process or starts it.
LEMMA ManagerSteps ==
  ASSUME HvInv, NEW c \in Caller, Manager(c)
  PROVE  HvInv'
<1>0. ask \in [Caller -> AskRecord]
  BY DEF HvInv, HvType
<1>1. ASSUME NEW op \in Asked, Calls(c, op) PROVE HvInv'
  <2>1. /\ ask' \in [Caller -> AskRecord] /\ ask'[c].step \in {"lock", "done"}
        /\ \A d \in Caller \ {c} : ask'[d] = ask[d]
    BY <1>0, <1>1 DEF Calls, Ask, AskRecord, AskStep
  <2> QED
    BY <1>1, <2>1, AskOnly DEF Calls
<1>2. ASSUME Hung(c) PROVE HvInv'
  <2>1. NoAsk \in AskRecord /\ NoAsk.step = "none"
    BY DEF NoAsk, AskRecord, Asked, AskStep
  <2>2. /\ ask' \in [Caller -> AskRecord] /\ ask'[c].step = "none"
        /\ \A d \in Caller \ {c} : ask'[d] = ask[d]
    BY <1>0, <1>2, <2>1 DEF Hung
  <2> QED
    BY <1>2, <2>2, AskOnly DEF Hung
<1>3. CASE Wake(c) \/ Tick(c) \/ CallHypervisor(c) \/ StopGuest(c)
  BY <1>1, <1>3, HvStutter DEF Wake, Tick, CallHypervisor, StopGuest, Asked
<1>4. CASE Woken(c) \/ Called(c) \/ StopAsked(c)
  BY <1>2, <1>4 DEF Woken, Called, StopAsked
<1>5. CASE DialGuest(c) \/ EndCall(c) \/ Relay(c)
  BY <1>5, HvStutter DEF DialGuest, EndCall, Relay
<1>6. CASE StopKills(c)
  BY <1>6, HvStutter, ProcessSteps DEF StopKills, HvInv, HvType
<1>7. CASE Launch(c)
  BY <1>7, HvStutter, ProcessSteps DEF Launch
<1> QED
  BY <1>3, <1>4, <1>5, <1>6, <1>7 DEF Manager

\* Every step keeps the invariant.
LEMMA HvStepInv ==
  ASSUME HvInv, [Next]_vars
  PROVE  HvInv'
<1>1. CASE InHypervisor
  BY <1>1, HypervisorSteps DEF InHypervisor
<1>2. CASE TimePasses
  BY <1>2, HvStutter DEF TimePasses
<1>3. ASSUME NEW c \in Caller, NEW op \in serves[c], Begin(c, op) PROVE HvInv'
  BY <1>3, HvStutter DEF Begin
<1>4. ASSUME NEW c \in Caller, InGuest(c) \/ UserLeaves(c) \/ StreamEnds(c) \/ Clear(c) PROVE HvInv'
  BY <1>4, HvStutter DEF InGuest, UserLeaves, StreamEnds, Clear
<1>5. CASE UNCHANGED vars
  BY <1>5, HvStutter DEF vars
<1> QED
  BY <1>1, <1>2, <1>3, <1>4, <1>5, ManagerSteps DEF Next

\* The invariant holds throughout.
LEMMA HvInvHolds == Spec => []HvInv
<1>1. Init => HvInv
  BY HvInitInv DEF Init
<1> QED
  BY <1>1, HvStepInv, PTL DEF Spec

\* A snapshot never joins a memory image with a disk that the guest has
\* written to since, for any mix of requests by any number of clients, with
\* commands that fail or come late and processes that die at any time
\* (control.rs: SnapshotSave; snapshot.rs: save).
THEOREM SnapshotsWhole == Spec => []NeverTorn
<1>1. HvInv => NeverTorn
  BY DEF HvInv
<1> QED
  BY <1>1, HvInvHolds, PTL

\* Commands that failed or were carried out late leave the lifecycle and the
\* guest apart no longer than until the next one Firecracker acknowledges: then,
\* with no request in progress, the lifecycle says Paused exactly if the guest
\* is, also when the request itself was refused (control.rs: dispatch;
\* state.rs: pause, resume).
THEOREM LifecycleAgrees == Spec => []AgreesOnceAcked
<1>1. HvInv => AgreesOnceAcked
  BY DEF HvInv
<1> QED
  BY <1>1, HvInvHolds, PTL
=============================================================================
