----------------------------- MODULE VmmControl -----------------------------
(***************************************************************************)
(* The control channel of a VMM: pause, resume, snapshot and the graceful  *)
(* half of stop, as exchanges over QMP, Firecracker's API socket or a      *)
(* ch-remote process.  Every exchange connects afresh and is given up at   *)
(* its timeout; a command that has reached the VMM by then is carried out  *)
(* all the same.  QEMU's monitor serves one connection at a time, and      *)
(* while QEMU starts it may drop one that it has accepted.                 *)
(***************************************************************************)
EXTENDS Naturals, Sequences

CONSTANTS
  Caller,   \* requests to the VM manager at a time
  Nobody,   \* in the place of a caller
  Kind,     \* backends to look at: "qemu", "firecracker", "ch"
  MaxSlip   \* bound on timeouts, deaths, refusals, lost connections, dropped requests

ASSUME ControlAssumption ==
  /\ Nobody \notin Caller
  /\ Kind \subseteq {"qemu", "firecracker", "ch"}
  /\ MaxSlip \in Nat

VARIABLES
  kind,      \* the backend of this VM
  solo,      \* whether requests to the VM come one after the other
  rec,       \* the status in the VM's record
  vmm,       \* "starting", "up" or "dead"
  guest,     \* "running" or "paused"
  serving,   \* whose connection QEMU's monitor serves
  pending,   \* commands that have reached the VMM, with who waits for them
  call,      \* call[c]: the request of c and its current exchange
  strayed,   \* a command was given up on that may have been carried out, a snapshot
             \* could not resume the guest, or a request went no further
  slips      \* what has gone wrong so far

controlVars == <<kind, solo, rec, vmm, guest, serving, pending, call, strayed, slips>>

Rest == [op |-> "none", cmd |-> "none", at |-> "idle", lines |-> <<>>, sent |-> 0,
         did |-> FALSE, live |-> FALSE, resumes |-> FALSE]

ControlInit ==
  /\ kind \in Kind
  /\ solo \in BOOLEAN
  /\ rec = "Stopped"
  /\ vmm = "dead"
  /\ guest = "running"
  /\ serving = Nobody
  /\ pending = <<>>
  /\ call = [c \in Caller |-> Rest]
  /\ strayed = FALSE
  /\ slips = 0

Slip == slips < MaxSlip /\ slips' = slips + 1

Host == <<rec, vmm, guest>>

At(c, at) == call[c].at = at

\* The end of an exchange closes its connection.
HangUp(c) ==
  /\ serving' = IF serving = c THEN Nobody ELSE serving
  /\ pending' = [i \in DOMAIN pending |->
                   IF pending[i].by = c THEN [pending[i] EXCEPT !.by = Nobody] ELSE pending[i]]

Outcome(c, at) == call' = [call EXCEPT ![c].at = at]

\* A new exchange of the same request.
Exchange(c, cmd) ==
  call' = [call EXCEPT ![c] = [@ EXCEPT !.cmd = cmd, !.at = "connect", !.lines = <<>>,
                                        !.sent = 0, !.did = FALSE]]

-----------------------------------------------------------------------------
(* qmp.rs: handshake_retrying, try_handshake.                              *)

\* Bug: only the connect is retried.
ResetIsFatal(c) ==
  /\ kind = "qemu" /\ call[c].at \in {"greeting", "capabilities"}
  /\ vmm # "up"
  /\ Outcome(c, "failed") /\ HangUp(c)
  /\ UNCHANGED <<kind, solo, Host, strayed, slips>>

\* A socket that is not there yet, or that nobody listens on, is tried again.
QmpConnect(c) ==
  /\ kind = "qemu" /\ At(c, "connect")
  /\ vmm \in {"starting", "up"}
  /\ Outcome(c, "greeting")
  /\ UNCHANGED <<kind, solo, Host, serving, pending, strayed, slips>>

QmpGreeting(c) ==
  /\ kind = "qemu" /\ At(c, "greeting")
  /\ vmm # "dead" /\ serving = Nobody
  /\ serving' = c
  /\ Outcome(c, "capabilities")
  /\ UNCHANGED <<kind, solo, Host, pending, strayed, slips>>

\* The connection is dropped before the command is sent: once more from the
\* beginning.
QmpReset(c) ==
  /\ kind = "qemu" /\ call[c].at \in {"greeting", "capabilities"}
  /\ vmm # "up"
  /\ Outcome(c, "connect") /\ HangUp(c)
  /\ UNCHANGED <<kind, solo, Host, strayed, slips>>

Reaches(c, by) == pending' = Append(pending, [cmd |-> call[c].cmd, by |-> by])

\* execute_inner sends the command.
QmpSend(c) ==
  /\ kind = "qemu" /\ At(c, "capabilities") /\ vmm = "up"
  /\ call' = [call EXCEPT ![c].at = "sent", ![c].sent = @ + 1]
  /\ Reaches(c, c)
  /\ UNCHANGED <<kind, solo, Host, serving, strayed, slips>>

-----------------------------------------------------------------------------
(* http.rs: request_inner; ch_remote.  Neither tries a second time.        *)

ApiSend(c) ==
  /\ kind # "qemu" /\ At(c, "connect") /\ vmm = "up"
  /\ call' = [call EXCEPT ![c].at = "sent", ![c].sent = @ + 1]
  /\ Reaches(c, c)
  /\ UNCHANGED <<kind, solo, Host, serving, strayed, slips>>

ApiRefused(c) ==
  /\ kind # "qemu" /\ At(c, "connect") /\ vmm # "up"
  /\ Outcome(c, "failed")
  /\ UNCHANGED <<kind, solo, Host, serving, pending, strayed, slips>>

-----------------------------------------------------------------------------
(* The answer.                                                             *)

\* Bug: the first line is taken for the answer.
FirstLine(c) ==
  /\ At(c, "sent") /\ call[c].lines # <<>>
  /\ Outcome(c, IF Head(call[c].lines) = "error" THEN "failed" ELSE "ok") /\ HangUp(c)
  /\ UNCHANGED <<kind, solo, Host, strayed, slips>>

\* execute_inner reads a line and passes over events; HTTP has none.
ReadLine(c) ==
  /\ At(c, "sent") /\ call[c].lines # <<>>
  /\ \/ /\ Head(call[c].lines) = "event"
        /\ call' = [call EXCEPT ![c].lines = Tail(@)]
        /\ UNCHANGED <<serving, pending>>
     \/ /\ Head(call[c].lines) # "event"
        /\ Outcome(c, IF Head(call[c].lines) = "return" THEN "ok" ELSE "failed") /\ HangUp(c)
  /\ UNCHANGED <<kind, solo, Host, strayed, slips>>

\* The connection is closed without an answer.
Closed(c) ==
  /\ At(c, "sent") /\ call[c].lines = <<>>
  /\ IF vmm = "up" THEN Slip ELSE UNCHANGED slips
  /\ Outcome(c, "failed") /\ HangUp(c)
  /\ strayed' = TRUE
  /\ UNCHANGED <<kind, solo, Host>>

\* The timeout.  A ch-remote that has not reached the VMM yet goes on
\* without its caller: nobody kills it.
TimesOut(c) ==
  /\ call[c].at \in {"connect", "greeting", "capabilities", "sent"}
  /\ IF vmm = "dead" THEN UNCHANGED slips ELSE Slip
  /\ Outcome(c, "failed")
  /\ \/ HangUp(c)
     \/ kind = "ch" /\ At(c, "connect") /\ vmm = "up" /\ Reaches(c, Nobody) /\ UNCHANGED serving
  /\ strayed' = (strayed \/ At(c, "sent") \/ kind = "ch")
  /\ UNCHANGED <<kind, solo, Host>>

-----------------------------------------------------------------------------
(* External: the VMM.                                                      *)

\* Cloud Hypervisor refuses what is no transition; the others do nothing.
Accepts(cmd) ==
  kind = "ch" => /\ cmd = "stop" => guest = "running"
                 /\ cmd \in {"cont", "savevm"} => guest = "paused"

Tell(by, line, done) ==
  call' = IF by = Nobody THEN call
          ELSE [call EXCEPT ![by].lines = Append(@, line), ![by].did = done]

Perform ==
  /\ vmm = "up" /\ pending # <<>>
  /\ LET p == Head(pending) IN
     /\ pending' = Tail(pending)
     /\ \/ /\ Accepts(p.cmd)
           /\ guest' = CASE p.cmd = "stop" -> "paused" [] p.cmd = "cont" -> "running" [] OTHER -> guest
           /\ Tell(p.by, "return", TRUE)
           /\ UNCHANGED slips
        \/ /\ IF Accepts(p.cmd) THEN Slip ELSE UNCHANGED slips
           /\ Tell(p.by, IF kind = "qemu" /\ p.cmd = "savevm" THEN "return" ELSE "error", FALSE)
           /\ UNCHANGED guest
  /\ UNCHANGED <<kind, solo, rec, vmm, serving, strayed>>

\* QMP events come between a command and its answer.
Event ==
  /\ kind = "qemu" /\ vmm = "up" /\ serving # Nobody
  /\ At(serving, "sent") /\ call[serving].lines = <<>>
  /\ call' = [call EXCEPT ![serving].lines = <<"event">>]
  /\ UNCHANGED <<kind, solo, Host, serving, pending, strayed, slips>>

VmmUp ==
  /\ vmm = "starting"
  /\ vmm' = "up"
  /\ UNCHANGED <<kind, solo, rec, guest, serving, pending, call, strayed, slips>>

VmmDies ==
  /\ vmm # "dead" /\ Slip
  /\ vmm' = "dead" /\ pending' = <<>>
  /\ UNCHANGED <<kind, solo, rec, guest, serving, call, strayed>>

-----------------------------------------------------------------------------
(* VmManager: pause, resume, create_vm_snapshot, stop, start.              *)

First(op) ==
  CASE op = "pause" -> "stop" [] op = "resume" -> "cont" [] op = "stop" -> "system_powerdown"
    [] op = "snapshot" -> IF kind = "ch" \/ rec = "Running" THEN "stop" ELSE "savevm"

Request(c, op) ==
  /\ At(c, "idle")
  /\ solo => \A d \in Caller : At(d, "idle")
  /\ op = "snapshot" => kind # "firecracker" /\ rec # "Stopped"
  /\ op = "stop" => vmm # "dead"
  /\ call' = [call EXCEPT ![c] = [Rest EXCEPT !.op = op, !.cmd = First(op), !.at = "connect",
                                              !.live = rec # "Stopped" /\ vmm # "dead",
                                              !.resumes = kind = "ch" \/ rec = "Running"]]
  /\ UNCHANGED <<kind, solo, Host, serving, pending, strayed, slips>>

Over(c) == call' = [call EXCEPT ![c] = Rest]

Ended(c, op) == call[c].op = op /\ call[c].at \in {"ok", "failed"}

\* The record is written when the VMM has said yes.
Switched(c) ==
  /\ \E op \in {"pause", "resume"} :
       /\ Ended(c, op)
       /\ rec' = IF ~At(c, "ok") THEN rec ELSE IF op = "pause" THEN "Paused" ELSE "Running"
  /\ Over(c)
  /\ UNCHANGED <<kind, solo, vmm, guest, serving, pending, strayed, slips>>

Quiesced(c) ==
  /\ Ended(c, "snapshot") /\ call[c].cmd = "stop"
  /\ IF At(c, "ok") THEN Exchange(c, "savevm") ELSE Over(c)
  /\ UNCHANGED <<kind, solo, Host, serving, pending, strayed, slips>>

\* Bug: snapshot_save resumes whatever it found.
ResumesAnyway(c) ==
  /\ Ended(c, "snapshot") /\ call[c].cmd = "savevm"
  /\ Exchange(c, "cont")
  /\ UNCHANGED <<kind, solo, Host, serving, pending, strayed, slips>>

\* Whether or not it was saved, a guest that was running is resumed.
StateSaved(c) ==
  /\ Ended(c, "snapshot") /\ call[c].cmd = "savevm"
  /\ IF call[c].resumes THEN Exchange(c, "cont") ELSE Over(c)
  /\ UNCHANGED <<kind, solo, Host, serving, pending, strayed, slips>>

\* The answer to the resume is not looked at.
Resumed(c) ==
  /\ Ended(c, "snapshot") /\ call[c].cmd = "cont"
  /\ strayed' = (strayed \/ ~At(c, "ok"))
  /\ Over(c)
  /\ UNCHANGED <<kind, solo, Host, serving, pending, slips>>

\* stop waits for the guest or kills the VMM.
Stopped(c) ==
  /\ Ended(c, "stop")
  /\ vmm' = "dead" /\ pending' = <<>>
  /\ rec' = "Stopped"
  /\ Over(c)
  /\ UNCHANGED <<kind, solo, guest, serving, strayed, slips>>

\* The handler goes no further: its client has left, or the store does not
\* take the status that the VMM has said yes to.
Dropped(c) ==
  /\ ~ At(c, "idle") /\ Slip
  /\ Over(c)
  /\ \/ HangUp(c)
     \/ kind = "ch" /\ At(c, "connect") /\ vmm = "up" /\ Reaches(c, Nobody) /\ UNCHANGED serving
  /\ strayed' = TRUE
  /\ UNCHANGED <<kind, solo, Host>>

\* stop finds no process, or the reaper does: only the record changes.
NoticeDead ==
  /\ vmm = "dead" /\ rec # "Stopped"
  /\ rec' = "Stopped"
  /\ UNCHANGED <<kind, solo, vmm, guest, serving, pending, call, strayed, slips>>

\* start of a VM without a VMM.
Relaunch(c) ==
  /\ rec # "Running" /\ vmm = "dead" /\ At(c, "idle")
  /\ solo => \A d \in Caller : At(d, "idle")
  /\ vmm' = "starting" /\ guest' = "running" /\ rec' = "Running"
  /\ strayed' = \E d \in Caller : ~At(d, "idle")
  /\ UNCHANGED <<kind, solo, serving, pending, call, slips>>

-----------------------------------------------------------------------------

Manager(c) == Switched(c) \/ Quiesced(c) \/ StateSaved(c) \/ Resumed(c) \/ Stopped(c)

ControlNext ==
  \/ Perform \/ Event \/ VmmUp \/ VmmDies \/ NoticeDead
  \/ \E c \in Caller :
       \/ QmpConnect(c) \/ QmpGreeting(c) \/ QmpReset(c) \/ QmpSend(c)
       \/ ApiSend(c) \/ ApiRefused(c)
       \/ ReadLine(c) \/ Closed(c) \/ TimesOut(c)
       \/ Manager(c) \/ Dropped(c) \/ Relaunch(c)
       \/ \E op \in {"pause", "resume", "snapshot", "stop"} : Request(c, op)

ControlSpec == ControlInit /\ [][ControlNext]_controlVars

-----------------------------------------------------------------------------
(* Properties.                                                             *)

\* A command reaches the VMM at most once for each call, however often the
\* handshake was begun again, and a call that succeeds has been carried out: no
\* event and no other answer is taken for its own (qmp.rs: handshake_retrying,
\* execute_inner).  A savevm of QEMU is excepted: when it fails the answer is a
\* text that nobody reads.
DoneOnce ==
  \A c \in Caller :
    /\ call[c].sent <= 1
    /\ At(c, "ok") /\ ~(kind = "qemu" /\ call[c].cmd = "savevm") => call[c].did

\* Against a QEMU that has only just been spawned a call succeeds like any
\* other: a socket that is not there and connections that are dropped fail
\* nothing (qmp.rs: is_transient_startup_error).
EarlyCallsSucceed ==
  kind = "qemu" /\ solo /\ slips = 0 => \A c \in Caller : call[c].live => ~At(c, "failed")

\* Between requests the record says Paused exactly if the guest is paused,
\* through snapshots of running and of paused guests, refused commands and
\* timeouts in the handshake; only a command that was given up on after it was
\* sent, a snapshot that failed to resume, or a request whose client left or
\* whose status was not stored, may leave them apart (scheduler: pause, resume;
\* qemu and cloud-hypervisor: snapshot_save).
RecordMatchesGuest ==
  solo /\ ~strayed /\ vmm = "up" /\ (\A c \in Caller : At(c, "idle"))
    => (rec = "Paused" <=> guest = "paused")
=============================================================================
