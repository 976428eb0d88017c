------------------------------- MODULE Sandbox -------------------------------
(***************************************************************************)
(* One FluxVm sandbox as the VM manager runs it: the API's requests to it, *)
(* AutoPause and wake-on-request, over the hypervisor process (Hypervisor) *)
(* and the agent in the guest (GuestAgent).                                *)
(***************************************************************************)
EXTENDS GuestAgent

CONSTANT Mix   \* the mixes of requests to look at, each a set for every caller

Op == {"process", "exec", "console", "tick", "pause", "resume", "save", "boot", "restore",
       "stop", "start"}

ASSUME SandboxAssumption == Mix \subseteq [Caller -> SUBSET Op]

VARIABLES
  serves, \* the mix of this behaviour
  rec,    \* the status in the VM's record
  idle,   \* the last recorded activity is older than autopause_idle_secs
  todo    \* todo[c]: the API request that caller c is serving

managerVars == <<serves, rec, idle, todo>>

vars == <<hvVars, agentVars, managerVars>>

NoTodo == [op |-> "none", step |-> "none"]

Init ==
  /\ HvInit /\ AgentInit
  /\ serves \in Mix
  /\ rec = "Stopped"
  /\ idle = FALSE
  /\ todo = [c \in Caller |-> NoTodo]

At(c, op, step) == todo[c] = [op |-> op, step |-> step]

Step(c, step) == todo' = [todo EXCEPT ![c].step = step]

\* The request is over, whatever it is answered with.
Finish(c) == todo' = [todo EXCEPT ![c] = NoTodo]

Calls(c, op) == Ask(c, op) /\ UNCHANGED <<engine, hv, lifecycle, guest, late, holder, snap, since, acked, slips>>

Hung(c) == ask' = [ask EXCEPT ![c] = NoAsk] /\ UNCHANGED <<engine, hv, lifecycle, guest, late, holder, snap, since, acked, slips>>

\* What becomes of the processes in the guest.
GuestFate ==
  IF guest \in {"running", "paused"} /\ guest' \notin {"running", "paused"}
    THEN GuestGone ELSE UNCHANGED agentVars

-----------------------------------------------------------------------------
(* Requests.                                                               *)

\* Routes that go through ensure_running_for_request, and routes that do not.
Begin(c, op) ==
  /\ todo[c] = NoTodo
  /\ op \in {"process", "exec", "console"} => line[c] = NoLine
  /\ op = "tick" => rec = "Running"
  /\ todo' = [todo EXCEPT ![c] =
       [op |-> op,
        step |-> IF op = "process" THEN "wake"
                 ELSE IF op \in {"exec", "console"} THEN "dial" ELSE "call"]]
  /\ UNCHANGED <<hvVars, agentVars, serves, rec, idle>>

\* ensure_running_for_request
Wake(c) ==
  /\ At(c, "process", "wake")
  /\ IF rec = "Paused"
       THEN Calls(c, "resume") /\ Step(c, "waking") /\ UNCHANGED idle
       ELSE Step(c, "dial") /\ idle' = FALSE /\ UNCHANGED hvVars
  /\ UNCHANGED <<agentVars, serves, rec>>

Woken(c) ==
  /\ At(c, "process", "waking") /\ Hears(c)
  /\ Hung(c)
  /\ IF ask[c].ok
       THEN rec' = "Running" /\ idle' = FALSE /\ Step(c, "dial")
       ELSE Finish(c) /\ UNCHANGED <<rec, idle>>
  /\ UNCHANGED <<agentVars, serves>>

\* exec, put_file, get_file, open_console
DialGuest(c) ==
  /\ todo[c].step = "dial"
  /\ Dial(c, IF todo[c].op = "console" THEN "console" ELSE "exec")
  /\ Step(c, "talk")
  /\ UNCHANGED <<hvVars, serves, rec, idle>>

\* The answer, an error or the timeout ends a call.
EndCall(c) ==
  /\ todo[c].step = "talk"
  /\ line[c].host # "console"
  /\ HangUp(c)
  /\ Finish(c)
  /\ UNCHANGED <<hvVars, serves, rec, idle>>

\* agent_console hands the open stream to relay_console.
Relay(c) ==
  /\ todo[c].step = "talk" /\ line[c].host = "console"
  /\ Finish(c)
  /\ UNCHANGED <<hvVars, agentVars, serves, rec, idle>>

\* autopause_tick: the record was listed, the activity is looked up now.
Tick(c) ==
  /\ At(c, "tick", "call")
  /\ IF idle
       THEN Calls(c, "pause") /\ Step(c, "called")
       ELSE Finish(c) /\ UNCHANGED hvVars
  /\ UNCHANGED <<agentVars, serves, rec, idle>>

\* pause, resume, snapshot_sandbox, and an operator's boot or restore.
CallHypervisor(c) ==
  /\ todo[c].step = "call" /\ todo[c].op \in {"pause", "resume", "save", "boot", "restore"}
  /\ Calls(c, todo[c].op)
  /\ Step(c, "called")
  /\ UNCHANGED <<agentVars, serves, rec, idle>>

\* The answer; pause and resume then write the record.
Called(c) ==
  /\ todo[c].step = "called" /\ todo[c].op # "stop" /\ Hears(c)
  /\ Hung(c)
  /\ rec' = CASE ask[c].ok /\ ask[c].op = "pause" -> "Paused"
              [] ask[c].ok /\ ask[c].op = "resume" -> "Running"
              [] OTHER -> rec
  /\ Finish(c)
  /\ UNCHANGED <<agentVars, serves, idle>>

\* stop: a graceful shutdown first, if there is a process.
StopGuest(c) ==
  /\ At(c, "stop", "call")
  /\ IF hv THEN Calls(c, "shutdown") /\ Step(c, "called")
           ELSE Step(c, "kill") /\ UNCHANGED hvVars
  /\ UNCHANGED <<agentVars, serves, rec, idle>>

StopAsked(c) ==
  /\ At(c, "stop", "called") /\ Hears(c)
  /\ Hung(c)
  /\ Step(c, "kill")
  /\ UNCHANGED <<agentVars, serves, rec, idle>>

\* The hypervisor does not exit on Shutdown: it is terminated.
StopKills(c) ==
  /\ At(c, "stop", "kill")
  /\ IF hv THEN Ends /\ UNCHANGED <<engine, lifecycle, snap, since, acked, slips>>
           ELSE UNCHANGED hvVars
  /\ GuestFate
  /\ rec' = "Stopped"
  /\ Finish(c)
  /\ UNCHANGED <<serves, idle>>

\* start: launch returns when the socket answers a ping, not when the guest
\* has booted.
Launch(c) ==
  /\ At(c, "start", "call")
  /\ IF rec = "Stopped" /\ ~hv
       THEN Serve /\ GuestFate /\ rec' = "Running"
       ELSE UNCHANGED <<hvVars, agentVars, rec>>
  /\ Finish(c)
  /\ UNCHANGED <<serves, idle>>

Manager(c) ==
  \/ Wake(c) \/ Woken(c) \/ DialGuest(c) \/ EndCall(c) \/ Relay(c)
  \/ Tick(c) \/ CallHypervisor(c) \/ Called(c)
  \/ StopGuest(c) \/ StopAsked(c) \/ StopKills(c) \/ Launch(c)

\* The user of a console leaves, or its stream ends.
UserLeaves(c) ==
  /\ line[c].host = "console" /\ todo[c].step # "talk"
  /\ HangUp(c)
  /\ UNCHANGED <<hvVars, managerVars>>

StreamEnds(c) ==
  /\ todo[c].step # "talk"
  /\ EndOfFile(c)
  /\ UNCHANGED <<hvVars, managerVars>>

Clear(c) == Forget(c) /\ UNCHANGED <<hvVars, managerVars>>

\* Idle time matters to AutoPause only.
TimePasses ==
  /\ ~idle /\ \E c \in Caller : "tick" \in serves[c]
  /\ idle' = TRUE
  /\ UNCHANGED <<hvVars, agentVars, serves, rec, todo>>

InGuest(c) == AgentNext(c) /\ UNCHANGED <<hvVars, managerVars>>

InHypervisor == HvNext /\ GuestFate /\ UNCHANGED managerVars

Next ==
  \/ InHypervisor
  \/ TimePasses
  \/ \E c \in Caller :
       \/ \E op \in serves[c] : Begin(c, op)
       \/ Manager(c) \/ InGuest(c)
       \/ UserLeaves(c) \/ StreamEnds(c) \/ Clear(c)

\* Requests go on, the mutex is handed on in order, the stream's end is
\* read, and a session sees that it was hung up.  The engine, the commands
\* in the guest and the users owe nothing.
Fairness ==
  /\ WF_vars(InitialBoot /\ GuestFate /\ UNCHANGED managerVars)
  /\ \A c \in Caller :
       /\ WF_vars(Manager(c))
       /\ SF_vars(Dispatch(c) /\ GuestFate /\ UNCHANGED managerVars)
       /\ WF_vars(StreamEnds(c))
       /\ WF_vars(SeesHangUp(c) /\ UNCHANGED <<hvVars, managerVars>>)

Spec == Init /\ [][Next]_vars /\ Fairness

-----------------------------------------------------------------------------
(* Properties.                                                             *)

\* Every API request to the sandbox ends, though the engine may never answer
\* again, the guest may be paused, dead or busy for ever, and other requests
\* keep coming (guest.rs: FC_API_TIMEOUT; vsock-client: call, open_shell;
\* control.rs: request has no timeout of its own).
CallsEnd == \A c \in Caller : [](todo[c] # NoTodo => <>(todo[c] = NoTodo))
=============================================================================
