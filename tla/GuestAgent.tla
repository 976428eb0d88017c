----------------------------- MODULE GuestAgent -----------------------------
(***************************************************************************)
(* The guest agent and the host's end of its connections: one-shot calls   *)
(* (exec, put and get file, ping) with a timeout on the host, an exec      *)
(* timeout in the guest, and consoles, each in a process of its own that   *)
(* is forked from the agent.                                               *)
(*                                                                         *)
(* A connection is at its end for the host when no process in the guest    *)
(* has it open any more.  The agent's own descriptors of a connection are  *)
(* not close-on-exec: whatever the agent forks has a copy of the others'.  *)
(* Nothing in the guest moves while the guest is not running.              *)
(***************************************************************************)
EXTENDS Hypervisor

VARIABLES
  line,     \* line[c]: kind of the connection of caller c, the agent's side, the host's side
  copies    \* copies[c]: others whose processes hold a copy of connection c

agentVars == <<line, copies>>

NoLine == [kind |-> "none", agent |-> "none", host |-> "none"]

AgentInit ==
  /\ line = [c \in Caller |-> NoLine]
  /\ copies = [c \in Caller |-> {}]

Alive == guest = "running"

Agent(c, state) == line' = [line EXCEPT ![c].agent = state]

\* Connections that the agent's process has open.
Open == {c \in Caller : line[c].agent \in {"accepted", "command", "draining"}}

Inherits(c) == copies' = [d \in Caller |-> IF d \in Open \ {c} THEN copies[d] \cup {c} ELSE copies[d]]

Releases(c) == copies' = [d \in Caller |-> copies[d] \ {c}]

-----------------------------------------------------------------------------
(* The host: fluxvm-vsock-client.                                          *)

\* call and open_shell, up to the request: a connection that is not taken
\* up is refused by the proxy or runs into the timeout.
Dial(c, kind) ==
  /\ line[c] = NoLine
  /\ line' = [line EXCEPT ![c] = [kind |-> kind, agent |-> "asked", host |-> "waiting"]]
  /\ UNCHANGED copies

\* The response line has been read, or the timeout has passed.
HangUp(c) ==
  /\ line[c].host \in {"waiting", "answered", "refused", "console"}
  /\ line' = [line EXCEPT ![c].host = "closed"]
  /\ UNCHANGED copies

\* The console's stream is at its end: nobody in the guest has it open.
EndOfFile(c) ==
  /\ line[c].host = "console"
  /\ line[c].agent \notin {"asked", "session"}
  /\ copies[c] = {}
  /\ line' = [line EXCEPT ![c].host = "closed"]
  /\ UNCHANGED copies

\* Both ends are through; the caller may dial again.
Forget(c) ==
  /\ line[c].host = "closed" /\ line[c].agent \in {"asked", "over"}
  /\ copies[c] = {}
  /\ line' = [line EXCEPT ![c] = NoLine]
  /\ UNCHANGED copies

-----------------------------------------------------------------------------
(* The agent: fluxvm-guest-agent.                                          *)

\* run_server accepts, a thread reads the request line: also of a caller
\* that has given up since it sent it.
Accept(c) ==
  /\ Alive /\ line[c].agent = "asked"
  /\ Agent(c, "accepted")
  /\ UNCHANGED copies

\* handle_connection answers by itself: ping, put_file, get_file, a wrong
\* token, a command that cannot be spawned, a PTY that cannot be had.
Reply(c) ==
  /\ Alive /\ line[c].agent = "accepted"
  /\ \E answer \in {"answered", "refused"} :
       line' = [line EXCEPT ![c].agent = "over",
                            ![c].host = IF @ = "waiting" THEN answer ELSE @]
  /\ UNCHANGED copies

\* exec_with_timeout spawns a shell with two pipes and a reader on each.
Spawn(c) ==
  /\ Alive /\ line[c].agent = "accepted" /\ line[c].kind = "exec"
  /\ Agent(c, "command")
  /\ Inherits(c)

\* The shell exits or is killed at its deadline, all of its output closed.
CommandEnds(c) ==
  /\ Alive /\ line[c].agent = "command"
  /\ line' = [line EXCEPT ![c].agent = "over",
                          ![c].host = IF @ = "waiting" THEN "answered" ELSE @]
  /\ Releases(c)

\* It leaves something behind that has the pipes open: the readers are not
\* at their end, and the answer waits for it beyond the deadline.
CommandLeavesBackground(c) ==
  /\ Alive /\ line[c].agent = "command"
  /\ Agent(c, "draining")
  /\ UNCHANGED copies

BackgroundEnds(c) ==
  /\ Alive /\ line[c].agent = "draining"
  /\ line' = [line EXCEPT ![c].agent = "over",
                          ![c].host = IF @ = "waiting" THEN "answered" ELSE @]
  /\ Releases(c)

\* spawn_open_shell_session and open_shell: forked twice, the agent drops
\* its own descriptors, the shell has the PTY, ShellOpened is sent.
OpenShell(c) ==
  /\ Alive /\ line[c].agent = "accepted" /\ line[c].kind = "console"
  /\ line' = [line EXCEPT ![c].agent = "session",
                          ![c].host = IF @ = "waiting" THEN "console" ELSE @]
  /\ Inherits(c)

\* Bug: the shell has a copy of the connection, and so has what it started.
ShellKeepsLine(c) ==
  /\ Alive /\ line[c].agent = "session"
  /\ Agent(c, "over")
  /\ copies' = [d \in Caller |-> IF d = c THEN copies[d] \cup {c} ELSE copies[d] \ {c}]

\* The shell exits, perhaps with jobs in the background: the PTY relay ends
\* and with it the session's process.  set_cloexec kept the connection from
\* the shell and from its jobs.
ShellExits(c) ==
  /\ Alive /\ line[c].agent = "session"
  /\ Agent(c, "over")
  /\ Releases(c)

\* The host has hung up: the other relay ends, the shell is killed.
SeesHangUp(c) ==
  /\ Alive /\ line[c].agent = "session" /\ line[c].host = "closed"
  /\ Agent(c, "over")
  /\ Releases(c)

\* The guest is gone, and every process in it.
GuestGone ==
  /\ line' = [c \in Caller |-> IF line[c] = NoLine THEN NoLine
                             ELSE [line[c] EXCEPT !.agent = "over"]]
  /\ copies' = [c \in Caller |-> {}]

AgentNext(c) ==
  \/ Accept(c) \/ Reply(c) \/ Spawn(c) \/ CommandEnds(c)
  \/ CommandLeavesBackground(c) \/ BackgroundEnds(c)
  \/ OpenShell(c) \/ ShellExits(c) \/ SeesHangUp(c)

-----------------------------------------------------------------------------
(* Properties.                                                             *)

\* A console ends on both sides: once its shell is gone the host's stream
\* comes to its end, unless a process that the agent forked for somebody
\* else while it was opened still has the connection; and once the host has
\* hung up, the session is over, unless the guest does not run
\* (guest-agent: open_shell, set_cloexec; api: relay_console).
ConsoleEnds ==
  \A c \in Caller :
    /\ [](line[c].host = "console" /\ line[c].agent = "over"
            => <>(line[c].host # "console" \/ copies[c] \ {c} # {}))
    /\ [](line[c].agent = "session" /\ line[c].host = "closed"
            => <>(line[c].agent # "session" \/ ~Alive))
=============================================================================
