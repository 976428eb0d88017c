------------------------------ MODULE FlockStore ------------------------------
(***************************************************************************)
(* The discipline every JSON state file of the VM manager follows (Store   *)
(* and PoolStore in fluxvm-storage, IpamStore in fluxvm-network): open the *)
(* lock file, flock it, read the file afresh, run a closure on the map,    *)
(* write <file>.tmp, rename it over the file, and drop the lock by closing *)
(* its descriptor.  Callers are separate processes, any of which may be    *)
(* killed between any two steps, or meet an I/O error at any of them.      *)
(*                                                                         *)
(* The closures are the constant operator Outcomes, so that one model, one *)
(* refinement and one proof serve the three files.                         *)
(***************************************************************************)

CONSTANTS
  Proc,            \* callers: serve's tasks and one-shot CLI processes
  Maps,            \* the values the state file may hold
  InitMap,         \* what an absent or empty file reads as
  Requests,        \* the operations callers may ask for
  Outcomes(_, _),  \* what a closure does to the map it is given
  ErrAns(_),       \* the answer a caller gets when a request meets an I/O error
  IsRead(_),       \* requests that go through with_shared
  Torn,            \* the contents of a half-written temporary file
  Nil,             \* no request, no outcome
  NoProc           \* no process

ASSUME StoreAssumption ==
  /\ InitMap \in Maps
  /\ Torn \notin Maps
  /\ NoProc \notin Proc
  /\ Nil \notin Requests
  /\ \A m \in Maps, r \in Requests : \A o \in Outcomes(m, r) : o.map \in Maps
  /\ \A m \in Maps, r \in Requests :
       IsRead(r) => \A o \in Outcomes(m, r) : ~o.save

VARIABLES
  disk,      \* the contents of the state file
  tmp,       \* the contents of its .tmp sibling, shared by all writers
  ex,        \* the process holding LOCK_EX on the lock file
  sh,        \* the processes holding LOCK_SH on it
  pc,        \* where each process is in with_exclusive / with_shared
  req,       \* the request it serves
  out        \* the outcome of its closure, held in memory

vars == <<disk, tmp, ex, sh, pc, req, out>>

\* The steps of a call; the lock is held in the middle five.
Steps == {"idle", "open", "locked", "applied", "writing", "written",
          "renamed", "failed"}

WriterHolds == {"locked", "applied", "writing", "written", "renamed"}

ReaderHolds == {"locked", "renamed"}

Init ==
  /\ disk = InitMap
  /\ tmp = Torn
  /\ ex = NoProc
  /\ sh = {}
  /\ pc = [p \in Proc |-> "idle"]
  /\ req = [p \in Proc |-> Nil]
  /\ out = [p \in Proc |-> Nil]

Goto(p, step) == pc' = [pc EXCEPT ![p] = step]

\* The lock file's descriptor is closed: on every return, and by the kernel.
Unlock(p) ==
  /\ ex' = IF ex = p THEN NoProc ELSE ex
  /\ sh' = sh \ {p}

\* The call is over: its locals are gone.
Forget(p) ==
  /\ req' = [req EXCEPT ![p] = Nil]
  /\ out' = [out EXCEPT ![p] = Nil]

Begin(p) ==
  /\ pc[p] = "idle"
  /\ \E r \in Requests : req' = [req EXCEPT ![p] = r]
  /\ Goto(p, "open")
  /\ UNCHANGED <<disk, tmp, ex, sh, out>>

-----------------------------------------------------------------------------
(* flock: a shared lock excludes writers, an exclusive one everybody.      *)

\* Bug: the writer asks for LOCK_SH.
LockExAsShared(p) ==
  /\ pc[p] = "open" /\ ~IsRead(req[p])
  /\ ex = NoProc
  /\ sh' = sh \cup {p}
  /\ Goto(p, "locked")
  /\ UNCHANGED <<disk, tmp, ex, req, out>>

LockExclusive(p) ==
  /\ pc[p] = "open" /\ ~IsRead(req[p])
  /\ ex = NoProc /\ sh = {}
  /\ ex' = p
  /\ Goto(p, "locked")
  /\ UNCHANGED <<disk, tmp, sh, req, out>>

LockShared(p) ==
  /\ pc[p] = "open" /\ IsRead(req[p])
  /\ ex = NoProc
  /\ sh' = sh \cup {p}
  /\ Goto(p, "locked")
  /\ UNCHANGED <<disk, tmp, ex, req, out>>

-----------------------------------------------------------------------------
(* Under the lock.                                                         *)

\* read_map, then the closure.  A closure that refuses returns before the
\* write; with_shared has no write to make.
Apply(p) ==
  /\ pc[p] = "locked"
  /\ \E o \in Outcomes(disk, req[p]) :
       /\ out' = [out EXCEPT ![p] = o]
       /\ Goto(p, IF o.save THEN "applied" ELSE "renamed")
  /\ UNCHANGED <<disk, tmp, ex, sh, req>>

\* fs::write creates or truncates the temporary file, then fills it.
TruncateTmp(p) ==
  /\ pc[p] = "applied"
  /\ tmp' = Torn
  /\ Goto(p, "writing")
  /\ UNCHANGED <<disk, ex, sh, req, out>>

FillTmp(p) ==
  /\ pc[p] = "writing"
  /\ tmp' = out[p].map
  /\ Goto(p, "written")
  /\ UNCHANGED <<disk, ex, sh, req, out>>

\* Bug: the rename does not wait for the write.
RenameUnfilled(p) ==
  /\ pc[p] \in {"writing", "written"}
  /\ disk' = tmp
  /\ tmp' = Torn
  /\ Goto(p, "renamed")
  /\ UNCHANGED <<ex, sh, req, out>>

\* fs::rename replaces the state file in one step.
Rename(p) ==
  /\ pc[p] = "written"
  /\ disk' = tmp
  /\ tmp' = Torn
  /\ Goto(p, "renamed")
  /\ UNCHANGED <<ex, sh, req, out>>

Reply(p) ==
  /\ pc[p] \in {"renamed", "failed"}
  /\ Unlock(p)
  /\ Forget(p)
  /\ Goto(p, "idle")
  /\ UNCHANGED <<disk, tmp>>

\* open, flock, read, parse, write or rename returns an error: the ? operator
\* leaves the closure and drops the lock.
IoError(p) ==
  /\ pc[p] \in {"open", "locked", "applied", "writing", "written"}
  /\ Unlock(p)
  /\ Goto(p, "failed")
  /\ UNCHANGED <<disk, tmp, req, out>>

\* The process is killed; the kernel closes its descriptors.
Killed(p) ==
  /\ pc[p] # "idle"
  /\ Unlock(p)
  /\ Forget(p)
  /\ Goto(p, "idle")
  /\ UNCHANGED <<disk, tmp>>

Next ==
  \E p \in Proc :
    \/ Begin(p) \/ LockExclusive(p) \/ LockShared(p) \/ Apply(p)
    \/ TruncateTmp(p) \/ FillTmp(p) \/ Rename(p) \/ Reply(p)
    \/ IoError(p) \/ Killed(p)

Spec == Init /\ [][Next]_vars

-----------------------------------------------------------------------------
TypeOK ==
  /\ disk \in Maps
  /\ tmp \in Maps \cup {Torn}
  /\ ex \in Proc \cup {NoProc}
  /\ sh \subseteq Proc
  /\ pc \in [Proc -> Steps]
  /\ req \in [Proc -> Requests \cup {Nil}]
  /\ \A p \in Proc : pc[p] # "idle" => req[p] \in Requests
  /\ DOMAIN out = Proc

\* A writer inside the critical section holds the lock alone; a reader holds
\* it with readers only.
LockInv ==
  /\ ex # NoProc => sh = {}
  /\ \A p \in Proc :
       pc[p] \in WriterHolds =>
         IF IsRead(req[p]) THEN pc[p] \in ReaderHolds /\ p \in sh
                           ELSE ex = p

\* What a writer is about to rename is the outcome of its closure on what the
\* file still holds: nobody replaced it between the read and the rename, and
\* nobody wrote the shared temporary file in between (with_exclusive re-reads
\* under the lock it writes under).
NoLostUpdate ==
  \A p \in Proc :
    /\ pc[p] \in {"applied", "writing", "written"}
         => out[p].save /\ out[p] \in Outcomes(disk, req[p])
    /\ pc[p] = "written" => tmp = out[p].map

-----------------------------------------------------------------------------
(* The refinement: the operation happens at the rename, or at the read of  *)
(* one that saves nothing.                                                 *)

absPhase ==
  [p \in Proc |-> IF pc[p] = "idle" THEN "idle"
                  ELSE IF pc[p] \in {"renamed", "failed"} THEN "answered"
                  ELSE "pending"]

absAns ==
  [p \in Proc |-> IF pc[p] = "renamed" THEN out[p].ans
                  ELSE IF pc[p] = "failed" THEN ErrAns(req[p])
                  ELSE Nil]

Abs == INSTANCE AtomicStore WITH map <- disk, phase <- absPhase, ans <- absAns

\* The flock, tmp and rename protocol makes every store operation atomic,
\* across processes, kills and I/O errors.
Atomic == Abs!Spec
=============================================================================
