----------------------------- MODULE AtomicStore -----------------------------
(***************************************************************************)
(* What the state files of the VM manager promise their callers: every     *)
(* operation of Store, PoolStore and IpamStore takes effect on the whole   *)
(* map at one instant between its call and its answer, whichever process   *)
(* made it, and an operation that fails, or whose process dies before that *)
(* instant, leaves no trace.                                               *)
(*                                                                         *)
(* The module is abstract in the map: a request r on map m has the set of  *)
(* outcomes Outcomes(m, r), records with the map it leaves, the answer it  *)
(* returns and whether it is saved (a closure may refuse).  FlockStore is  *)
(* the implementation; VmStoreOps has the closures of vms.json.            *)
(***************************************************************************)

CONSTANTS
  Proc,            \* callers: serve's tasks and one-shot CLI processes
  InitMap,         \* what an absent or empty file reads as
  Requests,        \* the operations callers may ask for
  Outcomes(_, _),  \* what a request does to a map
  ErrAns(_),       \* the answer to a request that meets an I/O error
  Nil              \* no request, no answer

VARIABLES
  map,    \* the committed contents
  phase,  \* phase[p]: "idle", "pending" or "answered"
  req,    \* the request p waits on
  ans     \* the answer it got

avars == <<map, phase, req, ans>>

Init ==
  /\ map = InitMap
  /\ phase = [p \in Proc |-> "idle"]
  /\ req = [p \in Proc |-> Nil]
  /\ ans = [p \in Proc |-> Nil]

Invoke(p) ==
  /\ phase[p] = "idle"
  /\ phase' = [phase EXCEPT ![p] = "pending"]
  /\ \E r \in Requests : req' = [req EXCEPT ![p] = r]
  /\ UNCHANGED <<map, ans>>

Answer(p, a) ==
  /\ phase' = [phase EXCEPT ![p] = "answered"]
  /\ ans' = [ans EXCEPT ![p] = a]
  /\ UNCHANGED req

\* The one instant at which the operation happens.
Perform(p) ==
  /\ phase[p] = "pending"
  /\ \E o \in Outcomes(map, req[p]) :
       /\ map' = IF o.save THEN o.map ELSE map
       /\ Answer(p, o.ans)

Fail(p) ==
  /\ phase[p] = "pending"
  /\ Answer(p, ErrAns(req[p]))
  /\ UNCHANGED map

\* The caller has its answer, or its process is killed; what it had performed
\* stays performed.
Leave(p) ==
  /\ phase[p] # "idle"
  /\ phase' = [phase EXCEPT ![p] = "idle"]
  /\ req' = [req EXCEPT ![p] = Nil]
  /\ ans' = [ans EXCEPT ![p] = Nil]
  /\ UNCHANGED map

Next == \E p \in Proc : Invoke(p) \/ Perform(p) \/ Fail(p) \/ Leave(p)

Spec == Init /\ [][Next]_avars
=============================================================================
