------------------------------ MODULE MCSandbox ------------------------------
(***************************************************************************)
(* An instance of Sandbox: two requests at a time, one that uses the      *)
(* guest and one that manages the VM, and consoles for both.               *)
(***************************************************************************)
EXTENDS Sandbox, TLC

Users(some, others) == "user" :> some @@ "admin" :> others

\* AutoPause against requests, snapshots and restores, consoles.
Mixes ==
  {Users({"process", "exec", "resume"}, {"start", "tick", "pause"}),
   Users({"pause", "resume"}, {"start", "stop", "save", "boot", "restore"}),
   Users({"console"}, {"start", "console", "exec", "stop"})}
=============================================================================
