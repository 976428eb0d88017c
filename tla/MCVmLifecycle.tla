---------------------------- MODULE MCVmLifecycle ----------------------------
(***************************************************************************)
(* VmLifecycle for TLC: the operations and statuses the runs choose from.  *)
(***************************************************************************)
EXTENDS VmLifecycle, TLC

AllOps == {"create", "start", "stop", "pause", "resume", "delete"}

\* Enough to race the reaper with every kind of stale record.
RacingOps == {"create", "start", "pause"}

\* Enough for a CID to be reused while a stale copy is in flight.
CidOps == {"create", "start", "stop", "delete"}

\* Clients are alike, and so are VMs.
Alike == Permutations(Client) \cup Permutations(Vm)

\* What start's documentation promises to relaunch, and a retry of a failure.
Relaunchable == {"Stopped", "Failed"}

\* Any clean-up may fail.
AnyCleanup == Resource \cup {"vfs"}

\* What start_impl accepts.
AnyStatus == Status
=============================================================================
