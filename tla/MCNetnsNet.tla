------------------------------ MODULE MCNetnsNet ------------------------------
(***************************************************************************)
(* Instances of NetnsNet with more VMs than blocks.                        *)
(***************************************************************************)
EXTENDS NetnsNet, TLC

\* Tasks are interchangeable; VMs differ in what may happen to them.
Alike == Permutations(Task)
=============================================================================
