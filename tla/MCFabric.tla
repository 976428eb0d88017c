------------------------------ MODULE MCFabric ------------------------------
(***************************************************************************)
(* Instances of Fabric: one policy by destination, one by destination and  *)
(* port, and a default that lets everything pass.                          *)
(***************************************************************************)
EXTENDS Fabric, TLC

Everything == [default_allow |-> TRUE, cidrs |-> {}, ports |-> {}]

ByDest == [default_allow |-> FALSE, cidrs |-> {"a"}, ports |-> {}]

ByBoth == [default_allow |-> FALSE, cidrs |-> {"b"}, ports |-> {80}]

Chosen == {ByDest, ByBoth}
=============================================================================
