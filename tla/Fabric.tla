------------------------------- MODULE Fabric -------------------------------
(***************************************************************************)
(* The host's packet filters: the policy of a VM (Dataplane) and the XDP   *)
(* guard of the node (XdpGuard).  The two share neither programs nor       *)
(* markers, so a behaviour moves one of them and leaves the other as it    *)
(* was.                                                                    *)
(***************************************************************************)
EXTENDS Dataplane, XdpGuard

VARIABLE scope   \* the filter this behaviour is about: "vm" or "node"

allVars == <<vars, xdpVars, scope>>

FabricInit == Init /\ XdpInit /\ scope \in {"vm", "node"}

FabricNext ==
  /\ \/ scope = "vm" /\ Next /\ UNCHANGED xdpVars
     \/ scope = "node" /\ XdpNext /\ UNCHANGED vars
  /\ UNCHANGED scope

FabricSpec == FabricInit /\ [][FabricNext]_allVars /\ Fairness
=============================================================================
