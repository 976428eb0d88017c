------------------------------ MODULE XdpGuard ------------------------------
(***************************************************************************)
(* The node's XDP guard: ensure(), which every start of the daemon runs    *)
(* with the configuration of the day, over the program on the uplink, the  *)
(* pins, the ownership markers and the pinned block map.                   *)
(*                                                                         *)
(* Any command may fail and the daemon may be killed before any of them;   *)
(* other software may put a program of its own on a free uplink.           *)
(***************************************************************************)
EXTENDS Naturals, FiniteSets

CONSTANTS
  Cidr,       \* CIDRs that may be blocked
  XProg,      \* program ids of ours; 0 is none
  Other,      \* the id of somebody else's XDP program
  MaxXFault   \* bound on failed commands and kills

ASSUME XdpAssumption ==
  XProg \subseteq Nat \ {0} /\ Other \notin XProg \cup {0} /\ MaxXFault \in Nat

VARIABLES
  want,     \* xdp.block_cidrs of this start
  link,     \* the XDP program on the uplink
  root,     \* the pinned program
  marker,   \* the markers: interface recorded, program id
  blocks,   \* blocks[i]: the block map of program i
  step,     \* where ensure() is, "up" when it is over
  then,     \* what follows remove(): "probe" or "up"
  kept,     \* CIDRs configured by every start since one succeeded
  xfaults   \* what has gone wrong so far

xdpVars == <<want, link, root, marker, blocks, step, then, kept, xfaults>>

NoMarker == [iface |-> FALSE, prog |-> 0]

XdpInit ==
  /\ want = {}
  /\ link = 0 /\ root = 0
  /\ marker = NoMarker
  /\ blocks = [i \in XProg |-> {}]
  /\ step = "up" /\ then = "up"
  /\ kept = {}
  /\ xfaults = 0

-----------------------------------------------------------------------------

OwnedId == IF marker.prog # 0 THEN marker.prog ELSE root

\* attachment_is_ours
Ours == marker.iface /\ OwnedId # 0 /\ link = OwnedId

XFault == xfaults < MaxXFault /\ xfaults' = xfaults + 1

\* A failure inside apply's closure is followed by remove(); elsewhere
\* ensure() returns the error.
XFails ==
  /\ XFault
  /\ IF step \in {"load", "add", "prune", "attach"} /\ ~Ours
       THEN step' = "detach" /\ then' = "up"
       ELSE step' = "up" /\ UNCHANGED then

\* VmManager::new of a daemon with the guard configured to block the CIDRs w.
StartGuarded(w) ==
  /\ step = "up"
  /\ want' = w
  /\ kept' = kept \cap w
  /\ IF Ours
       THEN step' = "add" /\ UNCHANGED then
       ELSE step' = "detach" /\ then' = "probe"
  /\ UNCHANGED <<link, root, marker, blocks, xfaults>>

\* The guard is not enabled, or Cilium owns the host's XDP: remove() only.
StartUnguarded ==
  /\ step = "up"
  /\ want' = {} /\ kept' = {}
  /\ step' = "detach" /\ then' = "up"
  /\ UNCHANGED <<link, root, marker, blocks, xfaults>>

\* remove(): take the program off if the markers say it is ours.  An error
\* ends remove() with the pins in place.
Detach ==
  /\ step = "detach"
  /\ \/ /\ link' = IF Ours THEN 0 ELSE link
        /\ step' = "unpin"
        /\ UNCHANGED xfaults
     \/ XFault /\ step' = then /\ UNCHANGED link
  /\ UNCHANGED <<want, root, marker, blocks, then, kept>>

\* The pins, then the markers; a failure in between leaves the markers.
UnpinGuard ==
  /\ step = "unpin"
  /\ root' = 0
  /\ \/ marker' = NoMarker /\ UNCHANGED xfaults
     \/ XFault /\ UNCHANGED marker
  /\ step' = then
  /\ UNCHANGED <<want, link, blocks, then, kept>>

\* apply refuses an uplink that still has a program.
Probe ==
  /\ step = "probe"
  /\ step' = IF link = 0 THEN "load" ELSE "up"
  /\ UNCHANGED <<want, link, root, marker, blocks, then, kept, xfaults>>

\* The interface marker, the program with an empty map, its id.
LoadProgram ==
  /\ step = "load"
  /\ \/ \E i \in XProg \ {link} :
          /\ \A j \in XProg \ {link} : i <= j
          /\ root' = i
          /\ marker' = [iface |-> TRUE, prog |-> i]
          /\ blocks' = [blocks EXCEPT ![i] = {}]
          /\ kept' = {}
          /\ step' = "add"
          /\ UNCHANGED <<then, xfaults>>
     \/ /\ XFails
        /\ marker' = [iface |-> TRUE, prog |-> 0]
        /\ UNCHANGED <<root, blocks, kept>>
  /\ UNCHANGED <<want, link>>

\* Bug: stale keys are deleted, then all keys are written anew.
ClearFirst ==
  /\ step = "add" /\ root # 0
  /\ blocks' = [blocks EXCEPT ![root] = {}]
  /\ step' = "prune"
  /\ UNCHANGED <<want, link, root, marker, then, kept, xfaults>>

\* sync_block_map: every wanted key is written, a failure stops half way.
AddKeys ==
  /\ step = "add"
  /\ \/ /\ root # 0
        /\ blocks' = [blocks EXCEPT ![root] = @ \cup want]
        /\ step' = "prune"
        /\ UNCHANGED <<then, xfaults>>
     \/ /\ XFails
        /\ \/ UNCHANGED blocks
           \/ root # 0 /\ \E some \in SUBSET want : blocks' = [blocks EXCEPT ![root] = @ \cup some]
  /\ UNCHANGED <<want, link, root, marker, kept>>

\* Then the keys that are not wanted go, one by one.
PruneKeys ==
  /\ step = "prune"
  /\ \/ /\ blocks' = [blocks EXCEPT ![root] = want]
        /\ IF Ours THEN step' = "up" /\ kept' = want ELSE step' = "attach" /\ UNCHANGED kept
        /\ UNCHANGED <<then, xfaults>>
     \/ /\ XFails
        /\ \E some \in SUBSET (blocks[root] \ want) : blocks' = [blocks EXCEPT ![root] = @ \ some]
        /\ UNCHANGED kept
  /\ UNCHANGED <<want, link, root, marker>>

\* ip link set xdp pinned: refused when a program is there.
AttachProgram ==
  /\ step = "attach"
  /\ \/ /\ link = 0
        /\ link' = root
        /\ kept' = want
        /\ step' = "up"
        /\ UNCHANGED <<then, xfaults>>
     \/ /\ link # 0
        /\ step' = "detach" /\ then' = "up"
        /\ UNCHANGED <<link, kept, xfaults>>
     \/ XFails /\ UNCHANGED <<link, kept>>
  /\ UNCHANGED <<want, root, marker, blocks>>

KillStart ==
  /\ step # "up"
  /\ XFault
  /\ step' = "up"
  /\ UNCHANGED <<want, link, root, marker, blocks, then, kept>>

\* Other software attaches to a free uplink, and leaves.
OtherComes ==
  /\ link = 0
  /\ link' = Other
  /\ UNCHANGED <<want, root, marker, blocks, step, then, kept, xfaults>>

OtherGoes ==
  /\ link = Other
  /\ link' = 0
  /\ UNCHANGED <<want, root, marker, blocks, step, then, kept, xfaults>>

XdpNext ==
  \/ \E w \in SUBSET Cidr : StartGuarded(w)
  \/ StartUnguarded
  \/ Detach \/ UnpinGuard \/ Probe \/ LoadProgram \/ AddKeys \/ PruneKeys \/ AttachProgram
  \/ KillStart \/ OtherComes \/ OtherGoes

-----------------------------------------------------------------------------
(* Properties.                                                             *)

\* While our guard is on the uplink, a CIDR that every start since the last
\* successful one has configured is blocked at every moment, through updates
\* that fail or are killed (xdp.rs: reconfigure_maps, sync_block_map).
NeverFailOpen == link \in XProg => kept \subseteq blocks[link]
=============================================================================
