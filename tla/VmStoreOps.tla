------------------------------ MODULE VmStoreOps ------------------------------
(***************************************************************************)
(* The closures of fluxvm-storage's Store: vms.json as a function from VM  *)
(* ids to records, NoRec for an id it does not hold.  A record is anything *)
(* with a guest_cid field, 0 for a VM without a vsock device.              *)
(***************************************************************************)
EXTENDS Naturals

CONSTANTS
  Vm,         \* VM ids (UUIDs, never reused)
  NoRec,      \* no record under this id
  FirstCid,   \* FIRST_GUEST_CID: 0 to 2 are reserved
  LastCid     \* bound on the CIDs a run enumerates

ASSUME CidAssumption ==
  FirstCid \in Nat \ {0} /\ LastCid \in Nat /\ FirstCid <= LastCid

Cids == FirstCid .. LastCid

Stored(m) == {v \in Vm : m[v] # NoRec}

UsedCids(m) == {m[v].guest_cid : v \in Stored(m)}

\* Bug: an allocation that does not look at the other records.
FirstCidOnly(m) == {FirstCid}

\* The while loop of insert_with_cid: the lowest candidate nobody uses.
FreeCid(m) ==
  {c \in Cids : /\ c \notin UsedCids(m)
                /\ \A d \in FirstCid .. (c - 1) : d \in UsedCids(m)}

Put(m, v, rec) == [m EXCEPT ![v] = rec]

\* update is insert: it writes whatever is under the id, present or not.
Update(m, v, rec) == Put(m, v, rec)

\* insert_with_cid: the maps it may leave.
InsertWithCid(m, v, rec, needs_cid) ==
  IF needs_cid
    THEN {Put(m, v, [rec EXCEPT !.guest_cid = c]) : c \in FreeCid(m)}
    ELSE {Put(m, v, rec)}

Remove(m, v) == [m EXCEPT ![v] = NoRec]

Empty == [v \in Vm |-> NoRec]
=============================================================================
