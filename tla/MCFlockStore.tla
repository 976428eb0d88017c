----------------------------- MODULE MCFlockStore -----------------------------
(***************************************************************************)
(* vms.json under FlockStore: two processes that create VMs with and     *)
(* without an agent, write them back, remove and read them.                *)
(***************************************************************************)
EXTENDS FlockStore, VmStoreOps, FiniteSets

CONSTANTS a, b, Err

\* A record keeps its CID and one bit the callers overwrite.
Recs == [guest_cid : Cids \cup {0}, data : {0, 1}]

VmMaps == [Vm -> Recs \cup {NoRec}]

VmRequests ==
  [op : {"insert_with_cid"}, vm : Vm, needs_cid : {TRUE}]
    \cup [op : {"insert_with_cid"}, vm : {b}, needs_cid : {FALSE}]
    \cup [op : {"update"}, vm : {a}, rec : {[guest_cid |-> 0, data |-> 1]}]
    \cup [op : {"remove", "get"}, vm : {a}]
    \cup [op : {"list"}]

VmIsRead(r) == r.op \in {"get", "list"}

\* An answer, as the part of the map it speaks of.
Only(m, v) == Put(Empty, v, m[v])

\* What Store's method for r does to the map, and returns.
VmOutcomes(m, r) ==
  CASE r.op = "insert_with_cid" ->
         {[map |-> n, ans |-> Only(n, r.vm), save |-> TRUE] :
            n \in InsertWithCid(m, r.vm, [guest_cid |-> 0, data |-> 0],
                                r.needs_cid)}
    [] r.op = "update" ->
         {[map |-> Update(m, r.vm, r.rec), ans |-> Empty, save |-> TRUE]}
    [] r.op = "remove" ->
         {[map |-> Remove(m, r.vm), ans |-> Only(m, r.vm), save |-> TRUE]}
    [] r.op = "get" -> {[map |-> m, ans |-> Only(m, r.vm), save |-> FALSE]}
    [] r.op = "list" -> {[map |-> m, ans |-> m, save |-> FALSE]}

\* get swallows an error into None and list into an empty vector.
VmErrAns(r) == IF VmIsRead(r) THEN Empty ELSE Err
=============================================================================
