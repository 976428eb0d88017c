--------------------------- MODULE FlockStoreProofs ---------------------------
(***************************************************************************)
(* For any callers, any map and any closures, the flock / tmp / rename     *)
(* discipline of the state files loses no update, and implements the       *)
(* atomic store the rest of the system is built on.                        *)
(***************************************************************************)
EXTENDS FlockStore, TLAPS

IInv == TypeOK /\ LockInv /\ NoLostUpdate

-----------------------------------------------------------------------------
\* The inductive invariant holds of a store nobody has opened yet.
LEMMA InitIInv == Init => IInv
  BY StoreAssumption
     DEF Init, IInv, TypeOK, LockInv, NoLostUpdate, Steps, WriterHolds,
         ReaderHolds

\* Every step keeps the types; only a renamed file, a saved outcome, reaches disk.
LEMMA TypeStep == IInv /\ [Next]_vars => TypeOK'
  <1> SUFFICES ASSUME IInv, [Next]_vars
               PROVE  TypeOK'
    OBVIOUS
  <1> USE StoreAssumption DEF IInv, TypeOK, Steps
  <1>1. ASSUME NEW p \in Proc, Begin(p)
        PROVE  TypeOK'
    BY <1>1 DEF Begin, Goto
  <1>2. ASSUME NEW p \in Proc, LockExclusive(p)
        PROVE  TypeOK'
    BY <1>2 DEF LockExclusive, Goto
  <1>3. ASSUME NEW p \in Proc, LockShared(p)
        PROVE  TypeOK'
    BY <1>3 DEF LockShared, Goto
  <1>4. ASSUME NEW p \in Proc, Apply(p)
        PROVE  TypeOK'
    BY <1>4 DEF Apply, Goto
  <1>5. ASSUME NEW p \in Proc, TruncateTmp(p)
        PROVE  TypeOK'
    BY <1>5 DEF TruncateTmp, Goto
  <1>6. ASSUME NEW p \in Proc, FillTmp(p)
        PROVE  TypeOK'
    BY <1>6 DEF FillTmp, Goto, NoLostUpdate
  <1>7. ASSUME NEW p \in Proc, Rename(p)
        PROVE  TypeOK'
    BY <1>7 DEF Rename, Goto, NoLostUpdate
  <1>8. ASSUME NEW p \in Proc, Reply(p)
        PROVE  TypeOK'
    BY <1>8 DEF Reply, Goto, Unlock, Forget
  <1>9. ASSUME NEW p \in Proc, IoError(p)
        PROVE  TypeOK'
    BY <1>9 DEF IoError, Goto, Unlock
  <1>10. ASSUME NEW p \in Proc, Killed(p)
         PROVE  TypeOK'
    BY <1>10 DEF Killed, Goto, Unlock, Forget
  <1>11. CASE UNCHANGED vars
    BY <1>11 DEF vars
  <1> QED
    BY <1>1, <1>2, <1>3, <1>4, <1>5, <1>6, <1>7, <1>8, <1>9, <1>10, <1>11
       DEF Next

\* Every step keeps the lock discipline.
LEMMA LockStep == IInv /\ [Next]_vars => LockInv'
  <1> SUFFICES ASSUME IInv, [Next]_vars
               PROVE  LockInv'
    OBVIOUS
  <1> USE StoreAssumption
      DEF IInv, TypeOK, Steps, LockInv, WriterHolds, ReaderHolds
  <1>1. ASSUME NEW p \in Proc, Begin(p)
        PROVE  LockInv'
    BY <1>1 DEF Begin, Goto
  <1>2. ASSUME NEW p \in Proc, LockExclusive(p)
        PROVE  LockInv'
    BY <1>2 DEF LockExclusive, Goto
  <1>3. ASSUME NEW p \in Proc, LockShared(p)
        PROVE  LockInv'
    BY <1>3 DEF LockShared, Goto
  <1>4. ASSUME NEW p \in Proc, Apply(p)
        PROVE  LockInv'
    BY <1>4 DEF Apply, Goto
  <1>5. ASSUME NEW p \in Proc, TruncateTmp(p)
        PROVE  LockInv'
    BY <1>5 DEF TruncateTmp, Goto
  <1>6. ASSUME NEW p \in Proc, FillTmp(p)
        PROVE  LockInv'
    BY <1>6 DEF FillTmp, Goto
  <1>7. ASSUME NEW p \in Proc, Rename(p)
        PROVE  LockInv'
    BY <1>7 DEF Rename, Goto
  <1>8. ASSUME NEW p \in Proc, Reply(p)
        PROVE  LockInv'
    BY <1>8 DEF Reply, Goto, Unlock, Forget
  <1>9. ASSUME NEW p \in Proc, IoError(p)
        PROVE  LockInv'
    BY <1>9 DEF IoError, Goto, Unlock
  <1>10. ASSUME NEW p \in Proc, Killed(p)
         PROVE  LockInv'
    BY <1>10 DEF Killed, Goto, Unlock, Forget
  <1>11. CASE UNCHANGED vars
    BY <1>11 DEF vars
  <1> QED
    BY <1>1, <1>2, <1>3, <1>4, <1>5, <1>6, <1>7, <1>8, <1>9, <1>10, <1>11
       DEF Next

\* Two calls are never both between the closure and the rename.
LEMMA OneWriter ==
  ASSUME IInv,
         NEW p \in Proc, pc[p] \in {"applied", "writing", "written"},
         NEW q \in Proc, pc[q] \in {"applied", "writing", "written"}
  PROVE  p = q
  BY DEF IInv, LockInv, WriterHolds, ReaderHolds

\* Every step keeps what writers in the critical section rely on.
LEMMA UpdateStep == IInv /\ [Next]_vars => NoLostUpdate'
  <1> SUFFICES ASSUME IInv, [Next]_vars
               PROVE  NoLostUpdate'
    OBVIOUS
  <1> USE StoreAssumption DEF IInv, TypeOK, Steps, NoLostUpdate
  <1>1. ASSUME NEW p \in Proc, Begin(p)
        PROVE  NoLostUpdate'
    BY <1>1 DEF Begin, Goto
  <1>2. ASSUME NEW p \in Proc, LockExclusive(p)
        PROVE  NoLostUpdate'
    BY <1>2 DEF LockExclusive, Goto
  <1>3. ASSUME NEW p \in Proc, LockShared(p)
        PROVE  NoLostUpdate'
    BY <1>3 DEF LockShared, Goto
  <1>4. ASSUME NEW p \in Proc, Apply(p)
        PROVE  NoLostUpdate'
    BY <1>4 DEF Apply, Goto
  <1>5. ASSUME NEW p \in Proc, TruncateTmp(p)
        PROVE  NoLostUpdate'
    BY <1>5, OneWriter DEF TruncateTmp, Goto
  <1>6. ASSUME NEW p \in Proc, FillTmp(p)
        PROVE  NoLostUpdate'
    BY <1>6, OneWriter DEF FillTmp, Goto
  <1>7. ASSUME NEW p \in Proc, Rename(p)
        PROVE  NoLostUpdate'
    BY <1>7, OneWriter DEF Rename, Goto
  <1>8. ASSUME NEW p \in Proc, Reply(p)
        PROVE  NoLostUpdate'
    BY <1>8 DEF Reply, Goto, Unlock, Forget
  <1>9. ASSUME NEW p \in Proc, IoError(p)
        PROVE  NoLostUpdate'
    BY <1>9 DEF IoError, Goto, Unlock
  <1>10. ASSUME NEW p \in Proc, Killed(p)
         PROVE  NoLostUpdate'
    BY <1>10 DEF Killed, Goto, Unlock, Forget
  <1>11. CASE UNCHANGED vars
    BY <1>11 DEF vars
  <1> QED
    BY <1>1, <1>2, <1>3, <1>4, <1>5, <1>6, <1>7, <1>8, <1>9, <1>10, <1>11
       DEF Next

\* The state file, the lock and every call keep their types and their
\* discipline: the inductive invariant of with_exclusive and with_shared.
THEOREM Invariance == Spec => []IInv
  <1>1. IInv /\ [Next]_vars => IInv'
    BY TypeStep, LockStep, UpdateStep DEF IInv
  <1> QED
    BY InitIInv, <1>1, PTL DEF Spec

\* Store, PoolStore and IpamStore lose no update, however their callers
\* interleave, fail or are killed inside with_exclusive.
THEOREM UpdatesKept == Spec => []NoLostUpdate
  <1>1. IInv => NoLostUpdate
    BY DEF IInv
  <1> QED
    BY Invariance, <1>1, PTL

-----------------------------------------------------------------------------
(* Refinement: each step is one of the atomic store's, or leaves what its  *)
(* callers see alone.                                                      *)

\* What the callers see of p now.
LEMMA MineNow ==
  ASSUME NEW p \in Proc
  PROVE  /\ pc[p] = "idle" => absPhase[p] = "idle" /\ absAns[p] = Nil
         /\ pc[p] # "idle" => absPhase[p] # "idle"
         /\ pc[p] \in {"open", "locked", "applied", "writing", "written"} =>
              absPhase[p] = "pending" /\ absAns[p] = Nil
         /\ absPhase = [absPhase EXCEPT ![p] = absPhase[p]]
         /\ absAns = [absAns EXCEPT ![p] = absAns[p]]
  BY DEF absPhase, absAns

\* A step inside the critical section that the callers do not see.
LEMMA Unseen ==
  ASSUME NEW p \in Proc, TypeOK, NEW step,
         pc[p] \in {"open", "locked", "applied", "writing", "written"},
         step \in {"open", "locked", "applied", "writing", "written"},
         pc' = [pc EXCEPT ![p] = step],
         \A q \in Proc \ {p} : out'[q] = out[q],
         UNCHANGED <<disk, req>>
  PROVE  UNCHANGED Abs!avars
  <1>1. absPhase' = absPhase
    BY DEF absPhase, TypeOK
  <1>2. absAns' = absAns
    BY DEF absAns, TypeOK
  <1> QED
    BY <1>1, <1>2 DEF Abs!avars

\* Every step is an abstract step, or changes nothing a caller sees.
LEMMA RefineStep == IInv /\ [Next]_vars => [Abs!Next]_(Abs!avars)
  <1> SUFFICES ASSUME IInv, [Next]_vars
               PROVE  [Abs!Next]_(Abs!avars)
    OBVIOUS
  <1> USE DEF IInv
  <1>1. ASSUME NEW p \in Proc, Begin(p)
        PROVE  Abs!Invoke(p)
    <2>1. PICK r \in Requests : req' = [req EXCEPT ![p] = r]
      BY <1>1 DEF Begin
    <2>2. absAns' = absAns
      BY <1>1 DEF Begin, Goto, absAns, TypeOK
    <2>3. absPhase' = [absPhase EXCEPT ![p] = "pending"]
      BY <1>1 DEF Begin, Goto, absPhase, TypeOK
    <2> QED
      BY <1>1, <2>1, <2>2, <2>3, MineNow DEF Begin, Abs!Invoke
  <1>2. ASSUME NEW p \in Proc, LockExclusive(p)
        PROVE  UNCHANGED Abs!avars
    BY <1>2, Unseen
       DEF LockExclusive, Goto, TypeOK
  <1>3. ASSUME NEW p \in Proc, LockShared(p)
        PROVE  UNCHANGED Abs!avars
    BY <1>3, Unseen
       DEF LockShared, Goto, TypeOK
  <1>4. ASSUME NEW p \in Proc, Apply(p)
        PROVE  Abs!Perform(p) \/ UNCHANGED Abs!avars
    <2>1. PICK o \in Outcomes(disk, req[p]) :
            /\ out' = [out EXCEPT ![p] = o]
            /\ pc' = [pc EXCEPT ![p] = IF o.save THEN "applied" ELSE "renamed"]
      BY <1>4 DEF Apply, Goto
    <2>2. CASE o.save
      <3>1. \A q \in Proc \ {p} : out'[q] = out[q]
        BY <2>1 DEF TypeOK
      <3> QED
        BY <1>4, <2>1, <2>2, <3>1, Unseen DEF Apply
    <2>3. CASE ~o.save
      <3>1. absPhase' = [absPhase EXCEPT ![p] = "answered"]
        BY <1>4, <2>1, <2>3 DEF Apply, absPhase, TypeOK
      <3>2. absAns' = [absAns EXCEPT ![p] = o.ans]
        BY <1>4, <2>1, <2>3 DEF Apply, absAns, TypeOK
      <3> QED
        BY <1>4, <2>1, <2>3, <3>1, <3>2, MineNow
           DEF Apply, Abs!Perform, Abs!Answer
    <2> QED
      BY <2>2, <2>3
  <1>5. ASSUME NEW p \in Proc, TruncateTmp(p)
        PROVE  UNCHANGED Abs!avars
    BY <1>5, Unseen
       DEF TruncateTmp, Goto, TypeOK
  <1>6. ASSUME NEW p \in Proc, FillTmp(p)
        PROVE  UNCHANGED Abs!avars
    BY <1>6, Unseen
       DEF FillTmp, Goto, TypeOK
  <1>7. ASSUME NEW p \in Proc, Rename(p)
        PROVE  Abs!Perform(p)
    <2>1. /\ out[p] \in Outcomes(disk, req[p])
          /\ out[p].save
          /\ disk' = out[p].map
      BY <1>7 DEF Rename, NoLostUpdate
    <2>2. absPhase' = [absPhase EXCEPT ![p] = "answered"]
      BY <1>7 DEF Rename, Goto, absPhase, TypeOK
    <2>3. absAns' = [absAns EXCEPT ![p] = out[p].ans]
      BY <1>7 DEF Rename, Goto, absAns, TypeOK
    <2> QED
      BY <1>7, <2>1, <2>2, <2>3, MineNow DEF Rename, Abs!Perform, Abs!Answer
  <1>8. ASSUME NEW p \in Proc, Reply(p) \/ Killed(p)
        PROVE  Abs!Leave(p)
    <2>1. absPhase' = [absPhase EXCEPT ![p] = "idle"]
      BY <1>8 DEF Reply, Killed, Goto, Forget, absPhase, TypeOK
    <2>2. absAns' = [absAns EXCEPT ![p] = Nil]
      BY <1>8 DEF Reply, Killed, Goto, Forget, absAns, TypeOK
    <2> QED
      BY <1>8, <2>1, <2>2, MineNow DEF Reply, Killed, Forget, Abs!Leave
  <1>9. ASSUME NEW p \in Proc, IoError(p)
        PROVE  Abs!Fail(p)
    <2>1. absPhase' = [absPhase EXCEPT ![p] = "answered"]
      BY <1>9 DEF IoError, Goto, absPhase, TypeOK
    <2>2. absAns' = [absAns EXCEPT ![p] = ErrAns(req[p])]
      BY <1>9 DEF IoError, Goto, absAns, TypeOK
    <2> QED
      BY <1>9, <2>1, <2>2, MineNow DEF IoError, Abs!Fail, Abs!Answer
  <1>10. CASE UNCHANGED vars
    BY <1>10 DEF vars, Abs!avars, absPhase, absAns
  <1> QED
    BY <1>1, <1>2, <1>3, <1>4, <1>5, <1>6, <1>7, <1>8, <1>9, <1>10
       DEF Next, Abs!Next

\* with_exclusive and with_shared implement the atomic store: callers in any
\* number of processes see each operation happen at one instant or, on an
\* error, not at all.
THEOREM Refinement == Spec => Atomic
  <1>1. Init => Abs!Init
    BY DEF Init, Abs!Init, absPhase, absAns
  <1> QED
    BY <1>1, RefineStep, Invariance, PTL DEF Spec, Atomic, Abs!Spec
=============================================================================
