--------------------------- MODULE WarmPoolProofs ---------------------------
(***************************************************************************)
(* Proofs about WarmPool for any number of pools, VMs, processes and       *)
(* requests: its types, that no VM is ever handed out twice, that pools   *)
(* overshoot by a bounded number and, under conditions that the theorems  *)
(* name, hold Paused VMs only and lose none.                               *)
(***************************************************************************)
EXTENDS WarmPool, SequenceTheorems, FiniteSetTheorems, TLAPS

\* TypeOK is not inductive: what create_pool checked must be a pool to insert.
Inserting ==
  \A w \in Worker :
    pc[w] = "insert" => /\ spec[w].name \in Name
                        /\ spec[w].size \in 1 .. MaxSize
                        /\ spec[w].template \in 1 .. MaxTemplate

Typed == TypeOK /\ Inserting

-----------------------------------------------------------------------------
(* Sequences.                                                              *)

\* What pop_member leaves of a pool's members.
LEMMA FrontFacts ==
  ASSUME NEW S, NEW s \in Seq(S), s # << >>
  PROVE  /\ Front(s) \in Seq(S)
         /\ Len(s) \in Nat \ {0}
         /\ Len(Front(s)) = Len(s) - 1
         /\ \A i \in DOMAIN Front(s) : i \in DOMAIN s /\ Front(s)[i] = s[i]
                                       /\ i # Len(s)
         /\ Len(s) \in DOMAIN s /\ s[Len(s)] \in S
<1>1. Len(s) \in Nat \ {0} /\ DOMAIN s = 1 .. Len(s)
  BY EmptySeq, LenProperties
<1>2. s[Len(s)] \in S /\ Len(s) \in DOMAIN s
  BY <1>1, ElementOfSeq
<1>3. /\ Front(s) \in Seq(S)
      /\ Len(Front(s)) = Len(s) - 1
      /\ \A i \in 1 .. Len(s) - 1 : Front(s)[i] = s[i]
  BY <1>1, SubSeqProperties DEF Front
<1>4. DOMAIN Front(s) = 1 .. Len(s) - 1
  BY <1>1, <1>3, LenProperties
<1> QED
  BY <1>1, <1>2, <1>3, <1>4

\* What push_member leaves.
LEMMA AppendFacts ==
  ASSUME NEW S, NEW s \in Seq(S), NEW e \in S
  PROVE  /\ Append(s, e) \in Seq(S)
         /\ Len(Append(s, e)) = Len(s) + 1
         /\ \A i \in DOMAIN Append(s, e) :
              \/ i \in DOMAIN s /\ Append(s, e)[i] = s[i] /\ i # Len(s) + 1
              \/ i = Len(s) + 1 /\ Append(s, e)[i] = e
  BY AppendProperties, LenProperties

-----------------------------------------------------------------------------
(* Types.                                                                  *)

\* The initial state is well typed.
LEMMA TypedInit == Init => Typed
  BY PoolAssumption
     DEF Init, Typed, TypeOK, StoreType, SpecType, HandType, Inserting, NoSpec,
         Steps, Working, PoolRecord

\* A worker moves on with what it has in hand.
LEMMA GotoTypes ==
  ASSUME HandType, NEW w \in Worker, NEW s \in Steps, Goto(w, s), UNCHANGED hand,
         s \in Working => Len(hand[w]) = 1,
         s \notin Working \cup {"drain"} => hand[w] = << >>
  PROVE  HandType'
  BY DEF HandType, Goto

\* A worker moves on with something else in hand.
LEMMA TakeTypes ==
  ASSUME HandType, NEW w \in Worker, NEW s \in Steps, NEW h \in Seq(Vm),
         Goto(w, s), Take(w, h),
         s \in Working => Len(h) = 1,
         s \notin Working \cup {"drain"} => h = << >>
  PROVE  HandType'
  BY DEF HandType, Goto, Take

\* Inserting holds of whoever was inserting and of whoever starts to.
LEMMA GotoInserting ==
  ASSUME HandType, Inserting, NEW w \in Worker, NEW s, Goto(w, s), UNCHANGED spec, s # "insert"
  PROVE  Inserting'
  BY DEF HandType, Inserting, Goto

\* A VM's status changes.
LEMMA StatusTypes ==
  ASSUME StoreType, NEW v \in Vm,
         NEW s \in {"running", "paused", "stopped", "gone"},
         status' = [status EXCEPT ![v] = s], UNCHANGED <<pools, template, templates, claims>>
  PROVE  StoreType'
  BY DEF StoreType

\* delete, whether it succeeds or not.
LEMMA DeleteTypes ==
  ASSUME StoreType, NEW v \in Vm, Delete(v), UNCHANGED <<pools, template, templates, claims>>
  PROVE  StoreType'
  BY DEF StoreType, Delete

\* A backfill is asked for.
LEMMA AskTypes ==
  ASSUME SpecType, NEW f \in Filler, SpawnBackfill(f), UNCHANGED spec
  PROVE  SpecType'
  BY PoolAssumption DEF SpecType, SpawnBackfill, Asked

\* One VM in hand is one to use.
LEMMA InHand ==
  ASSUME HandType, NEW w \in Worker, pc[w] \in Working
  PROVE  hand[w] \in Seq(Vm) /\ Len(hand[w]) = 1 /\ 1 \in DOMAIN hand[w] /\ hand[w][1] \in Vm
         /\ hand[w] = <<hand[w][1]>>
<1>1. hand[w] \in Seq(Vm) /\ Len(hand[w]) = 1
  BY DEF HandType
<1> QED
  BY <1>1, LenProperties, ElementOfSeq

\* Every step keeps the types.
LEMMA TypedNext == Typed /\ [Next]_vars => Typed'
<1> SUFFICES ASSUME Typed, [Next]_vars PROVE Typed'
  OBVIOUS
<1> USE DEF Typed, TypeOK
<1>0. << >> \in Seq(Vm) /\ \A v \in Vm : <<v>> \in Seq(Vm) /\ Len(<<v>>) = 1
  OBVIOUS
<1>1. ASSUME NEW c \in Client, NEW n \in Name, CreatePool(c, n)
      PROVE  Typed'
  <2>1. c \in Worker
    BY DEF Worker
  <2>2. HandType'
    BY <1>1, <2>1, GotoTypes DEF CreatePool, HandType, Steps, Working
  <2>3. PICK size \in 1 .. MaxSize :
          spec' = [spec EXCEPT ![c] = [name |-> n, size |-> size,
                                       template |-> templates + 1]]
    BY <1>1 DEF CreatePool
  <2>4. templates + 1 \in 1 .. MaxTemplate /\ size \in 0 .. MaxSize
    BY <1>1, PoolAssumption DEF CreatePool, StoreType
  <2>5. [name |-> n, size |-> size, template |-> templates + 1] \in
          [name : Name \cup {NoPool}, size : 0 .. MaxSize, template : 0 .. MaxTemplate]
    BY <2>4
  <2>6. SpecType'
    BY <1>1, <2>1, <2>3, <2>5 DEF CreatePool, SpecType
  <2>7. Inserting'
    BY <1>1, <2>1, <2>3, <2>4 DEF CreatePool, Inserting, SpecType, HandType, Goto
  <2> QED
    BY <1>1, <2>2, <2>4, <2>6, <2>7 DEF CreatePool, StoreType
<1>2. ASSUME NEW c \in Client, InsertPool(c)
      PROVE  Typed'
  <2>1. c \in Worker
    BY DEF Worker
  <2> DEFINE n == spec[c].name
             rec == [size |-> spec[c].size, template |-> spec[c].template, members |-> << >>]
  <2>2. n \in Name /\ rec \in PoolRecord /\ <<Home[c], n>> \in Filler
    BY <1>2, <1>0, <2>1, PoolAssumption DEF InsertPool, Inserting, PoolRecord, Filler
  <2>3. StoreType'
    BY <1>2, <2>2 DEF InsertPool, StoreType
  <2>4. HandType'
    BY <1>2, <2>1, GotoTypes DEF InsertPool, HandType, Steps, Working
  <2>5. SpecType'
    BY <1>2, <2>1, <2>2, PoolAssumption
       DEF InsertPool, SpecType, SpawnBackfill, Asked, NoSpec
  <2>6. Inserting'
    BY <1>2, <2>1 DEF InsertPool, Inserting, SpecType, HandType, Goto
  <2> QED
    BY <2>3, <2>4, <2>5, <2>6
<1>3. ASSUME NEW c \in Client, NEW n \in Name, DeletePool(c, n)
      PROVE  Typed'
  <2>1. c \in Worker
    BY DEF Worker
  <2>2. pools[n].members \in Seq(Vm)
    BY <1>3 DEF DeletePool, StoreType, PoolRecord, Live
  <2>3. HandType'
    BY <1>3, <2>1, <2>2, TakeTypes DEF DeletePool, Steps, Working
  <2>4. Inserting'
    BY <1>3, <2>1, GotoInserting DEF DeletePool
  <2> QED
    BY <1>3, <2>3, <2>4 DEF DeletePool, StoreType, SpecType
<1>4. ASSUME NEW c \in Client, Drain(c)
      PROVE  Typed'
  <2>1. c \in Worker /\ hand[c] \in Seq(Vm)
    BY DEF Worker, HandType
  <2>2. CASE hand[c] = << >>
    <3>1. HandType' /\ Inserting'
      BY <1>4, <2>1, <2>2, GotoTypes, GotoInserting DEF Drain, Steps, Working
    <3> QED
      BY <1>4, <2>2, <3>1 DEF Drain, StoreType, SpecType
  <2>3. CASE hand[c] # << >>
    <3>1. Front(hand[c]) \in Seq(Vm) /\ hand[c][Len(hand[c])] \in Vm
      BY <2>1, <2>3, FrontFacts
    <3>2. StoreType'
      BY <1>4, <2>3, <3>1, DeleteTypes DEF Drain
    <3>3. HandType'
      BY <1>4, <2>1, <2>3, <3>1 DEF Drain, HandType, Take, Working
    <3> QED
      BY <1>4, <2>3, <3>2, <3>3 DEF Drain, SpecType, Inserting
  <2> QED
    BY <2>2, <2>3
<1>5. ASSUME NEW c \in Client, NEW n \in Name, Claim(c, n)
      PROVE  Typed'
  <2>1. c \in Worker /\ <<Home[c], n>> \in Filler
    BY PoolAssumption DEF Worker, Filler
  <2> DEFINE ms == pools[n].members
  <2>2. pools[n] \in PoolRecord /\ ms \in Seq(Vm) /\ ms # << >>
    BY <1>5 DEF Claim, PoolRecord, StoreType, Live
  <2>3. Front(ms) \in Seq(Vm) /\ ms[Len(ms)] \in Vm
    BY <2>2, FrontFacts
  <2>4. [pools[n] EXCEPT !.members = Front(ms)] \in PoolRecord
    BY <2>2, <2>3 DEF PoolRecord
  <2>5. pools' = [pools EXCEPT ![n] = [pools[n] EXCEPT !.members = Front(ms)]]
    BY <1>5, <2>2 DEF Claim
  <2>6. StoreType'
    BY <1>5, <2>4, <2>5 DEF StoreType, Claim
  <2>7. HandType'
    BY <1>0, <1>5, <2>1, <2>3, TakeTypes DEF Claim, Steps, Working
  <2>8. SpecType'
    BY <1>5, <2>1, AskTypes DEF Claim
  <2>9. Inserting'
    BY <1>5, <2>1, GotoInserting DEF Claim
  <2> QED
    BY <2>6, <2>7, <2>8, <2>9
<1>6. ASSUME NEW c \in Client, Resume(c)
      PROVE  Typed'
  <2>1. c \in Worker
    BY DEF Worker
  <2>2. Len(hand[c]) = 1 /\ hand[c][1] \in Vm
    BY <1>6, <2>1, InHand DEF Resume, Working
  <2>3. PICK s \in {"return", "drop"} : Goto(c, s)
    BY <1>6 DEF Resume
  <2>4. HandType' /\ Inserting'
    BY <1>6, <2>1, <2>2, <2>3, GotoTypes, GotoInserting DEF Resume, Steps, Working
  <2>5. StoreType'
    BY <1>6, <2>2, StatusTypes DEF Resume, StoreType
  <2> QED
    BY <1>6, <2>4, <2>5 DEF Resume, SpecType
<1>7. ASSUME NEW c \in Client, Return(c)
      PROVE  Typed'
  <2>1. c \in Worker
    BY DEF Worker
  <2>2. hand[c][1] \in Vm
    BY <1>7, <2>1, InHand DEF Return, Working
  <2>3. HandType' /\ Inserting'
    BY <1>0, <1>7, <2>1, TakeTypes, GotoInserting DEF Return, Steps, Working
  <2>4. StoreType'
    BY <1>7, <2>2 DEF Return, StoreType
  <2> QED
    BY <1>7, <2>3, <2>4 DEF Return, SpecType
<1>8. ASSUME NEW w \in Worker, Drop(w)
      PROVE  Typed'
  <2>1. hand[w][1] \in Vm
    BY <1>8, InHand DEF Drop, Working
  <2>2. HandType' /\ Inserting'
    BY <1>0, <1>8, TakeTypes, GotoInserting DEF Drop, Steps, Working
  <2>3. StoreType'
    BY <1>8, <2>1, DeleteTypes DEF Drop
  <2> QED
    BY <1>8, <2>2, <2>3 DEF Drop, SpecType
<1>9. ASSUME NEW f \in Filler, LockFill(f)
      PROVE  Typed'
  <2>1. f \in Worker
    BY DEF Worker
  <2>2. HandType' /\ Inserting'
    BY <1>9, <2>1, GotoTypes, GotoInserting DEF LockFill, HandType, Steps, Working
  <2>3. SpecType'
    BY <1>9, PoolAssumption DEF LockFill, SpecType
  <2> QED
    BY <1>9, <2>2, <2>3 DEF LockFill, StoreType
<1>10. ASSUME NEW f \in Filler, CheckPool(f)
      PROVE  Typed'
  <2>1. f \in Worker /\ f[2] \in Name
    BY DEF Worker, Filler
  <2>2. PICK s \in {"create", "idle"} : Goto(f, s)
    BY <1>10 DEF CheckPool
  <2>3. HandType'
    BY <1>10, <2>1, <2>2, GotoTypes DEF CheckPool, HandType, Steps, Working
  <2>4. CASE Short(f[2])
    <3>1. pools[f[2]].template \in 0 .. MaxTemplate
      BY <2>1, <2>4, PoolAssumption DEF StoreType, Short, Live, PoolRecord
    <3>2. spec' = [spec EXCEPT ![f] = [spec[f] EXCEPT !.template = pools[f[2]].template]]
      BY <1>10, <2>4 DEF CheckPool
    <3>3. SpecType'
      BY <1>10, <2>1, <3>1, <3>2 DEF CheckPool, SpecType
    <3>4. Inserting'
      BY <1>10, <2>1, <2>2, <3>2 DEF CheckPool, SpecType, HandType, Inserting, Goto
    <3> QED
      BY <1>10, <2>3, <3>3, <3>4 DEF CheckPool, StoreType
  <2>5. CASE ~Short(f[2])
    BY <1>10, <2>1, <2>2, <2>3, <2>5, GotoInserting DEF CheckPool, SpecType, StoreType
  <2> QED
    BY <2>4, <2>5
<1>11. ASSUME NEW f \in Filler, CreateMember(f)
      PROVE  Typed'
  <2>1. f \in Worker
    BY DEF Worker
  <2>2. PICK v \in Vm : /\ status' = [status EXCEPT ![v] = "running"]
                        /\ template' = [template EXCEPT ![v] = spec[f].template]
                        /\ Take(f, <<v>>)
    BY <1>11 DEF CreateMember
  <2>3. HandType' /\ Inserting'
    BY <1>0, <1>11, <2>1, <2>2, TakeTypes, GotoInserting DEF CreateMember, Steps, Working
  <2>4. StoreType'
    BY <1>11, <2>1, <2>2 DEF CreateMember, StoreType, SpecType
  <2> QED
    BY <1>11, <2>3, <2>4 DEF CreateMember, SpecType
<1>12. ASSUME NEW f \in Filler, CreateFails(f)
      PROVE  Typed'
  <2>1. f \in Worker
    BY DEF Worker
  <2>2. HandType' /\ Inserting'
    BY <1>12, <2>1, GotoTypes, GotoInserting DEF CreateFails, HandType, Steps, Working
  <2> QED
    BY <1>12, <2>2 DEF CreateFails, StoreType, SpecType
<1>13. ASSUME NEW f \in Filler, AwaitAgent(f)
      PROVE  Typed'
  <2>1. f \in Worker
    BY DEF Worker
  <2>2. PICK s \in {"pause", "drop"} : Goto(f, s)
    BY <1>13 DEF AwaitAgent
  <2>3. HandType' /\ Inserting'
    BY <1>13, <2>1, <2>2, InHand, GotoTypes, GotoInserting DEF AwaitAgent, Steps, Working
  <2> QED
    BY <1>13, <2>3 DEF AwaitAgent, StoreType, SpecType
<1>14. ASSUME NEW f \in Filler, PauseMember(f)
      PROVE  Typed'
  <2>1. f \in Worker
    BY DEF Worker
  <2>2. Len(hand[f]) = 1 /\ hand[f][1] \in Vm
    BY <1>14, <2>1, InHand DEF PauseMember, Working
  <2>3. PICK s \in {"push", "drop"} : Goto(f, s)
    BY <1>14 DEF PauseMember
  <2>4. HandType' /\ Inserting'
    BY <1>14, <2>1, <2>2, <2>3, GotoTypes, GotoInserting DEF PauseMember, Steps, Working
  <2>5. StoreType'
    BY <1>14, <2>2, StatusTypes DEF PauseMember, StoreType
  <2> QED
    BY <1>14, <2>4, <2>5 DEF PauseMember, SpecType
<1>15. ASSUME NEW f \in Filler, PushMember(f)
      PROVE  Typed'
  <2> DEFINE n == f[2]
  <2>1. f \in Worker /\ n \in Name
    BY DEF Worker, Filler
  <2>2. Len(hand[f]) = 1 /\ hand[f][1] \in Vm
    BY <1>15, <2>1, InHand DEF PushMember, Working
  <2>3. CASE Live(n)
    <3>1. pools[n] \in PoolRecord /\ pools[n].members \in Seq(Vm)
      BY <2>1, <2>3 DEF PoolRecord, Live, StoreType
    <3>2. [pools[n] EXCEPT !.members = Append(pools[n].members, hand[f][1])] \in PoolRecord
      BY <3>1, <2>2, AppendFacts DEF PoolRecord
    <3>3. pools' = [pools EXCEPT ![n] =
                      [pools[n] EXCEPT !.members = Append(pools[n].members, hand[f][1])]]
      BY <1>15, <2>3, <3>1 DEF PushMember
    <3>4. StoreType'
      BY <1>15, <3>2, <3>3 DEF PushMember, StoreType
    <3>5. HandType' /\ Inserting'
      BY <1>0, <1>15, <2>1, <2>3, TakeTypes, GotoInserting DEF PushMember, Steps, Working
    <3> QED
      BY <1>15, <3>4, <3>5 DEF PushMember, SpecType
  <2>4. CASE ~Live(n)
    <3>1. HandType' /\ Inserting'
      BY <1>15, <2>1, <2>2, <2>4, GotoTypes, GotoInserting DEF PushMember, Steps, Working
    <3> QED
      BY <1>15, <2>4, <3>1 DEF PushMember, SpecType, StoreType
  <2> QED
    BY <2>3, <2>4
<1>16. ASSUME NEW p \in Proc, Tick(p)
      PROVE  Typed'
  <2>1. SpecType'
    BY <1>16, PoolAssumption DEF Tick, SpecType, Asked
  <2> QED
    BY <1>16, <2>1 DEF Tick, StoreType, HandType, Inserting
<1>17. ASSUME NEW p \in Proc, ProcessEnds(p)
      PROVE  Typed'
  <2>1. SpecType'
    BY <1>17, PoolAssumption DEF ProcessEnds, SpecType, NoSpec
  <2>2. HandType'
    BY <1>0, <1>17 DEF ProcessEnds, HandType, Steps, Working
  <2>3. Inserting'
    BY <1>17 DEF ProcessEnds, Inserting, NoSpec
  <2> QED
    BY <1>17, <2>1, <2>2, <2>3 DEF ProcessEnds, StoreType
<1>18. ASSUME NEW v \in Vm, Meddle(v)
      PROVE  Typed'
  <2>1. StoreType'
    BY <1>18, StatusTypes DEF Meddle
  <2> QED
    BY <1>18, <2>1 DEF Meddle, HandType, SpecType, Inserting
<1>19. CASE UNCHANGED vars
  BY <1>19 DEF vars, StoreType, HandType, SpecType, Inserting
<1>20. ASSUME NEW w \in Worker, StoreFails(w)
      PROVE  Typed'
  <2>1. SpecType'
    BY <1>20, PoolAssumption DEF StoreFails, SpecType, NoSpec
  <2>2. HandType'
    BY <1>0, <1>20, TakeTypes DEF StoreFails, Steps, Working
  <2>3. Inserting'
    BY <1>0, <1>20 DEF StoreFails, Goto, Inserting, HandType
  <2> QED
    BY <1>20, <2>1, <2>2, <2>3 DEF StoreFails, StoreType
<1> QED
  BY <1>1, <1>2, <1>3, <1>4, <1>5, <1>6, <1>7, <1>8, <1>9, <1>10, <1>11, <1>12,
     <1>13, <1>14, <1>15, <1>16, <1>17, <1>18, <1>19, <1>20
     DEF Next, Request, Fill, Worker

\* TypeOK is an invariant: in particular a worker that uses hand[w][1] has a
\* VM in hand, so no claim resumes, and no backfill pushes, nothing.
THEOREM PoolTyping == Spec => []TypeOK
<1>1. Typed => TypeOK
  BY DEF Typed
<1> QED
  BY <1>1, TypedInit, TypedNext, PTL DEF Spec

-----------------------------------------------------------------------------
(* No VM is handed out twice.  ClaimedOnce is not inductive: a backfill     *)
(* must not create again a VM that some place holds or somebody claimed.    *)

\* h[x] are the VMs that place x holds, cl and st their claims and statuses.
Sound(h, cl, st) ==
  /\ \A x, y \in Place : \A i \in DOMAIN h[x], j \in DOMAIN h[y] :
       h[x][i] = h[y][j] => x = y /\ i = j
  /\ \A x \in Place : \A i \in DOMAIN h[x] :
       cl[h[x][i]] = 0 /\ st[h[x][i]] # "new"
  /\ \A v \in Vm : cl[v] <= 1 /\ (cl[v] > 0 => st[v] # "new")

Contents == [x \in Place |-> Held(x)]

HandedOutOnce == Sound(Contents, claims, status)

\* HandedOutOnce is the stronger.
LEMMA HandedOutOnceSuffices == HandedOutOnce => ClaimedOnce
<1>1. \A x \in Place : Contents[x] = Held(x)
  BY DEF Contents
<1> QED
  BY <1>1 DEF HandedOutOnce, Sound, ClaimedOnce

\* Places may let go of what they hold, and statuses change.
LEMMA LettingGo ==
  ASSUME NEW h, NEW g, NEW cl, NEW st, NEW st2, Sound(h, cl, st),
         \A x \in Place : g[x] = h[x] \/ g[x] = << >>,
         \A x \in Place : \A i \in DOMAIN h[x] : h[x][i] \in Vm,
         \A v \in Vm : st[v] # "new" => st2[v] # "new"
  PROVE  Sound(g, cl, st2)
<1>1. \A x \in Place : \A i \in DOMAIN g[x] : g[x] = h[x]
  <2> SUFFICES ASSUME NEW x \in Place, NEW i \in DOMAIN g[x], g[x] = << >> PROVE FALSE
    OBVIOUS
  <2> QED
    OBVIOUS
<1> QED
  BY <1>1 DEF Sound

\* A place may let go of the last VM it holds.
LEMMA LettingLastGo ==
  ASSUME NEW h, NEW g, NEW cl, NEW st, NEW st2, Sound(h, cl, st),
         NEW a \in Place, h[a] \in Seq(Vm), h[a] # << >>,
         g[a] = Front(h[a]), \A x \in Place \ {a} : g[x] = h[x],
         \A x \in Place : \A i \in DOMAIN h[x] : h[x][i] \in Vm,
         \A v \in Vm : st[v] # "new" => st2[v] # "new"
  PROVE  Sound(g, cl, st2)
<1>1. \A i \in DOMAIN g[a] : i \in DOMAIN h[a] /\ g[a][i] = h[a][i]
  BY FrontFacts
<1>2. \A x \in Place : \A i \in DOMAIN g[x] : i \in DOMAIN h[x] /\ g[x][i] = h[x][i]
  BY <1>1
<1> QED
  BY <1>2 DEF Sound

\* An empty place may take all that another holds.
LEMMA TakingAll ==
  ASSUME NEW h, NEW g, NEW cl, NEW st, Sound(h, cl, st),
         NEW a \in Place, NEW b \in Place, a # b,
         g[a] = << >>, g[b] = h[a], \A x \in Place \ {a, b} : g[x] = h[x]
  PROVE  Sound(g, cl, st)
<1> DEFINE from(x) == IF x = b THEN a ELSE x
<1>1. \A x \in Place : \A i \in DOMAIN g[x] :
        x # a /\ i \in DOMAIN h[from(x)] /\ g[x][i] = h[from(x)][i]
  <2>1. DOMAIN g[a] = {}
    OBVIOUS
  <2> QED
    BY <2>1
<1>2. \A x, y \in Place \ {a} : from(x) \in Place /\ (from(x) = from(y) => x = y)
  OBVIOUS
<1> HIDE DEF from
<1> QED
  BY <1>1, <1>2 DEF Sound

\* An empty place may take the last VM that another holds.
LEMMA TakingLast ==
  ASSUME NEW h, NEW g, NEW cl, NEW st, Sound(h, cl, st),
         NEW a \in Place, NEW b \in Place, a # b, h[a] \in Seq(Vm), h[a] # << >>,
         g[a] = Front(h[a]), g[b] = <<h[a][Len(h[a])]>>,
         \A x \in Place \ {a, b} : g[x] = h[x]
  PROVE  Sound(g, cl, st)
<1> DEFINE from(x) == IF x = b THEN a ELSE x
           at(x, i) == IF x = b THEN Len(h[a]) ELSE i
<1>1. \A i \in DOMAIN g[a] : i \in DOMAIN h[a] /\ g[a][i] = h[a][i] /\ i # Len(h[a])
  BY FrontFacts
<1>2. \A i \in DOMAIN g[b] : i = 1 /\ g[b][i] = h[a][Len(h[a])] /\ Len(h[a]) \in DOMAIN h[a]
  BY FrontFacts
<1>3. \A x \in Place : \A i \in DOMAIN g[x] :
        from(x) \in Place /\ at(x, i) \in DOMAIN h[from(x)] /\ g[x][i] = h[from(x)][at(x, i)]
  BY <1>1, <1>2
<1>4. \A x, y \in Place : \A i \in DOMAIN g[x], j \in DOMAIN g[y] :
        from(x) = from(y) /\ at(x, i) = at(y, j) => x = y /\ i = j
  BY <1>1, <1>2
<1> HIDE DEF from, at
<1> QED
  BY <1>3, <1>4 DEF Sound

\* A place may append the one VM that another holds.
LEMMA Appending ==
  ASSUME NEW h, NEW g, NEW cl, NEW st, Sound(h, cl, st),
         NEW a \in Place, NEW b \in Place, a # b, h[a] \in Seq(Vm),
         NEW e \in Vm, h[b] = <<e>>,
         g[a] = Append(h[a], e), g[b] = << >>, \A x \in Place \ {a, b} : g[x] = h[x]
  PROVE  Sound(g, cl, st)
<1> DEFINE moved(x, i) == x = a /\ i = Len(h[a]) + 1
           from(x, i) == IF moved(x, i) THEN b ELSE x
           at(x, i) == IF moved(x, i) THEN 1 ELSE i
<1>0. 1 \in DOMAIN h[b] /\ h[b][1] = e /\ DOMAIN g[b] = {}
  OBVIOUS
<1>1. \A i \in DOMAIN g[a] : \/ i \in DOMAIN h[a] /\ g[a][i] = h[a][i] /\ i # Len(h[a]) + 1
                             \/ i = Len(h[a]) + 1 /\ g[a][i] = e
  BY AppendFacts
<1>3. \A x \in Place : \A i \in DOMAIN g[x] :
        /\ x # b
        /\ from(x, i) \in Place
        /\ at(x, i) \in DOMAIN h[from(x, i)]
        /\ g[x][i] = h[from(x, i)][at(x, i)]
  BY <1>0, <1>1
<1>4. \A x, y \in Place : \A i \in DOMAIN g[x], j \in DOMAIN g[y] :
        from(x, i) = from(y, j) /\ at(x, i) = at(y, j) => x = y /\ i = j
  BY <1>1, <1>3
<1> HIDE DEF moved, from, at
<1>5. \A x, y \in Place : \A i \in DOMAIN g[x], j \in DOMAIN g[y] :
        g[x][i] = g[y][j] => x = y /\ i = j
  <2> SUFFICES ASSUME NEW x \in Place, NEW y \in Place,
                      NEW i \in DOMAIN g[x], NEW j \in DOMAIN g[y], g[x][i] = g[y][j]
               PROVE  x = y /\ i = j
    OBVIOUS
  <2>1. h[from(x, i)][at(x, i)] = h[from(y, j)][at(y, j)]
    BY <1>3
  <2>2. from(x, i) = from(y, j) /\ at(x, i) = at(y, j)
    BY <1>3, <2>1 DEF Sound
  <2> QED
    BY <1>4, <2>2
<1>6. \A x \in Place : \A i \in DOMAIN g[x] : cl[g[x][i]] = 0 /\ st[g[x][i]] # "new"
  BY <1>3 DEF Sound
<1> QED
  BY <1>5, <1>6 DEF Sound

\* An empty place may take a new VM.
LEMMA TakingNew ==
  ASSUME NEW h, NEW g, NEW cl, NEW st, NEW st2, Sound(h, cl, st),
         NEW a \in Place, NEW v \in Vm, st[v] = "new", cl[v] \in Nat,
         st2[v] = "running", \A w \in Vm \ {v} : st2[w] = st[w],
         \A x \in Place : \A i \in DOMAIN h[x] : h[x][i] \in Vm,
         g[a] = <<v>>, \A x \in Place \ {a} : g[x] = h[x]
  PROVE  Sound(g, cl, st2)
<1>1. \A i \in DOMAIN g[a] : i = 1 /\ g[a][i] = v
  OBVIOUS
<1>2. \A x \in Place \ {a} : \A i \in DOMAIN g[x] : i \in DOMAIN h[x] /\ g[x][i] = h[x][i] /\ g[x][i] # v
  BY DEF Sound
<1>3. cl[v] = 0
  BY DEF Sound
<1>4. \A w \in Vm : st2[w] = "new" => st[w] = "new" /\ w # v
  OBVIOUS
<1> QED
  BY <1>1, <1>2, <1>3, <1>4 DEF Sound

\* A place may hand out the one VM it holds.
LEMMA HandingOut ==
  ASSUME NEW h, NEW g, NEW cl, NEW cl2, NEW st, NEW st2, Sound(h, cl, st),
         NEW a \in Place, NEW v \in Vm, h[a] = <<v>>, g[a] = << >>,
         cl2[v] = cl[v] + 1, \A w \in Vm \ {v} : cl2[w] = cl[w],
         \A x \in Place : \A i \in DOMAIN h[x] : h[x][i] \in Vm,
         \A w \in Vm : st[w] # "new" => st2[w] # "new",
         \A x \in Place \ {a} : g[x] = h[x]
  PROVE  Sound(g, cl2, st2)
<1>1. 1 \in DOMAIN h[a] /\ h[a][1] = v /\ DOMAIN g[a] = {}
  OBVIOUS
<1>2. cl[v] = 0 /\ st[v] # "new"
  BY <1>1 DEF Sound
<1>3. \A x \in Place : \A i \in DOMAIN g[x] :
        x # a /\ i \in DOMAIN h[x] /\ g[x][i] = h[x][i] /\ g[x][i] # v
  BY <1>1 DEF Sound
<1> QED
  BY <1>2, <1>3 DEF Sound

-----------------------------------------------------------------------------

\* At first no place holds a VM.
LEMMA HandedOutOnceInit == Init => HandedOutOnce
<1> SUFFICES ASSUME Init PROVE HandedOutOnce
  OBVIOUS
<1>1. \A x \in Place : Contents[x] = << >>
  BY DEF Init, Contents, Held, Place, Live
<1>2. \A x \in Place : DOMAIN Contents[x] = {}
  BY <1>1
<1> QED
  BY <1>2 DEF Init, HandedOutOnce, Sound

\* What the places hold, by kind of place.
LEMMA ContentsFacts ==
  ASSUME Typed
  PROVE  /\ \A n \in Name : n \in Place /\ n \notin Worker
         /\ \A w \in Worker : w \in Place /\ w \notin Name
         /\ \A n \in Name : Live(n) => Contents[n] = pools[n].members
         /\ \A n \in Name : ~Live(n) => Contents[n] = << >>
         /\ \A w \in Worker : Contents[w] = hand[w]
         /\ \A x \in Place : Contents[x] \in Seq(Vm)
         /\ \A x \in Place : \A i \in DOMAIN Contents[x] : Contents[x][i] \in Vm
<1>1. /\ \A n \in Name : n \in Place /\ n \notin Worker
      /\ \A w \in Worker : w \in Place /\ w \notin Name
  BY PoolAssumption DEF Place
<1>2. /\ \A n \in Name : Live(n) => Contents[n] = pools[n].members
      /\ \A n \in Name : ~Live(n) => Contents[n] = << >>
      /\ \A w \in Worker : Contents[w] = hand[w]
  BY <1>1 DEF Contents, Held
<1>3. \A x \in Place : Contents[x] \in Seq(Vm)
  <2> SUFFICES ASSUME NEW x \in Place PROVE Contents[x] \in Seq(Vm)
    OBVIOUS
  <2>1. CASE x \in Name
    <3>1. CASE Live(x)
      <4>0. pools[x] \in PoolRecord
        BY <2>1, <3>1 DEF Typed, TypeOK, StoreType, Live
      <4>1. pools[x].members \in Seq(Vm)
        BY <4>0 DEF PoolRecord
      <4> QED
        BY <1>2, <2>1, <3>1, <4>1
    <3>2. CASE ~Live(x)
      <4>1. << >> \in Seq(Vm)
        OBVIOUS
      <4> QED
        BY <1>2, <2>1, <3>2, <4>1
    <3> QED
      BY <3>1, <3>2
  <2>2. CASE x \in Worker
    BY <1>2, <2>2 DEF Typed, TypeOK, HandType
  <2> QED
    BY <2>1, <2>2 DEF Place
<1>4. \A x \in Place : \A i \in DOMAIN Contents[x] : Contents[x][i] \in Vm
  BY <1>3, LenProperties, ElementOfSeq
<1> QED
  BY <1>1, <1>2, <1>3, <1>4

\* What the places hold after a step.
LEMMA ContentsNext ==
  ASSUME Typed
  PROVE  /\ \A n \in Name : pools'[n] # NoPool => Contents'[n] = pools'[n].members
         /\ \A n \in Name : pools'[n] = NoPool => Contents'[n] = << >>
         /\ \A w \in Worker : Contents'[w] = hand'[w]
         /\ \A n \in Name : pools'[n] = pools[n] => Contents'[n] = Contents[n]
         /\ \A w \in Worker : hand'[w] = hand[w] => Contents'[w] = Contents[w]
  BY ContentsFacts DEF Contents, Held, Live, Place

\* Steps that leave every place and every claim alone, and revive no VM.
LEMMA NothingMoves ==
  ASSUME Typed, HandedOutOnce, UNCHANGED <<pools, hand, claims>>,
         \A v \in Vm : status[v] # "new" => status'[v] # "new"
  PROVE  HandedOutOnce'
<1>1. \A x \in Place : Contents'[x] = Contents[x]
  BY ContentsNext DEF Place
<1>2. Sound(Contents', claims, status')
  BY <1>1, ContentsFacts, LettingGo DEF HandedOutOnce
<1> QED
  BY <1>2 DEF HandedOutOnce

\* Every step keeps a VM in one place, and out of all of them once claimed.
LEMMA HandedOutOnceNext == Typed /\ HandedOutOnce /\ [Next]_vars => HandedOutOnce'
<1> SUFFICES ASSUME Typed, HandedOutOnce, [Next]_vars PROVE HandedOutOnce'
  OBVIOUS
<1> USE ContentsFacts, ContentsNext
<1>0. /\ pools \in [Name -> PoolRecord \cup {NoPool}]
      /\ status \in [Vm -> {"new", "running", "paused", "stopped", "gone"}]
      /\ claims \in [Vm -> Nat]
      /\ hand \in [Worker -> Seq(Vm)]
  BY DEF Typed, TypeOK, StoreType, HandType
<1>a. ASSUME NEW v \in Vm, Delete(v)
      PROVE  \A u \in Vm : status[u] # "new" => status'[u] # "new"
  BY <1>0, <1>a DEF Delete
<1>1. ASSUME NEW c \in Client, NEW n \in Name, CreatePool(c, n)
      PROVE  HandedOutOnce'
  BY <1>1, NothingMoves DEF CreatePool
<1>2. ASSUME NEW c \in Client, InsertPool(c)
      PROVE  HandedOutOnce'
  <2>1. \A x \in Name : Contents'[x] = Contents[x] \/ Contents'[x] = << >>
    <3>1. c \in Worker /\ spec[c].name \in Name
      BY <1>2 DEF Worker, Typed, Inserting, InsertPool
    <3>2. \A x \in Name \ {spec[c].name} : pools'[x] = pools[x]
      BY <1>0, <1>2 DEF InsertPool
    <3>3. pools'[spec[c].name].members = << >>
      BY <1>0, <1>2, <3>1 DEF InsertPool
    <3> QED
      BY <3>1, <3>2, <3>3
  <2>2. \A x \in Worker : Contents'[x] = Contents[x]
    BY <1>2 DEF InsertPool
  <2>3. \A x \in Place : Contents'[x] = Contents[x] \/ Contents'[x] = << >>
    BY <2>1, <2>2 DEF Place
  <2>4. Sound(Contents', claims, status)
    BY <2>3, LettingGo DEF HandedOutOnce
  <2> QED
    BY <1>2, <2>4 DEF HandedOutOnce, InsertPool
<1>3. ASSUME NEW c \in Client, NEW n \in Name, DeletePool(c, n)
      PROVE  HandedOutOnce'
  <2>1. c \in Worker /\ c \in Place /\ n \in Place /\ c # n
    BY DEF Worker
  <2>2. /\ pools'[n] = NoPool /\ hand'[c] = pools[n].members
        /\ \A x \in Name \ {n} : pools'[x] = pools[x]
        /\ \A x \in Worker \ {c} : hand'[x] = hand[x]
    BY <1>0, <1>3, <2>1 DEF DeletePool, Take
  <2>3. /\ Contents'[n] = << >> /\ Contents'[c] = Contents[n]
        /\ \A x \in Place \ {n, c} : Contents'[x] = Contents[x]
    BY <1>3, <2>1, <2>2 DEF DeletePool, Place
  <2>4. Sound(Contents', claims, status)
    BY <2>1, <2>3, TakingAll DEF HandedOutOnce
  <2> QED
    BY <1>3, <2>4 DEF HandedOutOnce, DeletePool
<1>4. ASSUME NEW c \in Client, Drain(c)
      PROVE  HandedOutOnce'
  <2>1. c \in Worker /\ c \in Place
    BY DEF Worker
  <2>2. CASE hand[c] = << >>
    BY <1>4, <2>2, NothingMoves DEF Drain
  <2>3. CASE hand[c] # << >>
    <3>1. hand[c] \in Seq(Vm) /\ hand[c][Len(hand[c])] \in Vm
      BY <1>0, <2>1, <2>3, FrontFacts
    <3>2. /\ hand'[c] = Front(hand[c])
          /\ \A x \in Worker \ {c} : hand'[x] = hand[x]
      BY <1>0, <1>4, <2>1, <2>3 DEF Drain, Take
    <3>3. /\ Contents'[c] = Front(Contents[c])
          /\ \A x \in Place \ {c} : Contents'[x] = Contents[x]
      BY <1>4, <2>1, <3>2 DEF Drain, Place
    <3>4. \A u \in Vm : status[u] # "new" => status'[u] # "new"
      BY <1>a, <1>4, <2>3, <3>1 DEF Drain
    <3>5. Sound(Contents', claims, status')
      BY <2>1, <2>3, <3>1, <3>3, <3>4, LettingLastGo DEF HandedOutOnce
    <3> QED
      BY <1>4, <3>5 DEF HandedOutOnce, Drain
  <2> QED
    BY <2>2, <2>3
<1>5. ASSUME NEW c \in Client, NEW n \in Name, Claim(c, n)
      PROVE  HandedOutOnce'
  <2>1. c \in Worker /\ c \in Place /\ n \in Place /\ c # n
    BY DEF Worker
  <2> DEFINE ms == pools[n].members
  <2>2. Live(n) /\ ms # << >> /\ Contents[n] = ms /\ ms \in Seq(Vm)
    BY <1>5, <2>1 DEF Claim
  <2>3. /\ pools[n] \in PoolRecord
        /\ pools' = [pools EXCEPT ![n] = [pools[n] EXCEPT !.members = Front(ms)]]
    BY <1>0, <1>5, <2>2 DEF Claim, Live
  <2>4. pools'[n] = [pools[n] EXCEPT !.members = Front(ms)]
    BY <1>0, <2>3
  <2>5. [pools[n] EXCEPT !.members = Front(ms)] \in PoolRecord
    BY <2>2, <2>3, FrontFacts DEF PoolRecord
  <2>6. pools'[n] # NoPool /\ pools'[n].members = Front(ms)
    BY <2>3, <2>4, <2>5, NoPoolAssumption DEF PoolRecord
  <2>7. /\ hand'[c] = <<ms[Len(ms)]>>
        /\ \A x \in Name \ {n} : pools'[x] = pools[x]
        /\ \A x \in Worker \ {c} : hand'[x] = hand[x]
    BY <1>0, <1>5, <2>1, <2>3 DEF Claim, Take
  <2>8. /\ Contents'[n] = Front(Contents[n])
        /\ Contents'[c] = <<Contents[n][Len(Contents[n])]>>
        /\ \A x \in Place \ {n, c} : Contents'[x] = Contents[x]
    BY <2>1, <2>2, <2>6, <2>7 DEF Place
  <2>9. Sound(Contents', claims, status)
    BY <2>1, <2>2, <2>8, TakingLast DEF HandedOutOnce
  <2> QED
    BY <1>5, <2>9 DEF HandedOutOnce, Claim
<1>6. ASSUME NEW c \in Client, Resume(c)
      PROVE  HandedOutOnce'
  <2>1. hand[c][1] \in Vm
    BY <1>6, InHand DEF Resume, Worker, Working, Typed, TypeOK
  <2>2. \A u \in Vm : status[u] # "new" => status'[u] # "new"
    BY <1>0, <1>6, <2>1 DEF Resume
  <2> QED
    BY <1>6, <2>2, NothingMoves DEF Resume
<1>7. ASSUME NEW c \in Client, Return(c)
      PROVE  HandedOutOnce'
  <2>1. c \in Worker /\ c \in Place
    BY DEF Worker
  <2> DEFINE v == hand[c][1]
  <2>2. v \in Vm /\ hand[c] = <<v>>
    BY <1>7, <2>1, InHand DEF Return, Working, Typed, TypeOK
  <2>3. /\ hand'[c] = << >>
        /\ \A x \in Worker \ {c} : hand'[x] = hand[x]
        /\ claims'[v] = claims[v] + 1 /\ \A u \in Vm \ {v} : claims'[u] = claims[u]
        /\ \A u \in Vm : status[u] # "new" => status'[u] # "new"
    BY <1>0, <1>7, <2>1, <2>2 DEF Return, Take
  <2>4. /\ Contents[c] = <<v>> /\ Contents'[c] = << >>
        /\ \A x \in Place \ {c} : Contents'[x] = Contents[x]
    BY <1>7, <2>1, <2>2, <2>3 DEF Return, Place
  <2> HIDE DEF v
  <2>5. Sound(Contents', claims', status')
    BY <2>1, <2>2, <2>3, <2>4, HandingOut DEF HandedOutOnce
  <2> QED
    BY <2>5 DEF HandedOutOnce
<1>8. ASSUME NEW w \in Worker, Drop(w)
      PROVE  HandedOutOnce'
  <2>1. hand[w][1] \in Vm
    BY <1>8, InHand DEF Drop, Working, Typed, TypeOK
  <2>2. \A u \in Vm : status[u] # "new" => status'[u] # "new"
    BY <1>a, <1>8, <2>1 DEF Drop
  <2>3. \A x \in Worker : hand'[x] = hand[x] \/ hand'[x] = << >>
    BY <1>0, <1>8 DEF Drop, Take
  <2>4. \A x \in Place : Contents'[x] = Contents[x] \/ Contents'[x] = << >>
    BY <1>8, <2>3 DEF Drop, Place
  <2>5. Sound(Contents', claims, status')
    BY <2>2, <2>4, LettingGo DEF HandedOutOnce
  <2> QED
    BY <1>8, <2>5 DEF HandedOutOnce, Drop
<1>9. ASSUME NEW f \in Filler, LockFill(f) \/ CheckPool(f) \/ CreateFails(f) \/ AwaitAgent(f)
      PROVE  HandedOutOnce'
  BY <1>9, NothingMoves DEF LockFill, CheckPool, CreateFails, AwaitAgent
<1>11. ASSUME NEW f \in Filler, CreateMember(f)
      PROVE  HandedOutOnce'
  <2>1. f \in Worker /\ f \in Place
    BY DEF Worker
  <2>2. PICK v \in Vm : /\ status[v] = "new"
                        /\ status' = [status EXCEPT ![v] = "running"]
                        /\ Take(f, <<v>>)
    BY <1>11 DEF CreateMember
  <2>3. /\ hand'[f] = <<v>>
        /\ \A x \in Worker \ {f} : hand'[x] = hand[x]
        /\ claims[v] \in Nat /\ status[v] = "new"
        /\ status'[v] = "running" /\ \A u \in Vm \ {v} : status'[u] = status[u]
    BY <1>0, <2>1, <2>2 DEF Take
  <2>4. /\ Contents'[f] = <<v>>
        /\ \A x \in Place \ {f} : Contents'[x] = Contents[x]
    BY <1>11, <2>1, <2>3 DEF CreateMember, Place
  <2>5. Sound(Contents', claims, status')
    BY <2>1, <2>3, <2>4, TakingNew DEF HandedOutOnce
  <2> QED
    BY <1>11, <2>5 DEF HandedOutOnce, CreateMember
<1>14. ASSUME NEW f \in Filler, PauseMember(f)
      PROVE  HandedOutOnce'
  <2>1. hand[f][1] \in Vm
    BY <1>14, InHand DEF PauseMember, Worker, Working, Typed, TypeOK
  <2>2. \A u \in Vm : status[u] # "new" => status'[u] # "new"
    BY <1>0, <1>14, <2>1 DEF PauseMember
  <2> QED
    BY <1>14, <2>2, NothingMoves DEF PauseMember
<1>15. ASSUME NEW f \in Filler, PushMember(f)
      PROVE  HandedOutOnce'
  <2> DEFINE n == f[2]
             e == hand[f][1]
             ms == pools[n].members
  <2>1. f \in Worker /\ f \in Place /\ n \in Name /\ n \in Place /\ n # f
    BY DEF Worker, Filler
  <2>2. e \in Vm /\ hand[f] = <<e>>
    BY <1>15, <2>1, InHand DEF PushMember, Working, Typed, TypeOK
  <2>3. CASE Live(n)
    <3>1. Contents[n] = ms /\ ms \in Seq(Vm) /\ Contents[f] = <<e>>
      BY <2>1, <2>2, <2>3
    <3>2. /\ pools[n] \in PoolRecord
          /\ pools' = [pools EXCEPT ![n] = [pools[n] EXCEPT !.members = Append(ms, e)]]
      BY <1>0, <1>15, <2>1, <2>3 DEF PushMember, Live
    <3>3. pools'[n] = [pools[n] EXCEPT !.members = Append(ms, e)]
      BY <1>0, <2>1, <3>2
    <3>4. [pools[n] EXCEPT !.members = Append(ms, e)] \in PoolRecord
      BY <2>2, <3>1, <3>2, AppendFacts DEF PoolRecord
    <3>a. pools'[n] # NoPool
      BY <3>3, <3>4, NoPoolAssumption
    <3>b. [pools[n] EXCEPT !.members = Append(ms, e)].members = Append(ms, e)
      BY <3>2 DEF PoolRecord
    <3>5. pools'[n] # NoPool /\ pools'[n].members = Append(ms, e)
      BY <3>3, <3>a, <3>b, Zenon
    <3>6. /\ hand'[f] = << >>
          /\ \A x \in Name \ {n} : pools'[x] = pools[x]
          /\ \A x \in Worker \ {f} : hand'[x] = hand[x]
      BY <1>0, <1>15, <2>1, <2>3, <3>2 DEF PushMember, Take
    <3>7. /\ Contents'[n] = Append(Contents[n], e)
          /\ Contents'[f] = << >>
          /\ \A x \in Place \ {n, f} : Contents'[x] = Contents[x]
      BY <2>1, <3>1, <3>5, <3>6 DEF Place
    <3> HIDE DEF n, e, ms
    <3>8. Sound(Contents', claims, status)
      BY <2>1, <2>2, <3>1, <3>7, Appending DEF HandedOutOnce
    <3> QED
      BY <1>15, <3>8 DEF HandedOutOnce, PushMember
  <2>4. CASE ~Live(n)
    BY <1>15, <2>4, NothingMoves DEF PushMember
  <2> QED
    BY <2>3, <2>4
<1>16. ASSUME NEW p \in Proc, Tick(p)
      PROVE  HandedOutOnce'
  BY <1>16, NothingMoves DEF Tick
<1>17. ASSUME NEW p \in Proc, ProcessEnds(p)
      PROVE  HandedOutOnce'
  <2>1. \A x \in Worker : hand'[x] = hand[x] \/ hand'[x] = << >>
    BY <1>17 DEF ProcessEnds
  <2>2. \A x \in Place : Contents'[x] = Contents[x] \/ Contents'[x] = << >>
    BY <1>17, <2>1 DEF ProcessEnds, Place
  <2>3. Sound(Contents', claims, status)
    BY <2>2, LettingGo DEF HandedOutOnce
  <2> QED
    BY <1>17, <2>3 DEF HandedOutOnce, ProcessEnds
<1>18. ASSUME NEW v \in Vm, Meddle(v)
      PROVE  HandedOutOnce'
  <2>1. \A u \in Vm : status[u] # "new" => status'[u] # "new"
    BY <1>0, <1>18 DEF Meddle
  <2> QED
    BY <1>18, <2>1, NothingMoves DEF Meddle
<1>19. CASE UNCHANGED vars
  BY <1>19, NothingMoves DEF vars
<1>20. ASSUME NEW w \in Worker, StoreFails(w)
      PROVE  HandedOutOnce'
  <2>1. \A x \in Worker : hand'[x] = hand[x] \/ hand'[x] = << >>
    BY <1>0, <1>20 DEF StoreFails, Take
  <2>2. \A x \in Place : Contents'[x] = Contents[x] \/ Contents'[x] = << >>
    BY <1>20, <2>1 DEF StoreFails, Place
  <2>3. Sound(Contents', claims, status)
    BY <2>2, LettingGo DEF HandedOutOnce
  <2> QED
    BY <1>20, <2>3 DEF HandedOutOnce, StoreFails
<1> QED
  BY <1>1, <1>2, <1>3, <1>4, <1>5, <1>6, <1>7, <1>8, <1>9, <1>11,
     <1>14, <1>15, <1>16, <1>17, <1>18, <1>19, <1>20
     DEF Next, Request, Fill, Worker

\* No two claims ever get the same VM, however many requests, processes and
\* backfills race, whatever dies and whoever uses members by id.
THEOREM ClaimsAreExclusive == Spec => []ClaimedOnce
<1>1. Init => Typed /\ HandedOutOnce
  BY TypedInit, HandedOutOnceInit
<1>2. (Typed /\ HandedOutOnce) /\ [Next]_vars => (Typed /\ HandedOutOnce)'
  BY TypedNext, HandedOutOnceNext
<1> QED
  BY <1>1, <1>2, HandedOutOnceSuffices, PTL DEF Spec
-----------------------------------------------------------------------------
(* How far backfills overshoot.  BoundedOvershoot is not inductive: whoever *)
(* found the pool short will push, whatever the others pushed meanwhile.    *)

\* The steps between a backfill's look at the pool and its push.
Committed == {"create", "ready", "pause", "push"}

\* The processes whose backfill of n is about to push.
Filling(n) == {p \in Proc : pc[<<p, n>>] \in Committed}

\* Members and members to come.
RoomIn(n) ==
  Live(n) => Len(pools[n].members) + Cardinality(Filling(n)) + 1
               <= pools[n].size + Cardinality(Proc)

Roomy == \A n \in Name : RoomIn(n)

\* Filling(n) is a finite set, no larger than Proc.
LEMMA FillingFinite ==
  ASSUME NEW S, S \subseteq Proc
  PROVE  /\ IsFiniteSet(S) /\ Cardinality(S) \in Nat
         /\ Cardinality(Proc) \in Nat /\ Cardinality(S) <= Cardinality(Proc)
  BY PoolAssumption, FS_Subset, FS_CardinalityType

\* A pool that gains no member and no backfill has room as before.
LEMMA NoMoreComing ==
  ASSUME Roomy, NEW n \in Name,
         \A p \in Proc : pc'[<<p, n>>] \in Committed => pc[<<p, n>>] \in Committed,
         pools'[n] # NoPool =>
           /\ Live(n) /\ pools'[n].size = pools[n].size
           /\ pools[n].size \in Nat
           /\ Len(pools[n].members) \in Nat /\ Len(pools'[n].members) \in Nat
           /\ Len(pools'[n].members) <= Len(pools[n].members)
  PROVE  RoomIn(n)'
<1>1. Filling(n)' \subseteq Filling(n) /\ Filling(n) \subseteq Proc
  BY DEF Filling
<1>2. /\ Cardinality(Filling(n)') \in Nat /\ Cardinality(Filling(n)) \in Nat
      /\ Cardinality(Proc) \in Nat
      /\ Cardinality(Filling(n)') <= Cardinality(Filling(n))
  BY <1>1, FillingFinite, FS_Subset
<1>3. CASE pools'[n] # NoPool
  <2>1. Len(pools[n].members) + Cardinality(Filling(n)) + 1 <= pools[n].size + Cardinality(Proc)
    BY <1>3 DEF Roomy, RoomIn
  <2>2. Len(pools'[n].members) + Cardinality(Filling(n)') + 1
          <= pools'[n].size + Cardinality(Proc)
    <3> DEFINE l == Len(pools[n].members)
               k == Len(pools'[n].members)
               a == Cardinality(Filling(n))
               b == Cardinality(Filling(n)')
               s == pools[n].size
               q == Cardinality(Proc)
    <3>1. l \in Nat /\ k \in Nat /\ k <= l /\ s \in Nat /\ pools'[n].size = s
      BY <1>3
    <3>2. a \in Nat /\ b \in Nat /\ q \in Nat /\ b <= a /\ l + a + 1 <= s + q
      BY <1>2, <2>1
    <3> HIDE DEF l, k, a, b, s, q
    <3>3. k + b + 1 <= s + q
      BY <3>1, <3>2
    <3> QED
      BY <3>1, <3>3 DEF k, b, q
  <2> QED
    BY <2>2 DEF RoomIn
<1>4. CASE pools'[n] = NoPool
  BY <1>4 DEF RoomIn, Live
<1> QED
  BY <1>3, <1>4

\* What is known of a pool's record.
LEMMA PoolFacts ==
  ASSUME Typed, NEW n \in Name, Live(n)
  PROVE  /\ pools[n] \in PoolRecord /\ pools[n].size \in Nat \ {0}
         /\ pools[n].members \in Seq(Vm) /\ Len(pools[n].members) \in Nat
<1>1. pools[n] \in PoolRecord
  BY DEF Typed, TypeOK, StoreType, Live
<1>2. pools[n].members \in Seq(Vm) /\ pools[n].size \in Nat \ {0}
  BY <1>1, PoolAssumption DEF PoolRecord
<1> QED
  BY <1>1, <1>2, LenProperties

\* Steps that change no pool and commit no backfill.
LEMMA PoolsAsTheyWere ==
  ASSUME Typed, Roomy, UNCHANGED pools,
         \A f \in Filler : pc'[f] \in Committed => pc[f] \in Committed
  PROVE  Roomy'
<1>1. ASSUME NEW n \in Name PROVE RoomIn(n)'
  <2>1. \A p \in Proc : pc'[<<p, n>>] \in Committed => pc[<<p, n>>] \in Committed
    BY DEF Filler
  <2> QED
    BY <2>1, NoMoreComing, PoolFacts DEF Live
<1> QED
  BY <1>1 DEF Roomy

\* Every step keeps the room.
LEMMA RoomyNext == Typed /\ Roomy /\ [Next]_vars => Roomy'
<1> SUFFICES ASSUME Typed, Roomy, [Next]_vars PROVE Roomy'
  OBVIOUS
<1>0. /\ pools \in [Name -> PoolRecord \cup {NoPool}]
      /\ pc \in [Worker -> Steps]
      /\ \A f \in Filler : f \in Worker /\ f \notin Client
      /\ \A c \in Client : c \in Worker
  BY PoolAssumption DEF Typed, TypeOK, StoreType, HandType, Worker
<1>a. ASSUME NEW c \in Client, NEW s, Goto(c, s)
      PROVE  \A f \in Filler : pc'[f] = pc[f]
  BY <1>0, <1>a DEF Goto
<1>b. ASSUME NEW w \in Worker, NEW s, Goto(w, s), s \in Committed => pc[w] \in Committed
      PROVE  \A f \in Filler : pc'[f] \in Committed => pc[f] \in Committed
  BY <1>0, <1>b DEF Goto
<1>1. ASSUME NEW c \in Client, NEW n \in Name, CreatePool(c, n)
      PROVE  Roomy'
  BY <1>1, <1>a, PoolsAsTheyWere DEF CreatePool
<1>2. ASSUME NEW c \in Client, InsertPool(c)
      PROVE  Roomy'
  <2>1. \A f \in Filler : pc'[f] = pc[f]
    BY <1>2, <1>a DEF InsertPool
  <2>2. \A n \in Name : \A p \in Proc : pc'[<<p, n>>] = pc[<<p, n>>]
    BY <2>1 DEF Filler
  <2>3. ASSUME NEW n \in Name, n # spec[c].name PROVE RoomIn(n)'
    <3>1. pools'[n] = pools[n]
      BY <1>0, <1>2, <2>3 DEF InsertPool
    <3> QED
      BY <2>2, <3>1, NoMoreComing, PoolFacts DEF Live
  <2>4. ASSUME NEW n \in Name, n = spec[c].name PROVE RoomIn(n)'
    <3>1. /\ pools'[n].size = spec[c].size /\ pools'[n].members = << >>
          /\ spec[c].size \in 1 .. MaxSize
      BY <1>0, <1>2, <2>4 DEF InsertPool, Typed, Inserting
    <3>2. Filling(n)' \subseteq Proc
      BY DEF Filling
    <3>3. Len(pools'[n].members) = 0
      BY <3>1
    <3> QED
      BY <3>1, <3>2, <3>3, FillingFinite, PoolAssumption DEF RoomIn
  <2> QED
    BY <2>3, <2>4 DEF Roomy
<1>3. ASSUME NEW c \in Client, NEW n \in Name, DeletePool(c, n)
      PROVE  Roomy'
  <2>1. \A m \in Name : \A p \in Proc : pc'[<<p, m>>] = pc[<<p, m>>]
    BY <1>3, <1>a DEF DeletePool, Filler
  <2>2. ASSUME NEW m \in Name PROVE RoomIn(m)'
    <3>1. pools'[m] = NoPool \/ pools'[m] = pools[m]
      BY <1>0, <1>3 DEF DeletePool
    <3> QED
      BY <2>1, <3>1, NoMoreComing, PoolFacts DEF Live
  <2> QED
    BY <2>2 DEF Roomy
<1>4. ASSUME NEW c \in Client, Drain(c)
      PROVE  Roomy'
  BY <1>4, <1>a, PoolsAsTheyWere DEF Drain
<1>5. ASSUME NEW c \in Client, NEW n \in Name, Claim(c, n)
      PROVE  Roomy'
  <2>1. \A m \in Name : \A p \in Proc : pc'[<<p, m>>] = pc[<<p, m>>]
    BY <1>5, <1>a DEF Claim, Filler
  <2> DEFINE ms == pools[n].members
  <2>2. /\ Live(n) /\ ms # << >> /\ pools[n] \in PoolRecord
        /\ ms \in Seq(Vm) /\ Len(ms) \in Nat /\ pools[n].size \in Nat
    BY <1>5, PoolFacts DEF Claim
  <2>3. Front(ms) \in Seq(Vm) /\ Len(Front(ms)) = Len(ms) - 1 /\ Len(ms) \in Nat \ {0}
    BY <2>2, FrontFacts
  <2>4. pools'[n] = [pools[n] EXCEPT !.members = Front(ms)]
    BY <1>0, <1>5 DEF Claim
  <2>5. pools'[n].size = pools[n].size /\ pools'[n].members = Front(ms)
    BY <2>2, <2>4 DEF PoolRecord
  <2>6. RoomIn(n)'
    <3> HIDE DEF ms
    <3>1. Len(pools'[n].members) \in Nat /\ Len(pools'[n].members) <= Len(ms)
      BY <2>3, <2>5
    <3> QED
      BY <2>1, <2>2, <2>5, <3>1, NoMoreComing DEF ms
  <2>7. ASSUME NEW m \in Name, m # n PROVE RoomIn(m)'
    <3>1. pools'[m] = pools[m]
      BY <1>0, <1>5, <2>7 DEF Claim
    <3> QED
      BY <2>1, <3>1, NoMoreComing, PoolFacts DEF Live
  <2> QED
    BY <2>6, <2>7 DEF Roomy
<1>6. ASSUME NEW c \in Client, Resume(c) \/ Return(c)
      PROVE  Roomy'
  BY <1>6, <1>a, PoolsAsTheyWere DEF Resume, Return
<1>8. ASSUME NEW w \in Worker, Drop(w) \/ StoreFails(w)
      PROVE  Roomy'
  <2>1. \A f \in Filler : pc'[f] \in Committed => pc[f] \in Committed
    BY <1>8, <1>b DEF Drop, StoreFails, Committed
  <2> QED
    BY <1>8, <2>1, PoolsAsTheyWere DEF Drop, StoreFails
<1>9. ASSUME NEW f \in Filler,
             LockFill(f) \/ CreateMember(f) \/ CreateFails(f) \/ AwaitAgent(f) \/ PauseMember(f)
      PROVE  Roomy'
  <2>1. PICK s : Goto(f, s) /\ (s \in Committed => pc[f] \in Committed)
    BY <1>9 DEF LockFill, CreateMember, CreateFails, AwaitAgent, PauseMember, Committed
  <2>2. \A g \in Filler : pc'[g] \in Committed => pc[g] \in Committed
    BY <1>0, <1>b, <2>1
  <2> QED
    BY <1>9, <2>2, PoolsAsTheyWere
       DEF LockFill, CreateMember, CreateFails, AwaitAgent, PauseMember
<1>10. ASSUME NEW f \in Filler, CheckPool(f)
      PROVE  Roomy'
  <2>1. CASE ~Short(f[2])
    <3>1. \A g \in Filler : pc'[g] \in Committed => pc[g] \in Committed
      BY <1>0, <1>10, <1>b, <2>1 DEF CheckPool, Committed
    <3> QED
      BY <1>10, <2>1, <3>1, PoolsAsTheyWere DEF CheckPool
  <2>2. CASE Short(f[2])
    <3>1. UNCHANGED pools /\ pc' = [pc EXCEPT ![f] = "create"] /\ f[2] \in Name
      BY <1>10, <2>2 DEF CheckPool, Goto, Filler
    <3>2. ASSUME NEW n \in Name, n # f[2] PROVE RoomIn(n)'
      <4>1. \A p \in Proc : <<p, n>> # f /\ <<p, n>> \in Worker
        BY <3>2 DEF Worker, Filler
      <4>2. \A p \in Proc : pc'[<<p, n>>] = pc[<<p, n>>]
        BY <1>0, <3>1, <4>1
      <4> QED
        BY <3>1, <4>2, NoMoreComing, PoolFacts DEF Live
    <3>3. RoomIn(f[2])'
      <4>1. /\ Len(pools[f[2]].members) \in Nat /\ pools[f[2]].size \in Nat
            /\ Len(pools[f[2]].members) < pools[f[2]].size
        BY <2>2, <3>1, PoolFacts DEF Short
      <4>2. Filling(f[2])' \subseteq Proc
        BY DEF Filling
      <4>3. Cardinality(Filling(f[2])') \in Nat /\ Cardinality(Proc) \in Nat
            /\ Cardinality(Filling(f[2])') <= Cardinality(Proc)
        BY <4>2, FillingFinite
      <4> QED
        BY <3>1, <4>1, <4>3 DEF RoomIn
    <3> QED
      BY <3>2, <3>3 DEF Roomy
  <2> QED
    BY <2>1, <2>2
<1>15. ASSUME NEW f \in Filler, PushMember(f)
      PROVE  Roomy'
  <2>1. CASE ~Live(f[2])
    <3>1. \A g \in Filler : pc'[g] \in Committed => pc[g] \in Committed
      BY <1>0, <1>15, <1>b, <2>1 DEF PushMember, Committed
    <3> QED
      BY <1>15, <2>1, <3>1, PoolsAsTheyWere DEF PushMember
  <2>2. CASE Live(f[2])
    <3>1. PICK p \in Proc, n \in Name : f = <<p, n>>
      BY DEF Filler
    <3> DEFINE ms == pools[n].members
               e == hand[f][1]
    <3>2. /\ Live(n) /\ pools[n] \in PoolRecord /\ ms \in Seq(Vm)
          /\ Len(ms) \in Nat /\ pools[n].size \in Nat
      BY <2>2, <3>1, PoolFacts
    <3>3. e \in Vm
      BY <1>0, <1>15, InHand DEF PushMember, Working, Typed, TypeOK
    <3>4. /\ pools' = [pools EXCEPT ![n] = [pools[n] EXCEPT !.members = Append(ms, e)]]
          /\ pc' = [pc EXCEPT ![f] = "check"] /\ pc[f] = "push"
      BY <1>0, <1>15, <2>2, <3>1 DEF PushMember, Goto
    <3>5. pools'[n] = [pools[n] EXCEPT !.members = Append(ms, e)]
      BY <1>0, <3>4
    <3>6. pools'[n].size = pools[n].size /\ pools'[n].members = Append(ms, e)
      BY <3>2, <3>5 DEF PoolRecord
    <3> HIDE DEF ms, e
    <3>7. Len(pools'[n].members) = Len(ms) + 1
      BY <3>2, <3>3, <3>6, AppendFacts
    <3>8. p \in Filling(n) /\ Filling(n)' = Filling(n) \ {p} /\ Filling(n) \subseteq Proc
      <4>1. p \in Filling(n) /\ p \notin Filling(n)'
        BY <1>0, <3>1, <3>4 DEF Filling, Committed
      <4>2. ASSUME NEW q \in Proc, q # p PROVE q \in Filling(n)' <=> q \in Filling(n)
        <5>1. <<q, n>> # f /\ <<q, n>> \in Worker
          BY <3>1, <4>2 DEF Worker, Filler
        <5> QED
          BY <1>0, <3>4, <5>1 DEF Filling
      <4> QED
        BY <4>1, <4>2 DEF Filling
    <3>9. /\ Cardinality(Filling(n)') = Cardinality(Filling(n)) - 1
          /\ Cardinality(Filling(n)) \in Nat /\ Cardinality(Proc) \in Nat
      BY <3>8, FillingFinite, FS_RemoveElement
    <3>10. RoomIn(n)'
      BY <3>2, <3>6, <3>7, <3>9 DEF Roomy, RoomIn, ms
    <3>11. ASSUME NEW m \in Name, m # n PROVE RoomIn(m)'
      <4>1. \A q \in Proc : <<q, m>> # f /\ <<q, m>> \in Worker
        BY <3>1, <3>11 DEF Worker, Filler
      <4>2. \A q \in Proc : pc'[<<q, m>>] = pc[<<q, m>>]
        BY <1>0, <3>4, <4>1
      <4>3. pools'[m] = pools[m]
        BY <1>0, <3>4, <3>11
      <4> QED
        BY <4>2, <4>3, NoMoreComing, PoolFacts DEF Live
    <3> QED
      BY <3>10, <3>11 DEF Roomy
  <2> QED
    BY <2>1, <2>2
<1>16. ASSUME NEW p \in Proc, Tick(p) \/ ProcessEnds(p)
      PROVE  Roomy'
  <2>1. \A f \in Filler : pc'[f] \in Committed => pc[f] \in Committed
    BY <1>0, <1>16 DEF Tick, ProcessEnds, Committed
  <2> QED
    BY <1>16, <2>1, PoolsAsTheyWere DEF Tick, ProcessEnds
<1>18. ASSUME NEW v \in Vm, Meddle(v)
      PROVE  Roomy'
  BY <1>18, PoolsAsTheyWere DEF Meddle
<1>19. CASE UNCHANGED vars
  BY <1>19, PoolsAsTheyWere DEF vars
<1> QED
  BY <1>1, <1>2, <1>3, <1>4, <1>5, <1>6, <1>8, <1>9, <1>10, <1>15, <1>16, <1>18, <1>19
     DEF Next, Request, Fill, Worker

\* A pool holds at most one member too many for each process but one, however
\* checks, pushes, claims, deletions and re-creations of the pool interleave.
THEOREM OvershootIsBounded == Spec => []BoundedOvershoot
<1>1. Init => Typed /\ Roomy
  BY TypedInit DEF Init, Roomy, RoomIn, Live
<1>2. (Typed /\ Roomy) /\ [Next]_vars => (Typed /\ Roomy)'
  BY TypedNext, RoomyNext
<1>3. Typed /\ Roomy => BoundedOvershoot
  <2> SUFFICES ASSUME Typed, Roomy, NEW n \in Name, Live(n)
               PROVE  Len(pools[n].members) + 1 <= pools[n].size + Cardinality(Proc)
    BY DEF BoundedOvershoot
  <2>1. Filling(n) \subseteq Proc
    BY DEF Filling
  <2> QED
    BY <2>1, FillingFinite, PoolFacts DEF Roomy, RoomIn
<1> QED
  BY <1>1, <1>2, <1>3, PTL DEF Spec
-----------------------------------------------------------------------------
(* Members are Paused, where nothing but the pool's own operations reaches  *)
(* them.  MembersPaused is not inductive: what a backfill is about to push  *)
(* must be Paused too, and no other place may hold what a pool holds.       *)

PausedInv ==
  /\ \A n \in Name : \A i \in DOMAIN Contents[n] : status[Contents[n][i]] = "paused"
  /\ \A f \in Filler : pc[f] = "push" => status[hand[f][1]] = "paused"

\* PausedInv is the stronger.
LEMMA PausedSuffices == PausedInv => MembersPaused
<1>1. \A n \in Name : Contents[n] = Held(n)
  BY DEF Contents, Place
<1> QED
  BY <1>1 DEF PausedInv, MembersPaused

\* What worker w does to the VM it has in hand touches no pool's member and
\* nothing that another worker has in hand.
LEMMA HandsOff ==
  ASSUME Typed, HandedOutOnce, PausedInv, NEW w \in Worker, NEW k \in DOMAIN hand[w],
         \A u \in Vm \ {hand[w][k]} : status'[u] = status[u]
  PROVE  /\ \A n \in Name : \A i \in DOMAIN Contents[n] : status'[Contents[n][i]] = "paused"
         /\ \A f \in Filler \ {w} : pc[f] = "push" => status'[hand[f][1]] = "paused"
<1>1. w \in Place /\ Contents[w] = hand[w] /\ w \notin Name
  BY ContentsFacts
<1>2. ASSUME NEW n \in Name, NEW i \in DOMAIN Contents[n]
      PROVE  status'[Contents[n][i]] = "paused"
  <2>1. n \in Place /\ n # w /\ Contents[n][i] \in Vm
    BY <1>1, ContentsFacts
  <2>2. Contents[n][i] # hand[w][k]
    BY <1>1, <2>1 DEF HandedOutOnce, Sound
  <2> QED
    BY <2>1, <2>2 DEF PausedInv
<1>3. ASSUME NEW f \in Filler \ {w}, pc[f] = "push"
      PROVE  status'[hand[f][1]] = "paused"
  <2>1. f \in Worker
    BY DEF Worker
  <2>2. 1 \in DOMAIN hand[f] /\ hand[f][1] \in Vm
    BY <1>3, <2>1, InHand DEF Working, Typed, TypeOK
  <2>3. f \in Place /\ Contents[f] = hand[f]
    BY <2>1, ContentsFacts
  <2>4. hand[f][1] # hand[w][k]
    BY <1>1, <2>2, <2>3, <1>3 DEF HandedOutOnce, Sound
  <2> QED
    BY <1>3, <2>2, <2>4 DEF PausedInv
<1> QED
  BY <1>2, <1>3

\* Steps that change no status, add no member and bring no backfill to its push.
LEMMA StatusesStay ==
  ASSUME Typed, PausedInv, UNCHANGED status,
         \A n \in Name : \A i \in DOMAIN Contents'[n] :
           i \in DOMAIN Contents[n] /\ Contents'[n][i] = Contents[n][i],
         \A f \in Filler : pc'[f] = "push" => pc[f] = "push" /\ hand'[f] = hand[f]
  PROVE  PausedInv'
  BY DEF PausedInv

\* Steps that leave the pools alone but for some that become empty.
LEMMA PoolsStay ==
  ASSUME Typed, \A n \in Name : \/ pools'[n] = pools[n]
                                \/ pools'[n] = NoPool
                                \/ pools'[n].members = << >>
  PROVE  \A n \in Name : \A i \in DOMAIN Contents'[n] :
           i \in DOMAIN Contents[n] /\ Contents'[n][i] = Contents[n][i]
<1> SUFFICES ASSUME NEW n \in Name
             PROVE  Contents'[n] = Contents[n] \/ Contents'[n] = << >>
  <2>1. DOMAIN << >> = {}
    OBVIOUS
  <2> QED
    BY <2>1
<1> QED
  BY ContentsNext

\* Every step keeps members Paused.
LEMMA PausedNext ==
  ASSUME Mishaps = FALSE
  PROVE  Typed /\ HandedOutOnce /\ PausedInv /\ [Next]_vars => PausedInv'
<1> SUFFICES ASSUME Typed, HandedOutOnce, PausedInv, [Next]_vars PROVE PausedInv'
  OBVIOUS
<1>0. /\ pools \in [Name -> PoolRecord \cup {NoPool}]
      /\ status \in [Vm -> {"new", "running", "paused", "stopped", "gone"}]
      /\ pc \in [Worker -> Steps]
      /\ hand \in [Worker -> Seq(Vm)]
      /\ \A f \in Filler : f \in Worker /\ f \notin Client
      /\ \A c \in Client : c \in Worker
  BY PoolAssumption DEF Typed, TypeOK, StoreType, HandType, Worker
<1>a. ASSUME NEW c \in Client, NEW s, Goto(c, s)
      PROVE  \A f \in Filler : pc'[f] = pc[f]
  BY <1>0, <1>a DEF Goto
<1>b. ASSUME NEW c \in Client, NEW h, Take(c, h)
      PROVE  \A f \in Filler : hand'[f] = hand[f]
  BY <1>0, <1>b DEF Take
<1>c. ASSUME NEW w \in Worker, NEW s, Goto(w, s), s # "push"
      PROVE  \A f \in Filler : pc'[f] = "push" => pc[f] = "push" /\ f # w
  BY <1>0, <1>c DEF Goto
<1>d. ASSUME NEW w \in Worker, NEW h, Take(w, h)
      PROVE  \A f \in Filler \ {w} : hand'[f] = hand[f]
  BY <1>0, <1>d DEF Take
<1>1. ASSUME NEW c \in Client, NEW n \in Name, CreatePool(c, n)
      PROVE  PausedInv'
  BY <1>1, <1>a, PoolsStay, StatusesStay DEF CreatePool
<1>2. ASSUME NEW c \in Client, InsertPool(c)
      PROVE  PausedInv'
  <2>1. \A n \in Name : pools'[n] = pools[n] \/ pools'[n].members = << >>
    BY <1>0, <1>2 DEF InsertPool
  <2> QED
    BY <1>2, <1>a, <2>1, PoolsStay, StatusesStay DEF InsertPool
<1>3. ASSUME NEW c \in Client, NEW n \in Name, DeletePool(c, n)
      PROVE  PausedInv'
  <2>1. \A m \in Name : pools'[m] = pools[m] \/ pools'[m] = NoPool
    BY <1>0, <1>3 DEF DeletePool
  <2>2. \A f \in Filler : pc'[f] = pc[f] /\ hand'[f] = hand[f]
    BY <1>3, <1>a, <1>b DEF DeletePool
  <2> QED
    BY <1>3, <2>1, <2>2, PoolsStay, StatusesStay DEF DeletePool
<1>4. ASSUME NEW c \in Client, Drain(c)
      PROVE  PausedInv'
  <2>1. CASE hand[c] = << >>
    BY <1>4, <1>a, <2>1, PoolsStay, StatusesStay DEF Drain
  <2>2. CASE hand[c] # << >>
    <3>1. c \in Worker /\ Len(hand[c]) \in DOMAIN hand[c]
      BY <1>0, <2>2, FrontFacts
    <3>2. \A u \in Vm \ {hand[c][Len(hand[c])]} : status'[u] = status[u]
      BY <1>0, <1>4, <2>2 DEF Drain, Delete
    <3>3. \A f \in Filler : pc'[f] = pc[f] /\ hand'[f] = hand[f] /\ f # c
      BY <1>0, <1>4, <1>b, <2>2 DEF Drain
    <3>4. \A n \in Name : Contents'[n] = Contents[n]
      BY <1>4, ContentsNext DEF Drain
    <3> QED
      BY <3>1, <3>2, <3>3, <3>4, HandsOff DEF PausedInv
  <2> QED
    BY <2>1, <2>2
<1>5. ASSUME NEW c \in Client, NEW n \in Name, Claim(c, n)
      PROVE  PausedInv'
  <2> DEFINE ms == pools[n].members
  <2>2. Live(n) /\ ms # << >> /\ Contents[n] = ms /\ ms \in Seq(Vm) /\ pools[n] \in PoolRecord
    BY <1>5, PoolFacts, ContentsFacts DEF Claim
  <2>3. pools' = [pools EXCEPT ![n] = [pools[n] EXCEPT !.members = Front(ms)]]
    BY <1>0, <1>5, <2>2 DEF Claim
  <2>4. pools'[n] = [pools[n] EXCEPT !.members = Front(ms)]
    BY <1>0, <2>3
  <2>5. [pools[n] EXCEPT !.members = Front(ms)] \in PoolRecord
    BY <2>2, FrontFacts DEF PoolRecord
  <2>6. pools'[n] # NoPool /\ pools'[n].members = Front(ms)
    BY <2>2, <2>4, <2>5, NoPoolAssumption DEF PoolRecord
  <2>7. Contents'[n] = Front(Contents[n])
    BY <2>2, <2>6, ContentsNext
  <2>8. \A m \in Name \ {n} : Contents'[m] = Contents[m]
    BY <1>0, <2>3, ContentsNext
  <2>9. \A f \in Filler : pc'[f] = pc[f] /\ hand'[f] = hand[f]
    BY <1>5, <1>a, <1>b DEF Claim
  <2>10. \A m \in Name : \A i \in DOMAIN Contents'[m] :
            i \in DOMAIN Contents[m] /\ Contents'[m][i] = Contents[m][i]
    BY <2>2, <2>7, <2>8, FrontFacts
  <2> QED
    BY <1>5, <2>9, <2>10, StatusesStay DEF Claim
<1>6. ASSUME NEW c \in Client, Resume(c) \/ Return(c)
      PROVE  PausedInv'
  <2>1. c \in Worker /\ 1 \in DOMAIN hand[c] /\ hand[c][1] \in Vm
    BY <1>0, <1>6, InHand DEF Resume, Return, Working, Typed, TypeOK
  <2>2. \A u \in Vm \ {hand[c][1]} : status'[u] = status[u]
    BY <1>0, <1>6, <2>1 DEF Resume, Return
  <2>3. \A f \in Filler : pc'[f] = pc[f] /\ hand'[f] = hand[f] /\ f # c
    BY <1>0, <1>6, <1>a, <1>b DEF Resume, Return
  <2>4. \A n \in Name : Contents'[n] = Contents[n]
    BY <1>6, ContentsNext DEF Resume, Return
  <2> QED
    BY <2>1, <2>2, <2>3, <2>4, HandsOff DEF PausedInv
<1>8. ASSUME NEW w \in Worker, Drop(w)
      PROVE  PausedInv'
  <2>1. 1 \in DOMAIN hand[w] /\ hand[w][1] \in Vm
    BY <1>8, InHand DEF Drop, Working, Typed, TypeOK
  <2>2. \A u \in Vm \ {hand[w][1]} : status'[u] = status[u]
    BY <1>0, <1>8, <2>1 DEF Drop, Delete
  <2>3. \A f \in Filler : pc'[f] = "push" => pc[f] = "push" /\ f # w /\ hand'[f] = hand[f]
    BY <1>8, <1>c, <1>d DEF Drop
  <2>4. \A n \in Name : Contents'[n] = Contents[n]
    BY <1>8, ContentsNext DEF Drop
  <2> QED
    BY <2>1, <2>2, <2>3, <2>4, HandsOff DEF PausedInv
<1>9. ASSUME NEW f \in Filler, LockFill(f) \/ CheckPool(f) \/ CreateFails(f) \/ AwaitAgent(f)
      PROVE  PausedInv'
  <2>1. UNCHANGED <<pools, status, hand>>
    BY <1>9 DEF LockFill, CheckPool, CreateFails, AwaitAgent
  <2>2. PICK s : Goto(f, s) /\ s # "push"
    BY <1>9 DEF LockFill, CheckPool, CreateFails, AwaitAgent
  <2>3. \A g \in Filler : pc'[g] = "push" => pc[g] = "push"
    BY <1>0, <1>c, <2>2
  <2> QED
    BY <2>1, <2>3, PoolsStay, StatusesStay
<1>11. ASSUME NEW f \in Filler, CreateMember(f)
      PROVE  PausedInv'
  <2>1. PICK v \in Vm : /\ status[v] = "new"
                        /\ status' = [status EXCEPT ![v] = "running"]
                        /\ Take(f, <<v>>)
    BY <1>11 DEF CreateMember
  <2>2. \A u \in Vm : status[u] = "paused" => status'[u] = "paused"
    BY <1>0, <2>1
  <2>3. \A g \in Filler : pc'[g] = "push" => pc[g] = "push" /\ hand'[g] = hand[g]
    BY <1>0, <1>11, <1>c, <1>d, <2>1 DEF CreateMember
  <2>4. \A n \in Name : Contents'[n] = Contents[n] /\
          \A i \in DOMAIN Contents[n] : Contents[n][i] \in Vm
    BY <1>11, ContentsNext, ContentsFacts DEF CreateMember
  <2>5. \A g \in Filler : pc[g] = "push" => hand[g][1] \in Vm
    BY <1>0, InHand DEF Working, Typed, TypeOK
  <2> QED
    BY <2>2, <2>3, <2>4, <2>5 DEF PausedInv
<1>14. ASSUME NEW f \in Filler, PauseMember(f)
      PROVE  PausedInv'
  <2>1. f \in Worker /\ 1 \in DOMAIN hand[f] /\ hand[f][1] \in Vm
    BY <1>0, <1>14, InHand DEF PauseMember, Working, Typed, TypeOK
  <2>2. /\ \A u \in Vm \ {hand[f][1]} : status'[u] = status[u]
        /\ pc'[f] = "push" => status'[hand[f][1]] = "paused"
        /\ \A g \in Filler \ {f} : pc'[g] = pc[g]
    BY <1>0, <1>14, <2>1 DEF PauseMember, Goto
  <2>3. \A n \in Name : Contents'[n] = Contents[n]
    BY <1>14, ContentsNext DEF PauseMember
  <2>4. hand' = hand
    BY <1>14 DEF PauseMember
  <2>5. \A n \in Name : \A i \in DOMAIN Contents'[n] : status'[Contents'[n][i]] = "paused"
    BY <2>1, <2>2, <2>3, HandsOff
  <2>6. \A g \in Filler : pc'[g] = "push" => status'[hand'[g][1]] = "paused"
    BY <2>1, <2>2, <2>4, HandsOff
  <2> QED
    BY <2>5, <2>6 DEF PausedInv
<1>15. ASSUME NEW f \in Filler, PushMember(f)
      PROVE  PausedInv'
  <2> DEFINE n == f[2]
             e == hand[f][1]
             ms == pools[n].members
  <2>1. f \in Worker /\ n \in Name /\ pc[f] = "push" /\ status' = status
    BY <1>0, <1>15 DEF PushMember, Filler
  <2>2. e \in Vm /\ status[e] = "paused"
    BY <2>1, InHand DEF PausedInv, Working, Typed, TypeOK
  <2>3. CASE Live(n)
    <3>1. Contents[n] = ms /\ ms \in Seq(Vm) /\ pools[n] \in PoolRecord
      BY <2>1, <2>3, PoolFacts, ContentsFacts
    <3>2. pools' = [pools EXCEPT ![n] = [pools[n] EXCEPT !.members = Append(ms, e)]]
      BY <1>0, <1>15, <2>1, <2>3 DEF PushMember
    <3>3. pools'[n] = [pools[n] EXCEPT !.members = Append(ms, e)]
      BY <1>0, <2>1, <3>2
    <3>4. [pools[n] EXCEPT !.members = Append(ms, e)] \in PoolRecord
      BY <2>2, <3>1, AppendFacts DEF PoolRecord
    <3>5. [pools[n] EXCEPT !.members = Append(ms, e)].members = Append(ms, e)
      BY <3>1 DEF PoolRecord
    <3>6. pools'[n] # NoPool /\ pools'[n].members = Append(ms, e)
      BY <3>3, <3>4, <3>5, NoPoolAssumption, Zenon
    <3>7. Contents'[n] = Append(Contents[n], e)
      BY <2>1, <3>1, <3>6, ContentsNext
    <3>8. \A m \in Name \ {n} : Contents'[m] = Contents[m]
      BY <1>0, <3>2, ContentsNext
    <3>9. \A g \in Filler : pc'[g] = "push" => pc[g] = "push" /\ hand'[g] = hand[g]
      BY <1>15, <1>c, <1>d, <2>1, <2>3 DEF PushMember
    <3> HIDE DEF n, e, ms
    <3>10. \A i \in DOMAIN Contents'[n] : status[Contents'[n][i]] = "paused"
      BY <2>1, <2>2, <3>1, <3>7, AppendFacts DEF PausedInv
    <3> QED
      BY <2>1, <3>8, <3>9, <3>10 DEF PausedInv
  <2>4. CASE ~Live(n)
    <3>1. \A g \in Filler : pc'[g] = "push" => pc[g] = "push"
      BY <1>15, <1>c, <2>1, <2>4 DEF PushMember
    <3> QED
      BY <1>15, <2>4, <3>1, PoolsStay, StatusesStay DEF PushMember
  <2> QED
    BY <2>3, <2>4
<1>16. ASSUME NEW p \in Proc, Tick(p)
      PROVE  PausedInv'
  BY <1>16, PoolsStay, StatusesStay DEF Tick
<1>17. ASSUME NEW p \in Proc, ProcessEnds(p)
      PROVE  PausedInv'
  <2>1. \A f \in Filler : pc'[f] = "push" => pc[f] = "push" /\ hand'[f] = hand[f]
    BY <1>0, <1>17 DEF ProcessEnds
  <2> QED
    BY <1>17, <2>1, PoolsStay, StatusesStay DEF ProcessEnds
<1>18. ASSUME NEW v \in Vm, Meddle(v)
      PROVE  PausedInv'
  BY <1>18 DEF Meddle
<1>19. CASE UNCHANGED vars
  BY <1>19, PoolsStay, StatusesStay DEF vars
<1>20. ASSUME NEW w \in Worker, StoreFails(w)
      PROVE  PausedInv'
  BY <1>20 DEF StoreFails
<1> QED
  BY <1>1, <1>2, <1>3, <1>4, <1>5, <1>6, <1>8, <1>9, <1>11,
     <1>14, <1>15, <1>16, <1>17, <1>18, <1>19, <1>20
     DEF Next, Request, Fill, Worker

\* Whatever claims, backfills, deletions and ends of processes do, every
\* member of a pool is Paused, if no VMM dies and nobody uses it by its id.
THEOREM MembersStayPaused ==
  ASSUME Mishaps = FALSE
  PROVE  Spec => []MembersPaused
<1> DEFINE Inv == Typed /\ HandedOutOnce /\ PausedInv
<1>1. Init => Inv
  <2> SUFFICES ASSUME Init PROVE PausedInv
    BY TypedInit, HandedOutOnceInit
  <2>1. \A n \in Name : Contents[n] = << >>
    BY DEF Init, Contents, Held, Place, Live
  <2> QED
    BY <2>1 DEF Init, PausedInv, Worker
<1>2. Inv /\ [Next]_vars => Inv'
  BY TypedNext, HandedOutOnceNext, PausedNext
<1>3. Inv => MembersPaused
  BY PausedSuffices
<1> QED
  BY <1>1, <1>2, <1>3, PTL DEF Spec
-----------------------------------------------------------------------------
(* No VM is abandoned, where stores answer, deletes succeed, no process     *)
(* ends in the middle and create_pool does not write over a pool.           *)

\* The pool that a create_pool is about to insert is still not there: its
\* check, some steps earlier, was made under another hold of the lock.
NeverOverwrites == \A c \in Client : pc[c] = "insert" => ~Live(spec[c].name)

\* The VMs that must be somewhere.
Owed(v) == status[v] \in {"running", "paused", "stopped"} /\ claims[v] = 0

Somewhere(v) == \E x \in Place : \E i \in DOMAIN Contents[x] : Contents[x][i] = v

AllKept == \A v \in Vm : Owed(v) => Somewhere(v)

\* AllKept is NoneAbandoned.
LEMMA KeptSuffices == AllKept => NoneAbandoned
<1>1. \A x \in Place : Contents[x] = Held(x)
  BY DEF Contents
<1> QED
  BY <1>1 DEF AllKept, Owed, Somewhere, NoneAbandoned

\* Steps after which no more VMs are owed, and all that were held still are.
LEMMA AllStay ==
  ASSUME AllKept,
         \A v \in Vm : Owed(v)' => Owed(v),
         \A x \in Place : Contents'[x] = Contents[x]
  PROVE  AllKept'
  BY DEF AllKept, Somewhere

\* Places and hands that did not change hold what they held.
LEMMA PlacesStay ==
  ASSUME Typed, UNCHANGED <<pools, hand>>
  PROVE  \A x \in Place : Contents'[x] = Contents[x]
  BY ContentsNext DEF Place

\* Every step keeps all VMs that somebody owes something.
LEMMA KeptNext ==
  ASSUME Mishaps = FALSE, Killable = {}
  PROVE  Typed /\ AllKept /\ NeverOverwrites /\ [Next]_vars => AllKept'
<1> SUFFICES ASSUME Typed, AllKept, NeverOverwrites, [Next]_vars PROVE AllKept'
  OBVIOUS
<1>0. /\ pools \in [Name -> PoolRecord \cup {NoPool}]
      /\ status \in [Vm -> {"new", "running", "paused", "stopped", "gone"}]
      /\ claims \in [Vm -> Nat]
      /\ hand \in [Worker -> Seq(Vm)]
      /\ \A f \in Filler : f \in Worker
      /\ \A c \in Client : c \in Worker
  BY DEF Typed, TypeOK, StoreType, HandType, Worker
<1>1. ASSUME NEW c \in Client, NEW n \in Name, CreatePool(c, n)
      PROVE  AllKept'
  BY <1>1, AllStay, PlacesStay DEF CreatePool, Owed
<1>2. ASSUME NEW c \in Client, InsertPool(c)
      PROVE  AllKept'
  <2> DEFINE n == spec[c].name
  <2>1. n \in Name /\ ~Live(n)
    BY <1>0, <1>2 DEF InsertPool, Typed, Inserting, NeverOverwrites
  <2>2. /\ pools'[n].members = << >> /\ \A m \in Name \ {n} : pools'[m] = pools[m]
        /\ hand' = hand
    BY <1>0, <1>2, <2>1 DEF InsertPool
  <2>3. Contents[n] = << >> /\ Contents'[n] = << >>
    BY <2>1, <2>2, ContentsFacts, ContentsNext
  <2> HIDE DEF n
  <2>4. \A x \in Place : Contents'[x] = Contents[x]
    BY <2>1, <2>2, <2>3, ContentsNext DEF Place
  <2> QED
    BY <1>2, <2>4, AllStay DEF InsertPool, Owed
<1>3. ASSUME NEW c \in Client, NEW n \in Name, DeletePool(c, n)
      PROVE  AllKept'
  <2>1. c \in Worker /\ c \in Place /\ n \in Place /\ c # n
    BY <1>0, ContentsFacts
  <2>2. /\ hand[c] = << >>
        /\ pools'[n] = NoPool /\ hand'[c] = pools[n].members
        /\ \A x \in Name \ {n} : pools'[x] = pools[x]
        /\ \A x \in Worker \ {c} : hand'[x] = hand[x]
    BY <1>0, <1>3, <2>1 DEF DeletePool, Take, Typed, TypeOK, HandType, Working
  <2>3. /\ Contents[c] = << >> /\ Contents'[c] = Contents[n]
        /\ \A x \in Place \ {n, c} : Contents'[x] = Contents[x]
    BY <1>3, <2>1, <2>2, ContentsFacts, ContentsNext DEF DeletePool, Place
  <2>4. DOMAIN Contents[c] = {}
    BY <2>3
  <2>5. \A v \in Vm : Somewhere(v) => Somewhere(v)'
    BY <2>1, <2>3, <2>4 DEF Somewhere
  <2> QED
    BY <1>3, <2>5 DEF AllKept, Owed, DeletePool
<1>4. ASSUME NEW c \in Client, Drain(c)
      PROVE  AllKept'
  <2>1. c \in Worker /\ c \in Place
    BY <1>0, ContentsFacts
  <2>2. CASE hand[c] = << >>
    BY <1>4, <2>2, AllStay, PlacesStay DEF Drain, Owed
  <2>3. CASE hand[c] # << >>
    <3> DEFINE k == Len(hand[c])
               u == hand[c][k]
    <3>1. /\ hand[c] \in Seq(Vm) /\ u \in Vm /\ k \in DOMAIN hand[c]
          /\ Len(Front(hand[c])) = k - 1 /\ k \in Nat \ {0}
          /\ \A i \in DOMAIN Front(hand[c]) : Front(hand[c])[i] = hand[c][i]
          /\ DOMAIN hand[c] = 1 .. k
          /\ DOMAIN Front(hand[c]) = 1 .. k - 1
      BY <1>0, <2>1, <2>3, FrontFacts, LenProperties
    <3>2. /\ hand'[c] = Front(hand[c])
          /\ \A x \in Worker \ {c} : hand'[x] = hand[x]
          /\ status' = [status EXCEPT ![u] = "gone"]
      BY <1>0, <1>4, <2>1, <2>3 DEF Drain, Take, Delete
    <3>3. /\ Contents[c] = hand[c]
          /\ Contents'[c] = Front(hand[c])
          /\ \A x \in Place \ {c} : Contents'[x] = Contents[x]
      BY <1>4, <2>1, <3>2, ContentsFacts, ContentsNext DEF Drain, Place
    <3> HIDE DEF k, u
    <3>4. \A i \in DOMAIN hand[c] : hand[c][i] # u => i \in 1 .. k - 1
      BY <3>1 DEF u
    <3>5. \A v \in Vm \ {u} : Somewhere(v) => Somewhere(v)'
      BY <2>1, <3>1, <3>3, <3>4 DEF Somewhere
    <3>6. \A v \in Vm : Owed(v)' => Owed(v) /\ v # u
      BY <1>0, <1>4, <3>1, <3>2 DEF Owed, Drain
    <3> QED
      BY <3>5, <3>6 DEF AllKept
  <2> QED
    BY <2>2, <2>3
<1>5. ASSUME NEW c \in Client, NEW n \in Name, Claim(c, n)
      PROVE  AllKept'
  <2>1. c \in Worker /\ c \in Place /\ n \in Place /\ c # n
    BY <1>0, ContentsFacts
  <2> DEFINE ms == pools[n].members
             k == Len(ms)
  <2>2. Live(n) /\ ms # << >> /\ Contents[n] = ms /\ ms \in Seq(Vm) /\ pools[n] \in PoolRecord
    BY <1>5, PoolFacts, ContentsFacts DEF Claim
  <2>3. pools' = [pools EXCEPT ![n] = [pools[n] EXCEPT !.members = Front(ms)]]
    BY <1>0, <1>5, <2>2 DEF Claim
  <2>4. pools'[n] = [pools[n] EXCEPT !.members = Front(ms)]
    BY <1>0, <2>3
  <2>5. [pools[n] EXCEPT !.members = Front(ms)] \in PoolRecord
    BY <2>2, FrontFacts DEF PoolRecord
  <2>6. pools'[n] # NoPool /\ pools'[n].members = Front(ms)
    BY <2>2, <2>4, <2>5, NoPoolAssumption DEF PoolRecord
  <2>7. /\ hand[c] = << >> /\ hand'[c] = <<ms[k]>>
        /\ \A x \in Name \ {n} : pools'[x] = pools[x]
        /\ \A x \in Worker \ {c} : hand'[x] = hand[x]
    BY <1>0, <1>5, <2>1, <2>3 DEF Claim, Take, Typed, TypeOK, HandType, Working
  <2>8. /\ Contents'[n] = Front(ms) /\ Contents'[c] = <<ms[k]>> /\ Contents[c] = << >>
        /\ \A x \in Place \ {n, c} : Contents'[x] = Contents[x]
    BY <2>1, <2>2, <2>6, <2>7, ContentsFacts, ContentsNext DEF Place
  <2>9. /\ k \in Nat \ {0} /\ DOMAIN ms = 1 .. k /\ DOMAIN Front(ms) = 1 .. k - 1
        /\ \A i \in DOMAIN Front(ms) : Front(ms)[i] = ms[i]
    BY <2>2, FrontFacts, LenProperties
  <2>10. DOMAIN Contents[c] = {} /\ 1 \in DOMAIN Contents'[c] /\ Contents'[c][1] = ms[k]
    BY <2>8
  <2> HIDE DEF ms, k
  <2>11. ASSUME NEW v \in Vm, NEW x \in Place, NEW i \in DOMAIN Contents[x], Contents[x][i] = v
         PROVE  Somewhere(v)'
    <3>1. CASE x = n /\ i = k
      BY <2>1, <2>2, <2>10, <2>11, <3>1 DEF Somewhere
    <3>2. CASE x = n /\ i # k
      <4>1. i \in DOMAIN Contents'[n] /\ Contents'[n][i] = v
        BY <2>2, <2>8, <2>9, <2>11, <3>2
      <4> QED
        BY <2>1, <4>1 DEF Somewhere
    <3>3. CASE x # n
      BY <2>8, <2>10, <2>11, <3>3 DEF Somewhere
    <3> QED
      BY <3>1, <3>2, <3>3
  <2>12. \A v \in Vm : Somewhere(v) => Somewhere(v)'
    BY <2>11 DEF Somewhere
  <2> QED
    BY <1>5, <2>12 DEF AllKept, Owed, Claim
<1>6. ASSUME NEW c \in Client, Resume(c)
      PROVE  AllKept'
  <2>1. hand[c][1] \in Vm
    BY <1>0, <1>6, InHand DEF Resume, Working, Typed, TypeOK
  <2>2. \A v \in Vm : Owed(v)' => Owed(v)
    BY <1>0, <1>6, <2>1 DEF Resume, Owed
  <2> QED
    BY <1>6, <2>2, AllStay, PlacesStay DEF Resume
<1>a. ASSUME NEW w \in Worker, pc[w] \in Working, hand' = [hand EXCEPT ![w] = << >>],
             UNCHANGED pools,
             \A v \in Vm : Owed(v)' => Owed(v) /\ v # hand[w][1]
      PROVE  AllKept'
  <2> DEFINE u == hand[w][1]
  <2>1. u \in Vm /\ hand[w] = <<u>> /\ w \in Place
    BY <1>a, InHand, ContentsFacts DEF Typed, TypeOK
  <2>2. /\ Contents[w] = <<u>>
        /\ \A x \in Place \ {w} : Contents'[x] = Contents[x]
    BY <1>0, <1>a, <2>1, ContentsFacts, ContentsNext DEF Place
  <2> HIDE DEF u
  <2>3. \A i \in DOMAIN Contents[w] : Contents[w][i] = u
    BY <2>2
  <2>4. \A v \in Vm \ {u} : Somewhere(v) => Somewhere(v)'
    BY <2>2, <2>3 DEF Somewhere
  <2> QED
    BY <1>a, <2>4 DEF AllKept, u
<1>7. ASSUME NEW c \in Client, Return(c)
      PROVE  AllKept'
  <2>1. c \in Worker /\ pc[c] \in Working /\ hand[c][1] \in Vm
    BY <1>0, <1>7, InHand DEF Return, Working, Typed, TypeOK
  <2>2. \A v \in Vm : Owed(v)' => Owed(v) /\ v # hand[c][1]
    BY <1>0, <1>7, <2>1 DEF Return, Owed
  <2> QED
    BY <1>7, <1>a, <2>1, <2>2 DEF Return, Take
<1>8. ASSUME NEW w \in Worker, Drop(w)
      PROVE  AllKept'
  <2>1. pc[w] \in Working /\ hand[w][1] \in Vm
    BY <1>8, InHand DEF Drop, Working, Typed, TypeOK
  <2>2. \A v \in Vm : Owed(v)' => Owed(v) /\ v # hand[w][1]
    BY <1>0, <1>8, <2>1 DEF Drop, Delete, Owed
  <2> QED
    BY <1>8, <1>a, <2>1, <2>2 DEF Drop, Take
<1>9. ASSUME NEW f \in Filler, LockFill(f) \/ CheckPool(f) \/ CreateFails(f) \/ AwaitAgent(f)
      PROVE  AllKept'
  BY <1>9, AllStay, PlacesStay DEF LockFill, CheckPool, CreateFails, AwaitAgent, Owed
<1>11. ASSUME NEW f \in Filler, CreateMember(f)
      PROVE  AllKept'
  <2>1. PICK u \in Vm : /\ status' = [status EXCEPT ![u] = "running"]
                        /\ Take(f, <<u>>)
    BY <1>11 DEF CreateMember
  <2>2. f \in Worker /\ f \in Place /\ hand[f] = << >>
    BY <1>0, <1>11, ContentsFacts DEF CreateMember, Typed, TypeOK, HandType, Working
  <2>3. hand'[f] = <<u>> /\ \A x \in Worker \ {f} : hand'[x] = hand[x]
    BY <1>0, <2>1, <2>2 DEF Take
  <2>4. /\ Contents'[f] = <<u>> /\ Contents[f] = << >>
        /\ \A x \in Place \ {f} : Contents'[x] = Contents[x]
    BY <1>11, <2>2, <2>3, ContentsFacts, ContentsNext DEF CreateMember, Place
  <2>5. DOMAIN Contents[f] = {} /\ 1 \in DOMAIN Contents'[f] /\ Contents'[f][1] = u
    BY <2>4
  <2>6. Somewhere(u)' /\ \A v \in Vm : Somewhere(v) => Somewhere(v)'
    BY <2>2, <2>4, <2>5 DEF Somewhere
  <2>7. \A v \in Vm : Owed(v)' => Owed(v) \/ v = u
    BY <1>0, <1>11, <2>1 DEF CreateMember, Owed
  <2> QED
    BY <2>6, <2>7 DEF AllKept
<1>14. ASSUME NEW f \in Filler, PauseMember(f)
      PROVE  AllKept'
  <2>1. hand[f][1] \in Vm
    BY <1>0, <1>14, InHand DEF PauseMember, Working, Typed, TypeOK
  <2>2. \A v \in Vm : Owed(v)' => Owed(v)
    BY <1>0, <1>14, <2>1 DEF PauseMember, Owed
  <2> QED
    BY <1>14, <2>2, AllStay, PlacesStay DEF PauseMember
<1>15. ASSUME NEW f \in Filler, PushMember(f)
      PROVE  AllKept'
  <2> DEFINE n == f[2]
             e == hand[f][1]
             ms == pools[n].members
  <2>1. f \in Worker /\ f \in Place /\ n \in Name /\ n \in Place /\ n # f
    BY <1>0, ContentsFacts DEF Filler
  <2>2. e \in Vm /\ hand[f] = <<e>>
    BY <1>15, <2>1, InHand DEF PushMember, Working, Typed, TypeOK
  <2>3. CASE Live(n)
    <3>1. Contents[n] = ms /\ ms \in Seq(Vm) /\ pools[n] \in PoolRecord /\ Contents[f] = <<e>>
      BY <2>1, <2>2, <2>3, PoolFacts, ContentsFacts
    <3>2. pools' = [pools EXCEPT ![n] = [pools[n] EXCEPT !.members = Append(ms, e)]]
      BY <1>0, <1>15, <2>1, <2>3 DEF PushMember
    <3>3. pools'[n] = [pools[n] EXCEPT !.members = Append(ms, e)]
      BY <1>0, <2>1, <3>2
    <3>4. [pools[n] EXCEPT !.members = Append(ms, e)] \in PoolRecord
      BY <2>2, <3>1, AppendFacts DEF PoolRecord
    <3>5. [pools[n] EXCEPT !.members = Append(ms, e)].members = Append(ms, e)
      BY <3>1 DEF PoolRecord
    <3>6. pools'[n] # NoPool /\ pools'[n].members = Append(ms, e)
      BY <3>3, <3>4, <3>5, NoPoolAssumption, Zenon
    <3>7. \A x \in Worker \ {f} : hand'[x] = hand[x]
      BY <1>0, <1>15, <2>1, <2>3 DEF PushMember, Take
    <3>8. \A x \in Name \ {n} : pools'[x] = pools[x]
      BY <1>0, <3>2
    <3>9. /\ Contents'[n] = Append(ms, e)
          /\ \A x \in Place \ {n, f} : Contents'[x] = Contents[x]
      BY <2>1, <3>6, <3>7, <3>8, ContentsNext DEF Place
    <3> HIDE DEF n, e, ms
    <3>10. /\ \A i \in DOMAIN ms : i \in DOMAIN Contents'[n] /\ Contents'[n][i] = ms[i]
           /\ Len(ms) + 1 \in DOMAIN Contents'[n] /\ Contents'[n][Len(ms) + 1] = e
      BY <2>2, <3>1, <3>9, AppendProperties, LenProperties
    <3>11. \A i \in DOMAIN Contents[f] : Contents[f][i] = e
      BY <3>1
    <3>12. \A v \in Vm : Somewhere(v) => Somewhere(v)'
      BY <2>1, <3>1, <3>9, <3>10, <3>11 DEF Somewhere
    <3> QED
      BY <1>15, <3>12 DEF AllKept, Owed, PushMember
  <2>4. CASE ~Live(n)
    BY <1>15, <2>4, AllStay, PlacesStay DEF PushMember, Owed
  <2> QED
    BY <2>3, <2>4
<1>16. ASSUME NEW p \in Proc, Tick(p)
      PROVE  AllKept'
  BY <1>16, AllStay, PlacesStay DEF Tick, Owed
<1>17. ASSUME NEW p \in Proc, ProcessEnds(p)
      PROVE  AllKept'
  BY <1>17 DEF ProcessEnds
<1>18. ASSUME NEW v \in Vm, Meddle(v)
      PROVE  AllKept'
  BY <1>18 DEF Meddle
<1>19. CASE UNCHANGED vars
  BY <1>19, AllStay, PlacesStay DEF vars, Owed
<1>20. ASSUME NEW w \in Worker, StoreFails(w)
      PROVE  AllKept'
  BY <1>20 DEF StoreFails
<1> QED
  BY <1>1, <1>2, <1>3, <1>4, <1>5, <1>6, <1>7, <1>8, <1>9, <1>11,
     <1>14, <1>15, <1>16, <1>17, <1>18, <1>19, <1>20
     DEF Next, Request, Fill, Worker

\* Every VM that a backfill created is in a pool or in somebody's hands until
\* it is claimed or deleted, through agents that never answer, pauses and
\* resumes that fail and pools deleted before the push, if no store or delete
\* fails, no process ends mid-way and no create_pool overwrites a pool.
THEOREM NoMemberAbandoned ==
  ASSUME Mishaps = FALSE, Killable = {}
  PROVE  Spec /\ []NeverOverwrites => []NoneAbandoned
<1> DEFINE Inv == Typed /\ AllKept
<1>1. Init => Inv
  BY TypedInit DEF Init, AllKept, Owed
<1>2. Inv /\ NeverOverwrites /\ [Next]_vars => Inv'
  BY TypedNext, KeptNext
<1>3. Inv => NoneAbandoned
  BY KeptSuffices
<1> QED
  BY <1>1, <1>2, <1>3, PTL DEF Spec
=============================================================================
