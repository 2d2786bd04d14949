---------------------------- MODULE BlockCacheProofs ----------------------------
(***************************************************************************)
(* Proofs about module BlockCache, for every set of blocks, of sizes, of   *)
(* GC runs and of requests.                                                *)
(***************************************************************************)
EXTENDS BlockCache, FiniteSetTheorems, TLAPS

(***************************************************************************)
(* The types of the store, of the runs and of the requests.                *)
(***************************************************************************)
LEMMA InitType == Init => TypeOK
  BY GCAssumption, RequestAssumption
  DEF GCAssumption, RequestAssumption, Init, GCInit, TypeOK, GCTypeOK, RequestTypeOK

\* Whatever a run returns, its locals are well typed.
LEMMA ReturnType ==
  ASSUME TypeOK, NEW g \in Runs, NEW l \in {"ok", "failed"}, Return(g, l),
         UNCHANGED <<datastore, disk, cancelled, broken, ghosts, reqVars, seed>>
  PROVE  TypeOK'
  BY DEF Return, Goto, TypeOK, GCTypeOK, RequestTypeOK, ghosts, reqVars

\* A request leaves the runs alone, and its own state well typed.
LEMMA RequestType ==
  ASSUME TypeOK, NEW r \in Requests, RequestStep(r)
  PROVE  TypeOK'
<1> USE RequestAssumption DEF RequestAssumption, RequestTypeOK
<1>0. GCTypeOK /\ RequestTypeOK
  BY DEF TypeOK
<1>1. CASE withTracingAndDebug(r)
  <2>1. GCTypeOK'
    BY <1>0, <1>1 DEF withTracingAndDebug, GCTypeOK, gcVars, locals, ghosts
  <2>2. RequestTypeOK'
    BY <1>0, <1>1 DEF withTracingAndDebug
  <2> QED BY <2>1, <2>2 DEF TypeOK
<1>2. CASE ReadBlock(r)
  <2>1. GCTypeOK'
    BY <1>0, <1>2 DEF ReadBlock, GCTypeOK, gcVars, locals, ghosts
  <2>2. PICK b \in Blocks :
          IF b \in Held(r)
          THEN /\ answered' = [answered EXCEPT ![r] = @ \cup {b}]
               /\ UNCHANGED <<req, want>>
          ELSE /\ req' = [req EXCEPT ![r] = "fetching"]
               /\ want' = [want EXCEPT ![r] = b]
               /\ UNCHANGED answered
    BY <1>2 DEF ReadBlock
  <2>3. reads' \in [Requests -> 0..MaxReads]
    BY <1>0, <1>2 DEF ReadBlock
  <2>4. UNCHANGED <<ctx, scratch, fetched, seed>>
    BY <1>2 DEF ReadBlock
  <2>5. CASE b \in Held(r)
    <3>1. answered' \in [Requests -> SUBSET Blocks]
      BY <1>0, <2>2, <2>5
    <3>2. UNCHANGED <<req, want>>
      BY <2>2, <2>5
    <3>3. RequestTypeOK'
      BY <1>0, <2>3, <2>4, <3>1, <3>2
    <3> QED BY <2>1, <3>3 DEF TypeOK
  <2>6. CASE b \notin Held(r)
    <3>1. /\ req' = [req EXCEPT ![r] = "fetching"]
          /\ want' = [want EXCEPT ![r] = b]
          /\ UNCHANGED answered
      BY <2>2, <2>6
    <3>2. RequestTypeOK'
      BY <1>0, <2>3, <2>4, <3>1
    <3> QED BY <2>1, <3>2 DEF TypeOK
  <2> QED BY <2>5, <2>6
<1>3. CASE BlockArrives(r)
  <2>1. want[r] \in Blocks
    BY <1>0, <1>3 DEF BlockArrives
  <2>2. disk' \in SUBSET Blocks /\ scratch' \in [Requests -> SUBSET Blocks]
    BY <1>0, <1>3, <2>1 DEF BlockArrives, Put, GCTypeOK
  <2>3. GCTypeOK'
    BY <1>0, <1>3, <2>2 DEF BlockArrives, GCTypeOK, gcVars, locals, ghosts
  <2>4. RequestTypeOK'
    BY <1>0, <1>3, <2>1, <2>2 DEF BlockArrives
  <2> QED BY <2>3, <2>4 DEF TypeOK
<1>4. CASE FetchFails(r)
  <2>1. GCTypeOK'
    BY <1>0, <1>4 DEF FetchFails, GCTypeOK, gcVars, locals, ghosts
  <2>2. RequestTypeOK'
    BY <1>0, <1>4 DEF FetchFails
  <2> QED BY <2>1, <2>2 DEF TypeOK
<1>5. CASE RequestEnds(r)
  <2>1. GCTypeOK'
    BY <1>0, <1>5 DEF RequestEnds, GCTypeOK, gcVars, locals, ghosts
  <2>2. RequestTypeOK'
    BY <1>0, <1>5 DEF RequestEnds
  <2> QED BY <2>1, <2>2 DEF TypeOK
<1> QED BY <1>1, <1>2, <1>3, <1>4, <1>5 DEF RequestStep

LEMMA StepType == TypeOK /\ [Next]_vars => TypeOK'
<1> SUFFICES ASSUME TypeOK, [Next]_vars PROVE TypeOK'
  OBVIOUS
<1> USE GCAssumption, RequestAssumption DEF GCAssumption, RequestAssumption,
         TypeOK, GCTypeOK, RequestTypeOK, locals, ghosts
<1>1. ASSUME NEW g \in Runs, GCStep(g), UNCHANGED <<reqVars, seed>>
      PROVE  TypeOK'
  <2> USE <1>1 DEF reqVars, Goto
  <2>1. CASE AllKeysChan(g)
    <3>1. CASE Goto(g, "loop") /\ must' = [must EXCEPT ![g] = disk]
               /\ may' = [may EXCEPT ![g] = Blocks] /\ UNCHANGED <<todelete, cur, size>>
      BY <2>1, <3>1 DEF AllKeysChan
    <3>2. CASE Return(g, "ok") \/ Return(g, "failed")
      BY <2>1, <3>2, ReturnType DEF AllKeysChan
    <3> QED BY <2>1, <3>1, <3>2 DEF AllKeysChan
  <2>2. CASE ReceiveKey(g)
    BY <2>2 DEF ReceiveKey
  <2>3. CASE KeysClosed(g)
    BY <2>3 DEF KeysClosed
  <2>4. CASE ContextDone(g)
    BY <2>4, ReturnType DEF ContextDone
  <2>5. CASE GetSize(g)
    BY <2>5 DEF GetSize, SizesOf, SizeOnError
  <2>6. CASE DeleteBlock(g)
    <3>1. CASE Return(g, "failed") /\ UNCHANGED <<disk, ghosts>>
      BY <2>6, <3>1, ReturnType DEF DeleteBlock
    <3>2. CASE ~(Return(g, "failed") /\ UNCHANGED <<disk, ghosts>>)
      <4>1. Removed(g, cur[g]) /\ UNCHANGED <<may, target, missed>>
        BY <2>6, <3>2 DEF DeleteBlock
      <4>2. cur[g] \in Blocks
        BY <2>6 DEF DeleteBlock
      <4>3. (IF cur[g] \in disk THEN Size[cur[g]] ELSE 0) \in Nat
        BY <4>2
      <4>4. /\ disk' \in SUBSET Blocks
            /\ must' \in [Runs -> SUBSET Blocks]
            /\ left' \in [Runs -> SUBSET Blocks]
        BY <4>1 DEF Removed
      <4>5. freed' \in [Runs -> Nat] /\ own' \in [Runs -> Nat]
        BY <4>1, <4>3 DEF Removed
      <4>6. /\ pc' = [pc EXCEPT ![g] = "loop"]
            /\ todelete' = [todelete EXCEPT ![g] = @ - size[g]]
            /\ cur' = [cur EXCEPT ![g] = NoBlock]
            /\ size' = [size EXCEPT ![g] = 0]
            /\ UNCHANGED <<datastore, cancelled, broken>>
        BY <2>6, <3>2 DEF DeleteBlock, Charged
      <4> QED BY <4>1, <4>4, <4>5, <4>6
    <3> QED BY <3>1, <3>2
  <2>7. CASE EnoughDeleted(g)
    BY <2>7 DEF EnoughDeleted
  <2>8. CASE CollectGarbage(g)
    BY <2>8, ReturnType DEF CollectGarbage
  <2> QED BY <2>1, <2>2, <2>3, <2>4, <2>5, <2>6, <2>7, <2>8 DEF GCStep
<1>2. ASSUME NEW g \in Runs, GCEnvironment(g), UNCHANGED <<reqVars, seed>>
      PROVE  TypeOK'
  <2> USE <1>2 DEF reqVars, Goto, CallGC
  <2>1. CASE gcHandler(g)
    BY <2>1 DEF gcHandler
  <2>2. CASE periodicGC(g)
    <3>1. CASE UNCHANGED <<locals, ghosts>>
      BY <2>2, <3>1 DEF periodicGC, CallGC
    <3>2. CASE \E n \in Int : CallGC(g, n)
      BY <2>2, <3>2 DEF periodicGC
    <3>3. \A free \in 0..Capacity : BytesToFree(free) \in Int
      BY DEF BytesToFree
    <3> QED BY <2>2, <3>1, <3>2, <3>3 DEF periodicGC
  <2>3. CASE CancelContext(g)
    BY <2>3 DEF CancelContext
  <2>4. CASE QueryFails(g)
    BY <2>4 DEF QueryFails
  <2> QED BY <2>1, <2>2, <2>3, <2>4 DEF GCEnvironment
<1>3. ASSUME NEW r \in Requests, RequestStep(r)
      PROVE  TypeOK'
  BY <1>3, RequestType
<1>4. CASE UNCHANGED vars
  BY <1>4 DEF vars, gcVars, reqVars
<1> QED BY <1>1, <1>2, <1>3, <1>4 DEF Next

\* Type correctness: TypeOK is an invariant of the block cache.
THEOREM TypeCorrect == Spec => []TypeOK
<1>1. Init => TypeOK
  BY InitType
<1>2. TypeOK /\ [Next]_vars => TypeOK'
  BY StepType
<1> QED BY <1>1, <1>2, PTL DEF Spec

-----------------------------------------------------------------------------
(***************************************************************************)
(* What holds of one run: the conjuncts of IndInv that speak of runs, and  *)
(* the two properties of a run.                                            *)
(***************************************************************************)
KeptByRun(g) ==
  pc[g] = "ok" /\ Intact(g) => freed[g] >= target[g] \/ left[g] = {}

BoundedByRun(g) ==
  ~missed[g] /\ own[g] > 0 => \E b \in Blocks : own[g] < target[g] + Size[b]

RunInv(g) ==
  /\ Fresh(g)
  /\ Listed(g)
  /\ ChargedWasFreed(g)
  /\ TakenIsCharged(g)
  /\ KeptByRun(g)
  /\ BoundedByRun(g)

GCInv == NoStoreNoBlocks /\ \A g \in Runs : RunInv(g)

\* What a run of its own did not do, and what takes nothing from the store,
\* leaves its books in order.
LEMMA Frame ==
  ASSUME TypeOK, NEW h \in Runs, RunInv(h), disk \subseteq disk',
         pc'[h] = pc[h], todelete'[h] = todelete[h], must'[h] = must[h],
         cur'[h] = cur[h], size'[h] = size[h], cancelled'[h] = cancelled[h],
         broken'[h] = broken[h], target'[h] = target[h],
         freed'[h] = freed[h], own'[h] = own[h], left'[h] = left[h],
         missed'[h] = missed[h]
  PROVE  RunInv(h)'
<1>1. Listed(h)'
  BY DEF RunInv, Listed, Active, InLoop, Intact
<1>2. ChargedWasFreed(h)'
  BY DEF RunInv, ChargedWasFreed, Active
<1>3. TakenIsCharged(h)'
  BY DEF RunInv, TakenIsCharged, Active
<1>4. Fresh(h)' /\ KeptByRun(h)'
  BY DEF RunInv, Fresh, KeptByRun, Intact
<1>5. BoundedByRun(h)'
  BY DEF RunInv, BoundedByRun
<1> QED BY <1>1, <1>2, <1>3, <1>4, <1>5 DEF RunInv

\* A run that returns without success has no books left to keep but the bound
\* on what it took.
LEMMA ReturnFailed ==
  ASSUME TypeOK, NEW g \in Runs, RunInv(g), Return(g, "failed"), UNCHANGED ghosts
  PROVE  RunInv(g)'
  BY DEF Return, Goto, ghosts, RunInv, Fresh, Listed, ChargedWasFreed, TakenIsCharged,
         KeptByRun, BoundedByRun, Active, InLoop, TypeOK, GCTypeOK

-----------------------------------------------------------------------------
(***************************************************************************)
(* The steps of a run.                                                     *)
(***************************************************************************)
LEMMA BeginKeeps ==
  ASSUME TypeOK, GCInv, NEW g \in Runs, gcHandler(g) \/ periodicGC(g)
  PROVE  RunInv(g)'
<1> USE DEF TypeOK, GCTypeOK
<1>1. pc[g] = "idle" /\ RunInv(g)
  BY DEF GCInv, gcHandler, periodicGC
<1>2. ASSUME NEW n \in Int, CallGC(g, n), UNCHANGED <<disk, cancelled, broken>>
      PROVE  RunInv(g)'
  BY <1>1, <1>2 DEF CallGC, Goto, RunInv, Fresh, Listed, ChargedWasFreed,
     TakenIsCharged, KeptByRun, BoundedByRun, Active, InLoop
<1>3. CASE gcHandler(g)
  BY <1>2, <1>3, GCAssumption DEF gcHandler, GCAssumption
<1>4. CASE periodicGC(g)
  <2>1. ASSUME NEW free \in 0..Capacity, CallGC(g, BytesToFree(free))
        PROVE  RunInv(g)'
    <3>1. BytesToFree(free) \in Int
      BY GCAssumption DEF GCAssumption, BytesToFree
    <3> QED BY <1>2, <1>4, <2>1, <3>1 DEF periodicGC
  <2>2. CASE /\ Goto(g, "failed") \/ Goto(g, "ok")
             /\ UNCHANGED <<locals, ghosts>>
    BY <1>1, <1>4, <2>2 DEF periodicGC, Goto, locals, ghosts, RunInv, Fresh,
       Listed, ChargedWasFreed, TakenIsCharged, KeptByRun, BoundedByRun, Active, InLoop
  <2> QED BY <1>4, <2>1, <2>2 DEF periodicGC
<1> QED BY <1>3, <1>4

LEMMA ListKeeps ==
  ASSUME TypeOK, GCInv, NEW g \in Runs,
         AllKeysChan(g) \/ ReceiveKey(g) \/ KeysClosed(g)
  PROVE  RunInv(g)'
<1> USE DEF TypeOK, GCTypeOK
<1>1. RunInv(g)
  BY DEF GCInv
<1>2. CASE AllKeysChan(g)
  <2>1. left[g] \subseteq disk
    BY <1>1, <1>2 DEF AllKeysChan, RunInv, Listed, Active
  <2>2. CASE datastore = "none" /\ Return(g, "ok")
    <3>1. left[g] = {}
      BY <2>1, <2>2 DEF GCInv, NoStoreNoBlocks
    <3> QED BY <1>1, <1>2, <2>2, <3>1 DEF AllKeysChan, Return, Goto, ghosts, RunInv,
            Fresh, Listed, ChargedWasFreed, TakenIsCharged, KeptByRun,
            BoundedByRun, Active, InLoop
  <2>3. CASE Return(g, "failed")
    BY <1>1, <1>2, <2>3, ReturnFailed DEF AllKeysChan
  <2>4. CASE /\ Goto(g, "loop")
             /\ must' = [must EXCEPT ![g] = disk]
             /\ UNCHANGED <<todelete, cur, size>>
    BY <1>1, <1>2, <2>1, <2>4 DEF AllKeysChan, Goto, ghosts, RunInv, Fresh,
       Listed, ChargedWasFreed, TakenIsCharged, KeptByRun, BoundedByRun, Active
  <2> QED BY <1>2, <2>2, <2>3, <2>4 DEF AllKeysChan
<1>3. CASE ReceiveKey(g)
  <2>1. PICK k \in may[g] :
             cur' = [cur EXCEPT ![g] = k] /\ must' = [must EXCEPT ![g] = @ \ {k}]
    BY <1>3 DEF ReceiveKey
  <2>2. left[g] \subseteq disk /\ (Intact(g) => left[g] \subseteq must[g])
    BY <1>1, <1>3 DEF ReceiveKey, RunInv, Listed, Active, InLoop
  <2> QED BY <1>1, <1>3, <2>1, <2>2 DEF ReceiveKey, Goto, ghosts, RunInv, Fresh,
          Listed, ChargedWasFreed, TakenIsCharged, KeptByRun, BoundedByRun,
          Active, InLoop, Intact
<1>4. CASE KeysClosed(g)
  <2>1. Intact(g) => left[g] = {}
    BY <1>1, <1>4 DEF KeysClosed, RunInv, Listed, Active, InLoop
  <2> QED BY <1>1, <1>4, <2>1 DEF KeysClosed, Goto, locals, ghosts, RunInv, Fresh,
          Listed, ChargedWasFreed, TakenIsCharged, KeptByRun, BoundedByRun,
          Active, InLoop, Intact
<1> QED BY <1>2, <1>3, <1>4

LEMMA OtherStepKeeps ==
  ASSUME TypeOK, GCInv, NEW g \in Runs,
         \/ ContextDone(g) \/ GetSize(g) \/ EnoughDeleted(g) \/ CollectGarbage(g)
         \/ CancelContext(g) \/ QueryFails(g)
  PROVE  RunInv(g)'
<1> USE DEF TypeOK, GCTypeOK
<1>1. RunInv(g)
  BY DEF GCInv
<1>2. CASE ContextDone(g)
  BY <1>1, <1>2, ReturnFailed DEF ContextDone
<1>3. CASE GetSize(g)
  <2>1. PICK n \in SizesOf(cur[g]) :
             /\ size' = [size EXCEPT ![g] = n]
             /\ missed' = [missed EXCEPT ![g] = @ \/ n = SizeOnError]
    BY <1>3 DEF GetSize
  <2>2. /\ cur[g] \in Blocks /\ Size[cur[g]] \in Nat
        /\ n = -1 \/ (n = Size[cur[g]] /\ cur[g] \in disk)
    BY <1>3, GCAssumption DEF GetSize, GCAssumption, SizesOf, SizeOnError
  <2>3. /\ UNCHANGED <<disk, todelete, must, cur, target, freed, own, left, cancelled, broken>>
        /\ pc[g] = "have" /\ pc' = [pc EXCEPT ![g] = "sized"]
    BY <1>3 DEF GetSize, Goto
  <2>4. Fresh(g)' /\ Listed(g)' /\ KeptByRun(g)'
    BY <1>1, <2>3 DEF RunInv, Fresh, Listed, KeptByRun, Active, Intact
  <2>5. ChargedWasFreed(g)'
    BY <1>1, <2>1, <2>2, <2>3 DEF RunInv, ChargedWasFreed, Active
  <2>6. TakenIsCharged(g)' /\ BoundedByRun(g)'
    BY <1>1, <2>1, <2>2, <2>3 DEF RunInv, TakenIsCharged, BoundedByRun, Active, SizeOnError
  <2> QED BY <2>4, <2>5, <2>6 DEF RunInv
<1>4. CASE EnoughDeleted(g)
  BY <1>1, <1>4 DEF EnoughDeleted, Goto, locals, ghosts, RunInv, Fresh, Listed,
     ChargedWasFreed, TakenIsCharged, KeptByRun, BoundedByRun, Active
<1>5. CASE CollectGarbage(g)
  <2>1. CASE Return(g, "failed")
    BY <1>1, <1>5, <2>1, ReturnFailed DEF CollectGarbage
  <2>2. CASE Return(g, "ok")
    <3>1. Intact(g) => freed[g] >= target[g] \/ left[g] = {}
      BY <1>1, <1>5 DEF CollectGarbage, RunInv, Listed, ChargedWasFreed, Active
    <3> QED BY <1>1, <1>5, <2>2, <3>1 DEF CollectGarbage, Return, Goto, ghosts,
            RunInv, Fresh, Listed, ChargedWasFreed, TakenIsCharged, KeptByRun,
            BoundedByRun, Active, Intact
  <2> QED BY <1>5, <2>1, <2>2 DEF CollectGarbage
<1>6. CASE CancelContext(g) \/ QueryFails(g)
  <2>1. Intact(g)' => Intact(g)
    BY <1>6 DEF CancelContext, QueryFails, Intact
  <2> QED BY <1>1, <1>6, <2>1 DEF CancelContext, QueryFails, locals, ghosts, RunInv,
          Fresh, Listed, ChargedWasFreed, TakenIsCharged, KeptByRun, BoundedByRun, Active
<1> QED BY <1>2, <1>3, <1>4, <1>5, <1>6

\* The one step that touches the books of other runs.  The block may be gone
\* already, and another run may be holding its size.
LEMMA DeleteBlockKeeps ==
  ASSUME TypeOK, GCInv, NEW g \in Runs, NEW h \in Runs, DeleteBlock(g)
  PROVE  RunInv(h)'
<1> USE DEF TypeOK, GCTypeOK
<1>1. RunInv(g) /\ RunInv(h)
  BY DEF GCInv
<1>2. CASE Return(g, "failed") /\ UNCHANGED <<disk, ghosts>>
  <2>1. CASE h = g
    BY <1>1, <1>2, <2>1, ReturnFailed
  <2>2. CASE h # g
    BY <1>1, <1>2, <2>2, Frame DEF DeleteBlock, Return, Goto, ghosts
  <2> QED BY <2>1, <2>2
<1>3. CASE ~(Return(g, "failed") /\ UNCHANGED <<disk, ghosts>>)
  <2> DEFINE c == cur[g]
             here == IF c \in disk THEN Size[c] ELSE 0
  <2>1. /\ c \in Blocks /\ Size[c] \in Nat /\ here \in Nat
        /\ pc[g] = "sized"
    BY <1>3, GCAssumption DEF DeleteBlock, GCAssumption
  <2>2. /\ disk' = disk \ {c}
        /\ must' = [i \in Runs |-> must[i] \ {c}]
        /\ left' = [i \in Runs |-> IF Active(i) THEN left[i] \ {c} ELSE left[i]]
        /\ freed' = [i \in Runs |-> IF Active(i) THEN freed[i] + here ELSE freed[i]]
        /\ own' = [own EXCEPT ![g] = @ + here]
    BY <1>3 DEF DeleteBlock, Removed
  <2>3. /\ pc' = [pc EXCEPT ![g] = "loop"]
        /\ todelete' = [todelete EXCEPT ![g] = @ - size[g]]
        /\ cur' = [cur EXCEPT ![g] = NoBlock]
        /\ size' = [size EXCEPT ![g] = 0]
        /\ UNCHANGED <<target, missed, cancelled, broken>>
    BY <1>3 DEF DeleteBlock, Charged, Goto
  <2> HIDE DEF here
  <2>4. Active(h)' <=> Active(h)
    BY <2>1, <2>3 DEF Active
  <2>5. Fresh(h)' /\ KeptByRun(h)'
    BY <1>1, <2>1, <2>2, <2>3 DEF RunInv, Fresh, KeptByRun, Active, Intact
  <2>6. Listed(h)'
    BY <1>1, <2>1, <2>2, <2>3, <2>4 DEF RunInv, Listed, Active, Intact
  <2>7. ChargedWasFreed(h)'
    <3>1. CASE h = g
      BY <1>1, <2>1, <2>2, <2>3, <2>4, <3>1 DEF RunInv, ChargedWasFreed, Active, here
    <3>2. CASE h # g
      <4>1. Active(h) => target[h] - freed[h] - here <= todelete[h]
        BY <1>1, <2>1 DEF RunInv, ChargedWasFreed
      <4>2. ASSUME pc[h] = "sized", cur[h] \notin disk'
            PROVE  target[h] - freed[h] - here <= todelete[h] - size[h]
        <5>1. CASE cur[h] \notin disk
          BY <1>1, <2>1, <4>2, <5>1 DEF RunInv, ChargedWasFreed
        <5>2. CASE cur[h] = c /\ c \in disk
          BY <1>1, <2>1, <4>1, <4>2, <5>2 DEF RunInv, ChargedWasFreed, Active, here
        <5> QED BY <2>2, <4>2, <5>1, <5>2
      <4> QED BY <1>1, <2>1, <2>2, <2>3, <2>4, <3>2, <4>1, <4>2
              DEF RunInv, ChargedWasFreed, Active
    <3> QED BY <3>1, <3>2
  <2>8. TakenIsCharged(h)' /\ BoundedByRun(h)'
    <3>1. CASE h = g
      <4>1. ~missed[g] => size[g] = Size[c] /\ own[g] + todelete[g] <= target[g]
        BY <1>1, <2>1 DEF RunInv, TakenIsCharged, Active
      <4>2. todelete[g] > 0 /\ here <= Size[c]
        BY <1>1, <2>1 DEF RunInv, TakenIsCharged, here
      <4> QED BY <2>1, <2>2, <2>3, <3>1, <4>1, <4>2
              DEF TakenIsCharged, BoundedByRun, Active
    <3>2. CASE h # g
      BY <1>1, <2>2, <2>3, <2>4, <3>2 DEF RunInv, TakenIsCharged, BoundedByRun, Active
    <3> QED BY <3>1, <3>2
  <2> QED BY <2>5, <2>6, <2>7, <2>8 DEF RunInv
<1> QED BY <1>2, <1>3

-----------------------------------------------------------------------------
(***************************************************************************)
(* All the steps together.                                                 *)
(***************************************************************************)

\* But for a deletion, a run's step leaves the store and the books of the
\* other runs alone.
LEMMA QuietForOthers ==
  ASSUME TypeOK, GCInv, NEW g \in Runs, NEW h \in Runs, h # g,
         GCStep(g) \/ GCEnvironment(g), ~DeleteBlock(g)
  PROVE  RunInv(h)'
<1> USE DEF TypeOK, GCTypeOK, locals, ghosts
<1>1. RunInv(h)
  BY DEF GCInv
<1>2. CASE gcHandler(g) \/ periodicGC(g)
  BY <1>1, <1>2, Frame DEF gcHandler, periodicGC, CallGC, Goto
<1>3. CASE AllKeysChan(g)
  BY <1>1, <1>3, Frame DEF AllKeysChan, Return, Goto
<1>4. CASE ReceiveKey(g) \/ KeysClosed(g) \/ EnoughDeleted(g)
  BY <1>1, <1>4, Frame DEF ReceiveKey, KeysClosed, EnoughDeleted, Goto
<1>5. CASE GetSize(g)
  BY <1>1, <1>5, Frame DEF GetSize, Goto
<1>6. CASE ContextDone(g) \/ CollectGarbage(g)
  BY <1>1, <1>6, Frame DEF ContextDone, CollectGarbage, Return, Goto
<1>7. CASE CancelContext(g) \/ QueryFails(g)
  BY <1>1, <1>7, Frame DEF CancelContext, QueryFails
<1> QED BY <1>2, <1>3, <1>4, <1>5, <1>6, <1>7 DEF GCStep, GCEnvironment

\* Runs put nothing in the store.
LEMMA RunsOnlyDelete ==
  ASSUME NEW g \in Runs, GCStep(g) \/ GCEnvironment(g)
  PROVE  disk' \subseteq disk /\ datastore' = datastore
<1>1. CASE GCStep(g)
  BY <1>1 DEF GCStep, AllKeysChan, ReceiveKey, KeysClosed, ContextDone, GetSize,
     DeleteBlock, Removed, EnoughDeleted, CollectGarbage
<1>2. CASE GCEnvironment(g)
  BY <1>2 DEF GCEnvironment, gcHandler, periodicGC, CancelContext, QueryFails
<1> QED BY <1>1, <1>2

LEMMA StepGCInv == TypeOK /\ GCInv /\ [Next]_vars => GCInv'
<1> SUFFICES ASSUME TypeOK, GCInv, [Next]_vars PROVE GCInv'
  OBVIOUS
<1>1. ASSUME NEW g \in Runs, GCStep(g) \/ GCEnvironment(g), UNCHANGED <<reqVars, seed>>
      PROVE  GCInv'
  <2>1. ASSUME NEW h \in Runs PROVE RunInv(h)'
    <3>1. CASE DeleteBlock(g)
      BY <3>1, DeleteBlockKeeps
    <3>2. CASE ~DeleteBlock(g) /\ h # g
      BY <1>1, <3>2, QuietForOthers
    <3>3. CASE ~DeleteBlock(g) /\ h = g
      BY <1>1, <3>3, BeginKeeps, ListKeeps, OtherStepKeeps DEF GCStep, GCEnvironment
    <3> QED BY <3>1, <3>2, <3>3
  <2>2. NoStoreNoBlocks'
    BY <1>1, RunsOnlyDelete DEF GCInv, NoStoreNoBlocks, reqVars
  <2> QED BY <2>1, <2>2 DEF GCInv
<1>2. ASSUME NEW r \in Requests, RequestStep(r)
      PROVE  GCInv'
  <2>1. disk \subseteq disk' /\ UNCHANGED <<datastore, gcVars>>
    BY <1>2 DEF RequestStep, withTracingAndDebug, ReadBlock, BlockArrives, Put,
       FetchFails, RequestEnds
  <2>2. \A h \in Runs : RunInv(h)'
    BY <2>1, Frame DEF GCInv, gcVars, locals, ghosts
  <2>3. datastore # "none"
    BY <1>2 DEF GCInv, NoStoreNoBlocks, RequestStep, withTracingAndDebug, ReadBlock,
       BlockArrives, FetchFails, RequestEnds
  <2> QED BY <2>1, <2>2, <2>3 DEF GCInv, NoStoreNoBlocks
<1>3. CASE UNCHANGED vars
  <2>1. \A h \in Runs : RunInv(h)'
    BY <1>3, Frame DEF GCInv, vars, gcVars, locals, ghosts
  <2> QED BY <1>3, <2>1 DEF GCInv, NoStoreNoBlocks, vars, reqVars
<1> QED BY <1>1, <1>2, <1>3 DEF Next

LEMMA InitGCInv == Init => GCInv
  BY DEF Init, GCInit, GCInv, NoStoreNoBlocks, RunInv, Fresh, Listed,
     ChargedWasFreed, TakenIsCharged, KeptByRun, BoundedByRun, Active, InLoop

LEMMA GCInvariant == Spec => []GCInv
<1>1. Init => GCInv
  BY InitGCInv
<1>2. TypeOK /\ GCInv /\ [Next]_vars => GCInv'
  BY StepGCInv
<1> QED BY <1>1, <1>2, TypeCorrect, PTL DEF Spec

\* A run that reports success has seen enough bytes leave, or the store it found
\* gone: invariant for every number of runs and of requests.
THEOREM SuccessIsHonest == Spec => []SuccessFreesEnough
<1>1. GCInv => SuccessFreesEnough
  BY DEF GCInv, RunInv, KeptByRun, SuccessFreesEnough
<1> QED BY <1>1, GCInvariant, PTL

\* With every size known, a run deletes less than one block too much.
THEOREM OvershootIsBounded == Spec => []OvershootBounded
<1>1. GCInv => OvershootBounded
  BY DEF GCInv, RunInv, BoundedByRun, OvershootBounded
<1> QED BY <1>1, GCInvariant, PTL

-----------------------------------------------------------------------------
(***************************************************************************)
(* The requests.                                                           *)
(***************************************************************************)
ReqInv ==
  /\ \A r \in Requests : RequestBooks(r)
  /\ CacheFromOrdinary
  /\ ScratchFromNetwork

LEMMA StepReqInv == TypeOK /\ ReqInv /\ [Next]_vars => ReqInv'
<1> SUFFICES ASSUME TypeOK, ReqInv, [Next]_vars PROVE ReqInv'
  OBVIOUS
<1> USE DEF TypeOK, RequestTypeOK, ReqInv, RequestBooks, CacheFromOrdinary, ScratchFromNetwork
<1>1. ASSUME NEW g \in Runs, GCStep(g) \/ GCEnvironment(g), UNCHANGED <<reqVars, seed>>
      PROVE  ReqInv'
  BY <1>1, RunsOnlyDelete DEF reqVars
<1>2. ASSUME NEW r \in Requests, RequestStep(r)
      PROVE  ReqInv'
  <2>1. CASE withTracingAndDebug(r)
    <3>1. /\ UNCHANGED <<disk, scratch, answered, fetched, seed>>
          /\ answered[r] = {} /\ fetched[r] = {}
      BY <2>1 DEF withTracingAndDebug
    <3>2. \A q \in Requests : q # r => req'[q] = req[q] /\ ctx'[q] = ctx[q]
      BY <2>1 DEF withTracingAndDebug
    <3>3. \A q \in Requests : RequestBooks(q)'
      BY <3>1, <3>2
    <3>4. ScratchFromNetwork'
      BY <3>1, <3>2
    <3>5. CacheFromOrdinary'
      BY <3>1, <3>2
    <3> QED BY <3>3, <3>4, <3>5
  <2>2. CASE ReadBlock(r)
    <3>1. PICK b \in Blocks : IF b \in Held(r)
                              THEN answered' = [answered EXCEPT ![r] = @ \cup {b}] /\ UNCHANGED req
                              ELSE UNCHANGED answered /\ req' = [req EXCEPT ![r] = "fetching"]
      BY <2>2 DEF ReadBlock
    <3>2. ctx[r] = "scratch" /\ b \in Held(r) => b \in fetched[r]
      BY DEF Held, getBlockstore
    <3> QED BY <2>2, <3>1, <3>2 DEF ReadBlock
  <2>3. CASE BlockArrives(r)
    <3>1. /\ fetched' = [fetched EXCEPT ![r] = @ \cup {want[r]}]
          /\ answered' = [answered EXCEPT ![r] = @ \cup {want[r]}]
          /\ req' = [req EXCEPT ![r] = "open"]
          /\ UNCHANGED <<ctx, seed>>
      BY <2>3 DEF BlockArrives
    <3>2. CASE ctx[r] = "scratch"
      <4>1. scratch' = [scratch EXCEPT ![r] = @ \cup {want[r]}] /\ disk' = disk
        BY <2>3, <3>2 DEF BlockArrives, Put, getBlockstore
      <4> QED BY <3>1, <4>1
    <3>3. CASE ctx[r] # "scratch"
      <4>1. scratch' = scratch /\ disk' = disk \cup {want[r]}
        BY <2>3, <3>3 DEF BlockArrives, Put, getBlockstore
      <4>2. ctx[r] = "shared" /\ want[r] \in fetched'[r]
        BY <3>1, <3>3
      <4> QED BY <3>1, <4>1, <4>2
    <3> QED BY <3>2, <3>3
  <2>4. CASE FetchFails(r)
    BY <2>4 DEF FetchFails
  <2>5. CASE RequestEnds(r)
    BY <2>5 DEF RequestEnds
  <2> QED BY <1>2, <2>1, <2>2, <2>3, <2>4, <2>5 DEF RequestStep
<1>3. CASE UNCHANGED vars
  BY <1>3 DEF vars, reqVars
<1> QED BY <1>1, <1>2, <1>3 DEF Next

LEMMA ReqInvariant == Spec => []ReqInv
<1>1. Init => ReqInv
  BY DEF Init, ReqInv, RequestBooks, CacheFromOrdinary, ScratchFromNetwork
<1>2. TypeOK /\ ReqInv /\ [Next]_vars => ReqInv'
  BY StepReqInv
<1> QED BY <1>1, <1>2, TypeCorrect, PTL DEF Spec

\* What a No-Blockcache request fetches never ends up in the shared cache.
THEOREM CacheIsOrdinary == Spec => []CacheFromOrdinary
<1>1. ReqInv => CacheFromOrdinary
  BY DEF ReqInv
<1> QED BY <1>1, ReqInvariant, PTL

\* A No-Blockcache request is never answered from the shared cache.
THEOREM ScratchIsFetched == Spec => []ScratchFromNetwork
<1>1. ReqInv => ScratchFromNetwork
  BY DEF ReqInv
<1> QED BY <1>1, ReqInvariant, PTL

-----------------------------------------------------------------------------
(***************************************************************************)
(* The cache implements EvictionPromise.                                   *)
(***************************************************************************)
phases == [g \in Runs |-> Phase(g)]

LEMMA PhaseStep ==
  ASSUME TypeOK, NEW g \in Runs, NEW l, pc' = [pc EXCEPT ![g] = l],
         UNCHANGED <<cancelled, broken>>
  PROVE  phases' = [phases EXCEPT ![g] = Phase(g)']
  BY DEF phases, Phase, Active, Intact, TypeOK, GCTypeOK

LEMMA ReturnIsAllowed ==
  ASSUME TypeOK, GCInv', NEW g \in Runs, Active(g) \/ pc[g] = "idle",
         Goto(g, "ok") \/ Goto(g, "failed"),
         UNCHANGED <<disk, cancelled, broken, ghosts>>
  PROVE  Promise!Next
<1> USE DEF TypeOK, GCTypeOK
<1>1. phases' = [phases EXCEPT ![g] = Phase(g)']
  BY PhaseStep DEF Goto
<1>2. Phase(g) \in {"idle", "running"} /\ Phase(g)' \in {"kept", "gave up"}
  BY DEF Phase, Active, Goto
<1>3. CASE Phase(g)' = "kept"
  <2>1. pc'[g] = "ok" /\ Intact(g)'
    BY <1>3 DEF Phase, Active, Intact, Goto
  <2>2. freed[g] >= target[g] \/ left[g] = {}
    BY <2>1 DEF GCInv, RunInv, KeptByRun, ghosts
  <2> QED BY <1>1, <1>2, <1>3, <2>2 DEF Promise!Next, Promise!KeepPromise, phases, ghosts
<1>4. CASE Phase(g)' = "gave up"
  BY <1>1, <1>2, <1>4 DEF Promise!Next, Promise!GiveUp, phases, ghosts
<1> QED BY <1>2, <1>3, <1>4

LEMMA BeginIsAllowed ==
  ASSUME TypeOK, NEW g \in Runs, NEW n \in Targets \cup 0..MinFree, CallGC(g, n),
         pc[g] = "idle", UNCHANGED <<disk, cancelled, broken>>
  PROVE  Promise!Next
<1>1. phases' = [phases EXCEPT ![g] = Phase(g)']
  BY PhaseStep DEF CallGC, Goto
<1>2. Phase(g) = "idle" /\ Phase(g)' = "running"
  BY DEF Phase, Active, CallGC, Goto, TypeOK, GCTypeOK
<1> QED BY <1>1, <1>2 DEF CallGC, Promise!Next, Promise!Begin, phases

\* A run that goes on, and takes nothing from the store, is invisible.
LEMMA GoOnIsInvisible ==
  ASSUME TypeOK, NEW g \in Runs, NEW l, Active(g), Goto(g, l),
         l \notin {"idle", "ok", "failed"},
         UNCHANGED <<disk, cancelled, broken, target, freed, left>>
  PROVE  UNCHANGED Promise!vars
<1>1. phases' = [phases EXCEPT ![g] = Phase(g)']
  BY PhaseStep DEF Goto
<1>2. Phase(g)' = Phase(g)
  BY DEF Phase, Active, Goto, TypeOK, GCTypeOK
<1> QED BY <1>1, <1>2 DEF Promise!vars, phases

LEMMA DeleteIsEvict ==
  ASSUME TypeOK, GCInv, GCInv', NEW g \in Runs, DeleteBlock(g)
  PROVE  Promise!Next \/ UNCHANGED Promise!vars
<1> USE DEF TypeOK, GCTypeOK
<1>1. CASE Return(g, "failed") /\ UNCHANGED <<disk, ghosts>>
  BY <1>1, ReturnIsAllowed DEF DeleteBlock, Return, Active
<1>2. CASE ~(Return(g, "failed") /\ UNCHANGED <<disk, ghosts>>)
  <2> DEFINE c == cur[g]
  <2>1. /\ c \in Blocks /\ pc[g] = "sized" /\ Goto(g, "loop")
        /\ Removed(g, c) /\ UNCHANGED <<target, cancelled, broken>>
    BY <1>2 DEF DeleteBlock
  <2>2. phases' = phases
    <3>1. phases' = [phases EXCEPT ![g] = Phase(g)']
      BY <2>1, PhaseStep DEF Goto
    <3>2. Phase(g)' = Phase(g) /\ Phase(g) = "running"
      BY <2>1 DEF Phase, Active, Goto
    <3> QED BY <3>1, <3>2 DEF phases
  <2>3. \A h \in Runs : phases[h] = "running" <=> Active(h)
    BY DEF phases, Phase
  <2> HIDE DEF c
  <2>4. CASE c \in disk
    <3>1. phases[g] = "running"
      BY <2>1, <2>3 DEF Active
    <3>2. freed' = [h \in Runs |-> IF phases[h] = "running" THEN freed[h] + Size[c] ELSE freed[h]]
      BY <2>1, <2>3, <2>4 DEF Removed
    <3>3. left' = [h \in Runs |-> IF phases[h] = "running" THEN left[h] \ {c} ELSE left[h]]
      BY <2>1, <2>3 DEF Removed
    <3>4. disk' = disk \ {c} /\ target' = target
      BY <2>1 DEF Removed
    <3>5. \A h \in Runs : Promise!Running(h) <=> phases[h] = "running"
      BY DEF Promise!Running, phases
    <3>6. /\ freed' = [h \in Runs |-> IF Promise!Running(h) THEN freed[h] + Size[c] ELSE freed[h]]
          /\ left' = [h \in Runs |-> IF Promise!Running(h) THEN left[h] \ {c} ELSE left[h]]
          /\ \E h \in Runs : Promise!Running(h)
      BY <3>1, <3>2, <3>3, <3>5
    <3>7. Promise!Evict(c)
      BY <2>2, <2>4, <3>4, <3>6 DEF Promise!Evict, phases
    <3> QED BY <2>1, <3>7 DEF Promise!Next
  <2>5. CASE c \notin disk
    <3>1. disk' = disk
      BY <2>1, <2>5 DEF Removed
    <3>2. freed' = freed
      BY <2>1, <2>5 DEF Removed
    <3>3. \A h \in Runs : Active(h) => left[h] \ {c} = left[h]
      BY <2>5 DEF GCInv, RunInv, Listed
    <3>4. left' = left
      BY <2>1, <3>3 DEF Removed
    <3>5. phases' = phases /\ target' = target
      BY <2>1, <2>2
    <3> QED BY <3>1, <3>2, <3>4, <3>5 DEF Promise!vars, phases
  <2> QED BY <2>4, <2>5
<1> QED BY <1>1, <1>2

LEMMA StepIsAllowed ==
  TypeOK /\ GCInv /\ GCInv' /\ [Next]_vars => [Promise!Next]_(Promise!vars)
<1> SUFFICES ASSUME TypeOK, GCInv, GCInv', [Next]_vars
             PROVE  Promise!Next \/ UNCHANGED Promise!vars
  OBVIOUS
<1>1. ASSUME NEW g \in Runs, GCStep(g)
      PROVE  Promise!Next \/ UNCHANGED Promise!vars
  <2>1. CASE AllKeysChan(g)
    <3>1. pc[g] = "called"
      BY <2>1 DEF AllKeysChan
    <3>2. CASE Goto(g, "loop")
      BY <2>1, <3>1, <3>2, GoOnIsInvisible DEF AllKeysChan, Active, ghosts
    <3>3. CASE Return(g, "ok") \/ Return(g, "failed")
      BY <2>1, <3>1, <3>3, ReturnIsAllowed DEF AllKeysChan, Active, Return
    <3> QED BY <2>1, <3>2, <3>3 DEF AllKeysChan
  <2>2. CASE ReceiveKey(g)
    BY <2>2, GoOnIsInvisible DEF ReceiveKey, Active, ghosts
  <2>3. CASE KeysClosed(g)
    BY <2>3, GoOnIsInvisible DEF KeysClosed, Active, ghosts
  <2>4. CASE ContextDone(g)
    BY <2>4, ReturnIsAllowed DEF ContextDone, Active, Return
  <2>5. CASE GetSize(g)
    BY <2>5, GoOnIsInvisible DEF GetSize, Active
  <2>6. CASE DeleteBlock(g)
    BY <2>6, DeleteIsEvict
  <2>7. CASE EnoughDeleted(g)
    BY <2>7, GoOnIsInvisible DEF EnoughDeleted, Active, ghosts
  <2>8. CASE CollectGarbage(g)
    BY <2>8, ReturnIsAllowed DEF CollectGarbage, Active, Return
  <2> QED BY <1>1, <2>1, <2>2, <2>3, <2>4, <2>5, <2>6, <2>7, <2>8 DEF GCStep
<1>2. ASSUME NEW g \in Runs, GCEnvironment(g)
      PROVE  Promise!Next \/ UNCHANGED Promise!vars
  <2>1. CASE gcHandler(g)
    BY <2>1, BeginIsAllowed DEF gcHandler
  <2>2. CASE periodicGC(g)
    <3>1. ASSUME NEW free \in 0..Capacity, BytesToFree(free) > 0,
                 CallGC(g, BytesToFree(free))
          PROVE  Promise!Next
      <4>1. BytesToFree(free) \in 0..MinFree
        BY <3>1, GCAssumption DEF GCAssumption, BytesToFree
      <4> QED BY <2>2, <3>1, <4>1, BeginIsAllowed DEF periodicGC
    <3>2. CASE (Goto(g, "failed") \/ Goto(g, "ok")) /\ UNCHANGED ghosts
      BY <2>2, <3>2, ReturnIsAllowed DEF periodicGC
    <3>3. \A free \in 0..Capacity : BytesToFree(free) <= 0 \/ BytesToFree(free) > 0
      BY GCAssumption DEF GCAssumption, BytesToFree
    <3> QED BY <2>2, <3>1, <3>2, <3>3 DEF periodicGC
  <2>3. CASE CancelContext(g) \/ QueryFails(g)
    <3>1. \A h \in Runs : Phase(h)' = Phase(h)
      BY <2>3 DEF CancelContext, QueryFails, Phase, Active, InLoop, Intact, TypeOK, GCTypeOK
    <3> QED BY <2>3, <3>1 DEF CancelContext, QueryFails, ghosts, Promise!vars
  <2> QED BY <1>2, <2>1, <2>2, <2>3 DEF GCEnvironment
<1>3. ASSUME NEW r \in Requests, RequestStep(r)
      PROVE  Promise!Next \/ UNCHANGED Promise!vars
  <2>1. UNCHANGED gcVars
    BY <1>3 DEF RequestStep, withTracingAndDebug, ReadBlock, BlockArrives, FetchFails,
       RequestEnds
  <2>2. phases' = phases /\ UNCHANGED <<target, freed, left>>
    BY <2>1 DEF phases, Phase, Active, Intact, gcVars, ghosts
  <2>3. disk' = disk \/ \E b \in Blocks : disk' = disk \cup {b}
    BY <1>3 DEF RequestStep, withTracingAndDebug, ReadBlock, BlockArrives, Put,
       FetchFails, RequestEnds, TypeOK, RequestTypeOK
  <2> QED BY <2>2, <2>3 DEF Promise!Next, Promise!Fill, Promise!vars, phases
<1>4. CASE UNCHANGED vars
  BY <1>4 DEF vars, gcVars, ghosts, Promise!vars, Phase, Active, Intact
<1> QED BY <1>1, <1>2, <1>3, <1>4 DEF Next

\* The whole refinement: requests, runs, failures and cancellations amount to
\* fills and evictions under which no run claims a success it did not have.
THEOREM CacheKeepsPromise == Spec => KeepsPromise
<1>1. Init => Promise!Init
  BY DEF Init, GCInit, Promise!Init, Phase, Active
<1>2. TypeOK /\ GCInv /\ GCInv' /\ [Next]_vars => [Promise!Next]_(Promise!vars)
  BY StepIsAllowed
<1> QED BY <1>1, <1>2, TypeCorrect, GCInvariant, PTL DEF Spec, KeepsPromise, Promise!Spec
(***************************************************************************)
(* What the abstract specification is worth: a run that it lets say "kept" *)
(* has seen enough leave.                                                  *)
(***************************************************************************)
KeptInv ==
  /\ target \in [Runs -> Int] /\ freed \in [Runs -> Int]
  /\ disk \in SUBSET Blocks /\ left \in [Runs -> SUBSET Blocks]
  /\ \A g \in Runs : phases[g] = "kept" => freed[g] >= target[g] \/ left[g] = {}

LEMMA PromiseStep ==
  ASSUME KeptInv, [Promise!Next]_(Promise!vars)
  PROVE  KeptInv'
<1> USE GCAssumption DEF GCAssumption, KeptInv
<1>1. CASE UNCHANGED Promise!vars
  BY <1>1 DEF Promise!vars, phases
<1>2. ASSUME NEW b \in Blocks, Promise!Fill(b) PROVE KeptInv'
  BY <1>2 DEF Promise!Fill, phases
<1>3. ASSUME NEW b \in Blocks, Promise!Evict(b) PROVE KeptInv'
  <2>1. \A h \in Runs : Promise!Running(h) <=> phases[h] = "running"
    BY DEF Promise!Running, phases
  <2>2. /\ freed' = [g \in Runs |-> IF Promise!Running(g) THEN freed[g] + Size[b] ELSE freed[g]]
        /\ left' = [g \in Runs |-> IF Promise!Running(g) THEN left[g] \ {b} ELSE left[g]]
        /\ phases' = phases /\ target' = target
    BY <1>3 DEF Promise!Evict, phases
  <2>3. /\ freed' = [g \in Runs |-> IF phases[g] = "running" THEN freed[g] + Size[b] ELSE freed[g]]
        /\ left' = [g \in Runs |-> IF phases[g] = "running" THEN left[g] \ {b} ELSE left[g]]
    BY <2>1, <2>2
  <2>4. disk' \in SUBSET Blocks /\ left' \in [Runs -> SUBSET Blocks]
    BY <1>3, <2>3 DEF Promise!Evict
  <2>5. freed' \in [Runs -> Int]
    BY <2>3
  <2>6. \A h \in Runs : phases[h] = "kept" => freed'[h] = freed[h] /\ left'[h] = left[h]
    BY <2>3
  <2> QED BY <2>2, <2>4, <2>5, <2>6
<1>4. ASSUME NEW g \in Runs, Promise!KeepPromise(g) PROVE KeptInv'
  <2>1. /\ phases' = [phases EXCEPT ![g] = "kept"]
        /\ phases \in [Runs -> {phases[h] : h \in Runs}]
        /\ UNCHANGED <<disk, target, freed, left>>
        /\ freed[g] >= target[g] \/ left[g] = {}
    BY <1>4 DEF Promise!KeepPromise, phases
  <2> QED BY <2>1
<1>5. ASSUME NEW g \in Runs, Promise!GiveUp(g) PROVE KeptInv'
  <2>1. /\ phases' = [phases EXCEPT ![g] = "gave up"]
        /\ phases \in [Runs -> {phases[h] : h \in Runs}]
        /\ UNCHANGED <<disk, target, freed, left>>
    BY <1>5 DEF Promise!GiveUp, phases
  <2> QED BY <2>1
<1>6. ASSUME NEW g \in Runs, NEW n \in Targets \cup 0..MinFree, Promise!Begin(g, n)
      PROVE  KeptInv'
  <2>1. /\ phases' = [phases EXCEPT ![g] = "running"]
        /\ phases \in [Runs -> {phases[h] : h \in Runs}]
        /\ target' = [target EXCEPT ![g] = n] /\ left' = [left EXCEPT ![g] = disk]
        /\ phases[g] = "idle" /\ freed' = freed /\ disk' = disk
    BY <1>6 DEF Promise!Begin, phases
  <2> QED BY <2>1
<1> QED BY <1>1, <1>2, <1>3, <1>4, <1>5, <1>6 DEF Promise!Next

\* A run the abstract specification lets succeed has seen the bytes it was asked
\* for leave the cache, or every block it found there: EvictionPromise, with none
\* of GC's steps in it, is enough for what a nil error means to GC's callers.
THEOREM PromiseIsWorth == KeepsPromise => []KeptInv
<1>1. Promise!Init => KeptInv
  BY DEF Promise!Init, KeptInv, phases
<1> QED BY <1>1, PromiseStep, PTL DEF KeepsPromise, Promise!Spec

-----------------------------------------------------------------------------
(***************************************************************************)
(* The inductive invariant as a whole, and how long a run can last.        *)
(***************************************************************************)

\* Every account a run or a request keeps is right in every reachable state:
\* what is still to be listed, what was charged, what was taken, what was
\* fetched for whom.
THEOREM BooksAreRight == Spec => []IndInv
<1>1. TypeOK /\ GCInv /\ ReqInv => IndInv
  BY DEF IndInv, GCInv, RunInv, KeptByRun, BoundedByRun, ReqInv, SuccessFreesEnough,
         OvershootBounded
<1> QED BY <1>1, TypeCorrect, GCInvariant, ReqInvariant, PTL

\* A periodic collection asks for the bytes that are missing, no more and never
\* for less than one: BytesToFree subtracts only what is smaller.
THEOREM AsksForTheShortfall ==
  ASSUME NEW free \in Nat
  PROVE  /\ BytesToFree(free) \in Nat
         /\ BytesToFree(free) > 0 <=> free < MinFree
         /\ BytesToFree(free) > 0 => free + BytesToFree(free) = MinFree
BY GCAssumption DEF BytesToFree

\* The steps a run has before it at most: three for each key that may still
\* come, and those of the key in hand.
StepsLeft(g) ==
  LET keys == 3 * Cardinality(may[g]) IN
  CASE pc[g] = "called"  -> 3 * Cardinality(Blocks) + 3
    [] pc[g] = "loop"    -> keys + 2
    [] pc[g] = "have"    -> keys + 4
    [] pc[g] = "sized"   -> keys + 3
    [] pc[g] = "compact" -> 1
    [] OTHER             -> 0

\* Every step of GC that moves a run brings it nearer to its end, and nothing
\* else, no deletion or request elsewhere, takes it further away.
NearerToItsEnd ==
  \A g \in Runs :
    Active(g) => IF pc'[g] = pc[g] THEN StepsLeft(g)' = StepsLeft(g)
                 ELSE StepsLeft(g)' < StepsLeft(g)

LEMMA StepsLeftType ==
  ASSUME TypeOK, IsFiniteSet(Blocks), NEW g \in Runs
  PROVE  IsFiniteSet(may[g]) /\ Cardinality(may[g]) \in 0..Cardinality(Blocks)
<1>1. may[g] \in SUBSET Blocks
  BY DEF TypeOK, GCTypeOK
<1> QED BY <1>1, FS_Subset, FS_CardinalityType

\* What leaves a run where it is leaves it its keys.
LEMMA OthersKeepSteps ==
  ASSUME NEW h \in Runs, pc'[h] = pc[h], may'[h] = may[h]
  PROVE  StepsLeft(h)' = StepsLeft(h)
BY DEF StepsLeft

LEMMA StepIsNearer == IsFiniteSet(Blocks) /\ TypeOK /\ [Next]_vars => NearerToItsEnd
<1> SUFFICES ASSUME IsFiniteSet(Blocks), TypeOK, [Next]_vars, NEW h \in Runs, Active(h)
             PROVE  IF pc'[h] = pc[h] THEN StepsLeft(h)' = StepsLeft(h)
                    ELSE StepsLeft(h)' < StepsLeft(h)
  BY DEF NearerToItsEnd
<1> DEFINE n == Cardinality(may[h])
           N == Cardinality(Blocks)
<1>0. n \in Nat /\ N \in Nat /\ n <= N
  BY StepsLeftType, FS_CardinalityType
<1> HIDE DEF n, N
<1>1. ASSUME NEW g \in Runs, GCStep(g) \/ GCEnvironment(g), g # h
      PROVE  pc'[h] = pc[h] /\ may'[h] = may[h]
  BY <1>1 DEF GCStep, GCEnvironment, AllKeysChan, ReceiveKey, KeysClosed, ContextDone,
       GetSize, DeleteBlock, EnoughDeleted, CollectGarbage, gcHandler, periodicGC,
       CancelContext, QueryFails, CallGC, Return, Goto, locals, TypeOK, GCTypeOK
<1>2. ASSUME GCEnvironment(h) PROVE pc'[h] = pc[h] /\ may'[h] = may[h]
  BY <1>2 DEF GCEnvironment, gcHandler, periodicGC, CancelContext, QueryFails, Active,
       locals
<1>3. ASSUME GCStep(h) PROVE pc'[h] # pc[h] /\ StepsLeft(h)' < StepsLeft(h)
  <2> USE <1>0, <1>3 DEF Goto, TypeOK, GCTypeOK
  <2>1. CASE AllKeysChan(h)
    <3>1. StepsLeft(h) = 3 * N + 3
      BY <2>1 DEF AllKeysChan, StepsLeft, N
    <3>2. CASE pc' = [pc EXCEPT ![h] = "loop"] /\ may' = [may EXCEPT ![h] = Blocks]
      <4>1. StepsLeft(h)' = 3 * N + 2
        BY <3>2 DEF StepsLeft, N
      <4> QED BY <2>1, <3>1, <3>2, <4>1 DEF AllKeysChan
    <3>3. CASE Return(h, "ok") \/ Return(h, "failed")
      <4>1. StepsLeft(h)' = 0
        BY <3>3 DEF StepsLeft, Return
      <4> QED BY <2>1, <3>1, <3>3, <4>1 DEF AllKeysChan, Return
    <3> QED BY <2>1, <3>2, <3>3 DEF AllKeysChan
  <2>2. CASE ReceiveKey(h)
    <3>1. PICK k \in may[h] : may' = [may EXCEPT ![h] = @ \ {k}]
      BY <2>2 DEF ReceiveKey
    <3>2. Cardinality(may'[h]) = n - 1
      <4>1. may'[h] = may[h] \ {k}
        BY <3>1
      <4>2. Cardinality(may[h] \ {k}) = n - 1
        BY StepsLeftType, FS_RemoveElement DEF n
      <4> QED BY <4>1, <4>2
    <3>3. pc[h] = "loop" /\ pc'[h] = "have"
      BY <2>2 DEF ReceiveKey
    <3>4. StepsLeft(h) = 3 * n + 2 /\ StepsLeft(h)' = 3 * (n - 1) + 4
      BY <3>2, <3>3 DEF StepsLeft, n
    <3> QED BY <3>3, <3>4
  <2>3. CASE KeysClosed(h) \/ EnoughDeleted(h)
    <3>1. pc[h] = "loop" /\ pc'[h] = "compact"
      BY <2>3 DEF KeysClosed, EnoughDeleted
    <3>2. StepsLeft(h) = 3 * n + 2 /\ StepsLeft(h)' = 1
      BY <3>1 DEF StepsLeft, n
    <3> QED BY <3>1, <3>2
  <2>4. CASE GetSize(h)
    <3>1. pc[h] = "have" /\ pc'[h] = "sized" /\ may' = may
      BY <2>4 DEF GetSize
    <3>2. StepsLeft(h) = 3 * n + 4 /\ StepsLeft(h)' = 3 * n + 3
      BY <3>1 DEF StepsLeft, n
    <3> QED BY <3>1, <3>2
  <2>5. CASE DeleteBlock(h) /\ pc'[h] = "loop"
    <3>1. pc[h] = "sized" /\ may' = may
      BY <2>5 DEF DeleteBlock, Return
    <3>2. StepsLeft(h) = 3 * n + 3 /\ StepsLeft(h)' = 3 * n + 2
      BY <2>5, <3>1 DEF StepsLeft, n
    <3> QED BY <2>5, <3>1, <3>2
  <2>6. CASE /\ ContextDone(h) \/ DeleteBlock(h) \/ CollectGarbage(h)
             /\ pc'[h] \in {"ok", "failed"}
    <3>1. pc[h] \in {"loop", "sized", "compact"}
      BY <2>6 DEF ContextDone, DeleteBlock, CollectGarbage
    <3>2. StepsLeft(h) >= 1
      BY <3>1 DEF StepsLeft, n
    <3>3. StepsLeft(h)' = 0
      BY <2>6 DEF StepsLeft
    <3>4. StepsLeft(h) \in Int
      BY <3>1 DEF StepsLeft, n
    <3> QED BY <2>6, <3>1, <3>2, <3>3, <3>4
  <2> QED BY <2>1, <2>2, <2>3, <2>4, <2>5, <2>6
          DEF GCStep, ContextDone, DeleteBlock, CollectGarbage, Return
<1>4. ASSUME NEW r \in Requests, RequestStep(r) PROVE pc' = pc /\ may' = may
  BY <1>4 DEF RequestStep, withTracingAndDebug, ReadBlock, BlockArrives, FetchFails,
       RequestEnds, gcVars, locals
<1>5. CASE UNCHANGED vars
  BY <1>5, OthersKeepSteps DEF vars, gcVars, locals
<1> QED BY <1>1, <1>2, <1>3, <1>4, <1>5, OthersKeepSteps DEF Next

\* With finitely many blocks a run has finitely many steps, whatever GetSize
\* says (each -1 makes the sum still to free grow) and whatever is put and
\* deleted meanwhile: the part of termination that does not need fairness.
THEOREM RunsAreBounded == IsFiniteSet(Blocks) /\ Spec => [][NearerToItsEnd]_vars
<1> SUFFICES ASSUME IsFiniteSet(Blocks) PROVE Spec => [][NearerToItsEnd]_vars
  OBVIOUS
<1>1. TypeOK /\ [Next]_vars => [NearerToItsEnd]_vars
  BY StepIsNearer
<1> QED BY <1>1, TypeCorrect, PTL DEF Spec
=============================================================================
