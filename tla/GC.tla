---------------------------------- MODULE GC ----------------------------------
(***************************************************************************)
(* Garbage collection of rainbow's local block cache: Node.GC and          *)
(* Node.periodicGC (src/gc.go), and the two ways a run starts, the         *)
(* /mgr/gc handler (src/handlers.go) and the GC timer (src/main.go).       *)
(*                                                                         *)
(* A run is one call of GC.  It shares nothing with the other runs or with *)
(* the gateway requests but the store itself, takes no lock, and works     *)
(* block by block: receive a key, ask its size, delete it, charge the      *)
(* size.  Every one of these calls is a step of its own here, so anything  *)
(* may happen to the block in between.                                     *)
(*                                                                         *)
(* This module gives the actions; BlockCache puts them together with the   *)
(* requests that fill the store, and has the specification.                *)
(***************************************************************************)
EXTENDS Integers

CONSTANTS
  Blocks,     (* blocks that can be in the store                            *)
  Size,       (* bytes of each of them                                      *)
  Manual,     (* GC runs started by POST /mgr/gc, each in its own goroutine *)
  Periodic,   (* GC runs of the start-up and of the timer, one at a time    *)
  Targets,    (* values of BytesToFree a request may carry                  *)
  MinFree,    (* uint64(Total * GCThreshold), in bytes                      *)
  Capacity,   (* size of the filesystem that holds the store, in bytes      *)
  Datastores, (* the setups to cover: "none" (nd.blockstore is nil),        *)
              (* "badger", and "plain" for flatfs and pebble                *)
  NoBlock     (* the zero CID: no key in hand                               *)

ASSUME GCAssumption ==
  /\ NoBlock \notin Blocks
  /\ Datastores \subseteq {"none", "badger", "plain"}
  /\ Size \in [Blocks -> Nat]
  /\ Manual \cap Periodic = {}
  /\ Targets \subseteq Int
  /\ MinFree \in Nat
  /\ Capacity \in Nat

Runs == Manual \cup Periodic

VARIABLES
  datastore,  (* the setup of this node, chosen once                        *)
  disk,       (* the blocks in the base blockstore                          *)
  pc,         (* where each run is                                          *)
  todelete,   (* bytes the run still wants to free                          *)
  must,       (* keys AllKeysChan still has to send to the run              *)
  may,        (* keys AllKeysChan may still send, those put since included  *)
  cur,        (* the key in hand                                            *)
  size,       (* what GetSize said of it                                    *)
  cancelled,  (* the run's context is done                                  *)
  broken      (* the store's query failed under AllKeysChan                 *)

\* What the properties compare a run with; no action of the code reads these.
VARIABLES
  target,     (* bytes the run was asked for                                *)
  freed,      (* bytes that left the store since the run began, by anyone   *)
  own,        (* bytes the run's own deletions took from the store          *)
  left,       (* blocks in the store when the run began, and ever since     *)
  missed      (* GetSize failed for a key of this run                       *)

locals == <<todelete, must, may, cur, size>>
ghosts == <<target, freed, own, left, missed>>
gcVars == <<pc, locals, cancelled, broken, ghosts>>

Active(g)  == pc[g] \notin {"idle", "ok", "failed"}
InLoop(g)  == pc[g] \in {"loop", "have", "sized"}
Intact(g)  == ~cancelled[g] /\ ~broken[g]

GCTypeOK ==
  /\ datastore \in Datastores
  /\ disk \in SUBSET Blocks
  /\ pc \in [Runs -> {"idle", "called", "loop", "have", "sized", "compact",
                      "ok", "failed"}]
  /\ todelete \in [Runs -> Int]
  /\ must \in [Runs -> SUBSET Blocks]
  /\ may \in [Runs -> SUBSET Blocks]
  /\ cur \in [Runs -> Blocks \cup {NoBlock}]
  /\ \A g \in Runs : pc[g] \in {"have", "sized"} => cur[g] \in Blocks
  /\ size \in [Runs -> Int]
  /\ cancelled \in [Runs -> BOOLEAN]
  /\ broken \in [Runs -> BOOLEAN]
  /\ target \in [Runs -> Int]
  /\ freed \in [Runs -> Nat]
  /\ own \in [Runs -> Nat]
  /\ left \in [Runs -> SUBSET Blocks]
  /\ missed \in [Runs -> BOOLEAN]

GCInit ==
  /\ datastore \in Datastores
  /\ disk \in IF datastore = "none" THEN {{}} ELSE SUBSET Blocks
  /\ pc = [g \in Runs |-> "idle"]
  /\ todelete = [g \in Runs |-> 0]
  /\ must = [g \in Runs |-> {}]
  /\ may = [g \in Runs |-> {}]
  /\ cur = [g \in Runs |-> NoBlock]
  /\ size = [g \in Runs |-> 0]
  /\ cancelled = [g \in Runs |-> FALSE]
  /\ broken = [g \in Runs |-> FALSE]
  /\ target = [g \in Runs |-> 0]
  /\ freed = [g \in Runs |-> 0]
  /\ own = [g \in Runs |-> 0]
  /\ left = [g \in Runs |-> {}]
  /\ missed = [g \in Runs |-> FALSE]

-----------------------------------------------------------------------------
(* Starting a run *)

Goto(g, l) == pc' = [pc EXCEPT ![g] = l]

\* GC returns: its locals go out of scope.
Return(g, l) ==
  /\ Goto(g, l)
  /\ todelete' = [todelete EXCEPT ![g] = 0]
  /\ must' = [must EXCEPT ![g] = {}]
  /\ may' = [may EXCEPT ![g] = {}]
  /\ cur' = [cur EXCEPT ![g] = NoBlock]
  /\ size' = [size EXCEPT ![g] = 0]

\* nd.GC(ctx, n).  The run's history starts here.
CallGC(g, n) ==
  /\ Goto(g, "called")
  /\ todelete' = [todelete EXCEPT ![g] = n]
  /\ target' = [target EXCEPT ![g] = n]
  /\ left' = [left EXCEPT ![g] = disk]
  /\ UNCHANGED <<must, may, cur, size, freed, own, missed>>

\* POST /mgr/gc: any value of BytesToFree the body decodes to, whatever space
\* the disk has.
gcHandler(g) ==
  /\ g \in Manual
  /\ pc[g] = "idle"
  /\ \E n \in Targets : CallGC(g, n)
  /\ UNCHANGED <<datastore, disk, cancelled, broken>>

\* The bytes periodicGC asks GC for, 0 when it does not call it.
BytesToFree(free) == IF MinFree < free THEN 0 ELSE MinFree - free

\* The start-up collection or a tick: these follow one another in time.  The
\* free space is that of a filesystem other programs use as well, so it is any
\* value; disk.Usage itself may fail.
periodicGC(g) ==
  /\ g \in Periodic
  /\ pc[g] = "idle"
  /\ \A h \in Periodic : ~Active(h)
  /\ \/ /\ Goto(g, "failed")
        /\ UNCHANGED <<locals, ghosts>>
     \/ \E free \in 0..Capacity :
          IF BytesToFree(free) <= 0
          THEN Goto(g, "ok") /\ UNCHANGED <<locals, ghosts>>
          ELSE CallGC(g, BytesToFree(free))
  /\ UNCHANGED <<datastore, disk, cancelled, broken>>

-----------------------------------------------------------------------------
(* The blockstore, as a run sees it *)

\* External: AllKeysChan sends the keys that are in the store when it is called,
\* each at most once.  A key whose block leaves the store first may be skipped,
\* one that is put meanwhile may be sent.
AllKeysChan(g) ==
  /\ pc[g] = "called"
  /\ \/ /\ datastore = "none"
        /\ Return(g, "ok")
     \/ /\ datastore # "none"
        /\ Return(g, "failed")
     \/ /\ datastore # "none"
        /\ Goto(g, "loop")
        /\ must' = [must EXCEPT ![g] = disk]
        /\ may' = [may EXCEPT ![g] = Blocks]
        /\ UNCHANGED <<todelete, cur, size>>
  /\ UNCHANGED <<datastore, disk, cancelled, broken, ghosts>>

\* External: the query behind AllKeysChan fails.  boxo logs it and closes the
\* channel; GC cannot tell this from the end of the keys.
QueryFails(g) ==
  /\ InLoop(g)
  /\ must[g] # {}
  /\ ~broken[g]
  /\ broken' = [broken EXCEPT ![g] = TRUE]
  /\ UNCHANGED <<datastore, disk, pc, locals, cancelled, ghosts>>

\* b leaves the base blockstore, deleted by run g: every run's key listing may
\* skip it from now on.
Removed(g, b) ==
  LET here == IF b \in disk THEN Size[b] ELSE 0 IN
  /\ disk' = disk \ {b}
  /\ must' = [h \in Runs |-> must[h] \ {b}]
  /\ left' = [h \in Runs |-> IF Active(h) THEN left[h] \ {b} ELSE left[h]]
  /\ freed' = [h \in Runs |-> IF Active(h) THEN freed[h] + here ELSE freed[h]]
  /\ own' = [own EXCEPT ![g] = @ + here]

-----------------------------------------------------------------------------
(* The loop of GC *)

\* case k, ok := <-keys
ReceiveKey(g) ==
  /\ pc[g] = "loop"
  /\ todelete[g] > 0
  /\ \E k \in may[g] :
       /\ cur' = [cur EXCEPT ![g] = k]
       /\ must' = [must EXCEPT ![g] = @ \ {k}]
       /\ may' = [may EXCEPT ![g] = @ \ {k}]
  /\ Goto(g, "have")
  /\ UNCHANGED <<datastore, disk, todelete, size, cancelled, broken, ghosts>>

\* Defect: the closed channel's zero value is skipped, for ever.
KeysClosedSkipped(g) ==
  /\ pc[g] = "loop"
  /\ todelete[g] > 0
  /\ UNCHANGED <<datastore, disk, gcVars>>

\* !ok: the listing is complete, or was given up by the store or the context.
KeysClosed(g) ==
  /\ pc[g] = "loop"
  /\ todelete[g] > 0
  /\ must[g] = {} \/ ~Intact(g)
  /\ Goto(g, "compact")
  /\ UNCHANGED <<datastore, disk, locals, cancelled, broken, ghosts>>

\* case <-ctx.Done()
ContextDone(g) ==
  /\ pc[g] = "loop"
  /\ todelete[g] > 0
  /\ cancelled[g]
  /\ Return(g, "failed")
  /\ UNCHANGED <<datastore, disk, cancelled, broken, ghosts>>

\* boxo's GetSize returns -1 with an error; GC logs the error and uses the -1.
SizeOnError == -1

\* Defect: a size reported for a block that is no longer there.
SizesOfStale(b) == {Size[b], SizeOnError}
SizesOf(b) == (IF b \in disk THEN {Size[b]} ELSE {}) \cup {SizeOnError}

\* Defect: a key whose size is not known is passed over.
GetSizeOrSkip(g) ==
  /\ pc[g] = "have"
  /\ \E n \in SizesOf(cur[g]) :
       /\ size' = [size EXCEPT ![g] = n]
       /\ Goto(g, IF n = SizeOnError THEN "loop" ELSE "sized")
  /\ UNCHANGED <<datastore, disk, todelete, must, may, cur, cancelled, broken,
                 ghosts>>
GetSize(g) ==
  /\ pc[g] = "have"
  /\ \E n \in SizesOf(cur[g]) :
       /\ size' = [size EXCEPT ![g] = n]
       /\ missed' = [missed EXCEPT ![g] = @ \/ n = SizeOnError]
  /\ Goto(g, "sized")
  /\ UNCHANGED <<datastore, disk, todelete, must, may, cur, cancelled, broken,
                 target, freed, own, left>>

\* Defects: the size never subtracted, or one byte more than the size.
Uncharged(n, s) == n
OverCharged(n, s) == n - (s + 1)
Charged(n, s) == n - s

DeleteBlock(g) ==
  /\ pc[g] = "sized"
  /\ \/ /\ Return(g, "failed")
        /\ UNCHANGED <<disk, ghosts>>
     \/ /\ Removed(g, cur[g])
        /\ todelete' = [todelete EXCEPT ![g] = Charged(@, size[g])]
        /\ cur' = [cur EXCEPT ![g] = NoBlock]
        /\ size' = [size EXCEPT ![g] = 0]
        /\ Goto(g, "loop")
        /\ UNCHANGED <<may, target, missed>>
  /\ UNCHANGED <<datastore, cancelled, broken>>

\* for todelete > 0 is over
EnoughDeleted(g) ==
  /\ pc[g] = "loop"
  /\ todelete[g] <= 0
  /\ Goto(g, "compact")
  /\ UNCHANGED <<datastore, disk, locals, cancelled, broken, ghosts>>

\* Only a badger datastore is compacted, and only that can still fail.
CollectGarbage(g) ==
  /\ pc[g] = "compact"
  /\ \/ Return(g, "ok")
     \/ datastore = "badger" /\ Return(g, "failed")
  /\ UNCHANGED <<datastore, disk, cancelled, broken, ghosts>>

-----------------------------------------------------------------------------

\* The client of POST /mgr/gc goes away.  Periodic runs have the context of
\* the command, which nothing cancels.
CancelContext(g) ==
  /\ g \in Manual
  /\ Active(g)
  /\ ~cancelled[g]
  /\ cancelled' = [cancelled EXCEPT ![g] = TRUE]
  /\ UNCHANGED <<datastore, disk, pc, locals, broken, ghosts>>

GCStep(g) ==
  \/ AllKeysChan(g)
  \/ ReceiveKey(g)
  \/ KeysClosed(g)
  \/ ContextDone(g)
  \/ GetSize(g)
  \/ DeleteBlock(g)
  \/ EnoughDeleted(g)
  \/ CollectGarbage(g)

GCEnvironment(g) ==
  \/ gcHandler(g)
  \/ periodicGC(g)
  \/ CancelContext(g)
  \/ QueryFails(g)
=============================================================================
