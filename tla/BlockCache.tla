------------------------------- MODULE BlockCache -------------------------------
(***************************************************************************)
(* The block cache of a node with bitswap: gateway requests reading        *)
(* through the switchingBlockstore (src/setup.go, src/handlers.go) while   *)
(* garbage collection runs (module GC) empty the same store.               *)
(*                                                                         *)
(* A request that carries an authorised "Rainbow-No-Blockcache: true" has  *)
(* an in-memory store of its own in its context, and the switching store   *)
(* sends each of its reads and writes there.  Every other request reads    *)
(* and fills the shared store on disk.                                     *)
(***************************************************************************)
EXTENDS GC

CONSTANTS
  Requests,   (* gateway requests, each in its own goroutine                *)
  MaxReads    (* bound: blocks one request reads                            *)

ASSUME RequestAssumption == MaxReads \in Nat

VARIABLES
  req,        (* where each request is                                      *)
  ctx,        (* which blockstore its context selects                       *)
  scratch,    (* its in-memory blockstore, empty unless ctx is "scratch"    *)
  want,       (* the block it is fetching                                   *)
  reads,      (* how many reads it has made                                 *)
  answered,   (* history: the blocks it has been answered with              *)
  fetched,    (* history: the blocks the network sent it                    *)
  seed        (* history: the store at start-up                             *)

reqVars == <<req, ctx, scratch, want, reads, answered, fetched>>
vars == <<datastore, disk, gcVars, reqVars, seed>>

RequestTypeOK ==
  /\ req \in [Requests -> {"idle", "open", "fetching", "done", "failed", "refused"}]
  /\ ctx \in [Requests -> {"shared", "scratch"}]
  /\ scratch \in [Requests -> SUBSET Blocks]
  /\ want \in [Requests -> Blocks \cup {NoBlock}]
  /\ \A r \in Requests : req[r] = "fetching" => want[r] \in Blocks
  /\ reads \in [Requests -> 0..MaxReads]
  /\ answered \in [Requests -> SUBSET Blocks]
  /\ fetched \in [Requests -> SUBSET Blocks]
  /\ seed \in SUBSET Blocks

TypeOK == GCTypeOK /\ RequestTypeOK

Init ==
  /\ GCInit
  /\ req = [r \in Requests |-> "idle"]
  /\ ctx = [r \in Requests |-> "shared"]
  /\ scratch = [r \in Requests |-> {}]
  /\ want = [r \in Requests |-> NoBlock]
  /\ reads = [r \in Requests |-> 0]
  /\ answered = [r \in Requests |-> {}]
  /\ fetched = [r \in Requests |-> {}]
  /\ seed = disk

-----------------------------------------------------------------------------
(* switchingBlockstore *)

\* Defect: the context is not looked at.
BaseOnly(r) == "base"
getBlockstore(r) == IF ctx[r] = "scratch" THEN "alternative" ELSE "base"

\* Get: the blocks request r finds.
Held(r) == IF getBlockstore(r) = "alternative" THEN scratch[r] ELSE disk

\* Put, in whichever store the context selects.
Put(r, b) ==
  IF getBlockstore(r) = "alternative"
  THEN scratch' = [scratch EXCEPT ![r] = @ \cup {b}] /\ UNCHANGED disk
  ELSE disk' = disk \cup {b} /\ UNCHANGED scratch

-----------------------------------------------------------------------------
(* Requests *)

\* withTracingAndDebug.  A debug header (tracing or cache) without a valid
\* authorisation is refused; only the value "true" selects the in-memory
\* store, and opening that may fail.
withTracingAndDebug(r) ==
  /\ datastore # "none"
  /\ req[r] = "idle"
  /\ \E header \in {"none", "trace", "nocache true", "nocache other"},
        authorized \in BOOLEAN :
       IF header # "none" /\ ~authorized
       THEN /\ req' = [req EXCEPT ![r] = "refused"]
            /\ UNCHANGED ctx
       ELSE IF header = "nocache true"
       THEN \/ /\ req' = [req EXCEPT ![r] = "failed"]
               /\ UNCHANGED ctx
            \/ /\ req' = [req EXCEPT ![r] = "open"]
               /\ ctx' = [ctx EXCEPT ![r] = "scratch"]
       ELSE /\ req' = [req EXCEPT ![r] = "open"]
            /\ UNCHANGED ctx
  /\ UNCHANGED <<datastore, disk, gcVars, scratch, want, reads, answered,
                 fetched, seed>>

\* External: the block service looks in the blockstore and answers from it, or
\* asks the exchange.
ReadBlock(r) ==
  /\ req[r] = "open"
  /\ reads[r] < MaxReads
  /\ reads' = [reads EXCEPT ![r] = @ + 1]
  /\ \E b \in Blocks :
       IF b \in Held(r)
       THEN /\ answered' = [answered EXCEPT ![r] = @ \cup {b}]
            /\ UNCHANGED <<req, want>>
       ELSE /\ req' = [req EXCEPT ![r] = "fetching"]
            /\ want' = [want EXCEPT ![r] = b]
            /\ UNCHANGED answered
  /\ UNCHANGED <<datastore, disk, gcVars, ctx, scratch, fetched, seed>>

\* External: the exchange has the block; the block service puts it in the
\* blockstore, then answers with it.
BlockArrives(r) ==
  /\ req[r] = "fetching"
  /\ Put(r, want[r])
  /\ fetched' = [fetched EXCEPT ![r] = @ \cup {want[r]}]
  /\ answered' = [answered EXCEPT ![r] = @ \cup {want[r]}]
  /\ want' = [want EXCEPT ![r] = NoBlock]
  /\ req' = [req EXCEPT ![r] = "open"]
  /\ UNCHANGED <<datastore, gcVars, ctx, reads, seed>>

\* External: no provider, a timeout, a failed Put, or the client went away.
FetchFails(r) ==
  /\ req[r] = "fetching"
  /\ req' = [req EXCEPT ![r] = "failed"]
  /\ want' = [want EXCEPT ![r] = NoBlock]
  /\ UNCHANGED <<datastore, disk, gcVars, ctx, scratch, reads, answered,
                 fetched, seed>>

\* The response is complete; the request's context, and its in-memory store
\* with it, is gone.
RequestEnds(r) ==
  /\ req[r] = "open"
  /\ req' = [req EXCEPT ![r] = "done"]
  /\ UNCHANGED <<datastore, disk, gcVars, ctx, scratch, want, reads, answered,
                 fetched, seed>>

RequestStep(r) ==
  \/ withTracingAndDebug(r)
  \/ ReadBlock(r)
  \/ BlockArrives(r)
  \/ FetchFails(r)
  \/ RequestEnds(r)

-----------------------------------------------------------------------------

Next ==
  \/ \E g \in Runs : (GCStep(g) \/ GCEnvironment(g)) /\ UNCHANGED <<reqVars, seed>>
  \/ \E r \in Requests : RequestStep(r)

\* A run is a goroutine and is scheduled; a context, a query or a request owes
\* nothing.
Fairness == \A g \in Runs : WF_vars(GCStep(g) /\ UNCHANGED <<reqVars, seed>>)

Spec == Init /\ [][Next]_vars
FairSpec == Spec /\ Fairness

-----------------------------------------------------------------------------
(* Properties *)

(***************************************************************************)
(* A run that reports success kept its word, whatever the requests and the *)
(* other runs did to the store between its calls: since it began, at least *)
(* the bytes it was asked for have left the store, or none of the blocks   *)
(* that were in the store is left.  (Not so for a listing the query or the *)
(* context cut short: GC takes that for the end of the keys.)              *)
(***************************************************************************)
SuccessFreesEnough ==
  \A g \in Runs :
    pc[g] = "ok" /\ Intact(g) =>
      freed[g] >= target[g] \/ left[g] = {}

(***************************************************************************)
(* GC stops at the first block that makes up the sum: what its own         *)
(* deletions took is less than what was asked plus one block, as long as   *)
(* GetSize answered for every key.                                         *)
(***************************************************************************)
OvershootBounded ==
  \A g \in Runs :
    ~missed[g] /\ own[g] > 0 => \E b \in Blocks : own[g] < target[g] + Size[b]

(***************************************************************************)
(* What a No-Blockcache request fetches stays out of the shared cache: a   *)
(* block on disk was there at start-up or an ordinary request fetched it.  *)
(***************************************************************************)
CacheFromOrdinary ==
  disk \subseteq seed \cup UNION {fetched[r] : r \in {q \in Requests : ctx[q] = "shared"}}

(***************************************************************************)
(* And the shared cache stays out of what such a request is answered with: *)
(* each block came over the network for this very request.                 *)
(***************************************************************************)
ScratchFromNetwork ==
  \A r \in Requests : ctx[r] = "scratch" => answered[r] \subseteq fetched[r]

(***************************************************************************)
(* Every run returns: the keys of a listing come to an end even when a     *)
(* failing GetSize makes the sum still to free grow.                       *)
(***************************************************************************)
RunsEnd == \A g \in Runs : Active(g) ~> ~Active(g)

(***************************************************************************)
(* The same for every step: the cache implements EvictionPromise.  A run   *)
(* that returned nil after its listing was cut short counts as given up.   *)
(***************************************************************************)
Phase(g) ==
  IF Active(g) THEN "running"
  ELSE IF pc[g] = "idle" THEN "idle"
  ELSE IF pc[g] = "ok" /\ Intact(g) THEN "kept" ELSE "gave up"

Promise ==
  INSTANCE EvictionPromise
    WITH store <- disk, phase <- [g \in Runs |-> Phase(g)], asked <- target,
         Goals <- Targets \cup 0..MinFree

KeepsPromise == Promise!Spec

(***************************************************************************)
(* Why a run keeps its promise (the inductive invariant behind the         *)
(* theorems of BlockCacheProofs).                                          *)
(*  - A block that was there when a run began and still is, is either      *)
(*    still to be listed or in the run's hand.                             *)
(*  - The sum still to delete never falls below what is really still to    *)
(*    leave.  While a run holds a size, that size is either on disk and    *)
(*    about to leave, or has left already, by the hand of another run.     *)
(*  - As long as GetSize answers, what a run took is charged in full.      *)
(***************************************************************************)
Listed(g) ==
  /\ Active(g) => left[g] \subseteq disk
  /\ pc[g] = "loop" /\ Intact(g) => left[g] \subseteq must[g]
  /\ pc[g] \in {"have", "sized"} /\ Intact(g) => left[g] \subseteq must[g] \cup {cur[g]}
  /\ pc[g] = "compact" /\ Intact(g) => todelete[g] <= 0 \/ left[g] = {}

ChargedWasFreed(g) ==
  /\ Active(g) => target[g] - freed[g] <= todelete[g]
  /\ pc[g] = "sized" =>
       /\ size[g] <= Size[cur[g]]
       /\ cur[g] \notin disk => target[g] - freed[g] <= todelete[g] - size[g]

TakenIsCharged(g) ==
  /\ pc[g] \in {"have", "sized"} => todelete[g] > 0
  /\ ~missed[g] =>
       /\ Active(g) => own[g] + todelete[g] <= target[g]
       /\ pc[g] = "sized" => size[g] = Size[cur[g]]

Fresh(g) ==
  pc[g] = "idle" => target[g] = 0 /\ freed[g] = 0 /\ own[g] = 0

NoStoreNoBlocks ==
  datastore = "none" => disk = {} /\ \A r \in Requests : req[r] = "idle"

RequestBooks(r) ==
  /\ scratch[r] \subseteq fetched[r]
  /\ req[r] = "idle" => answered[r] = {} /\ fetched[r] = {}

IndInv ==
  /\ TypeOK
  /\ \A g \in Runs :
       Fresh(g) /\ Listed(g) /\ ChargedWasFreed(g) /\ TakenIsCharged(g)
  /\ NoStoreNoBlocks
  /\ \A r \in Requests : RequestBooks(r)
  /\ SuccessFreesEnough
  /\ OvershootBounded
  /\ CacheFromOrdinary
  /\ ScratchFromNetwork
=============================================================================
