---------------------------- MODULE EvictionPromise ----------------------------
(***************************************************************************)
(* What garbage collection promises, with nothing of how it goes about it: *)
(* no key listing, no sizes asked, no order of calls.  A store is filled   *)
(* by anyone and emptied block by block while some run is under way.  A    *)
(* run may give up at any moment, but it may say that it succeeded only    *)
(* when, since it began, the bytes it was asked for have left the store or *)
(* every block it found there has.                                         *)
(***************************************************************************)
EXTENDS Integers

CONSTANTS Blocks, Size, Runs, Goals

VARIABLES
  store,      (* the blocks in the cache                                    *)
  phase,      (* "idle", "running", "kept" its promise, or "gave up"        *)
  asked,      (* bytes each run has to see leave                            *)
  freed,      (* bytes that left while it was running                       *)
  left        (* blocks it found and that are still there                   *)

vars == <<store, phase, asked, freed, left>>

Running(g) == phase[g] = "running"

Init ==
  /\ store \in SUBSET Blocks
  /\ phase = [g \in Runs |-> "idle"]
  /\ asked = [g \in Runs |-> 0]
  /\ freed = [g \in Runs |-> 0]
  /\ left = [g \in Runs |-> {}]

Fill(b) ==
  /\ store' = store \cup {b}
  /\ UNCHANGED <<phase, asked, freed, left>>

Begin(g, n) ==
  /\ phase[g] = "idle"
  /\ phase' = [phase EXCEPT ![g] = "running"]
  /\ asked' = [asked EXCEPT ![g] = n]
  /\ left' = [left EXCEPT ![g] = store]
  /\ UNCHANGED <<store, freed>>

Evict(b) ==
  /\ b \in store
  /\ \E g \in Runs : Running(g)
  /\ store' = store \ {b}
  /\ freed' = [g \in Runs |-> IF Running(g) THEN freed[g] + Size[b] ELSE freed[g]]
  /\ left' = [g \in Runs |-> IF Running(g) THEN left[g] \ {b} ELSE left[g]]
  /\ UNCHANGED <<phase, asked>>

\* A run that was not asked for anything has nothing to wait for.
KeepPromise(g) ==
  /\ phase[g] \in {"idle", "running"}
  /\ freed[g] >= asked[g] \/ left[g] = {}
  /\ phase' = [phase EXCEPT ![g] = "kept"]
  /\ UNCHANGED <<store, asked, freed, left>>

GiveUp(g) ==
  /\ phase[g] \in {"idle", "running"}
  /\ phase' = [phase EXCEPT ![g] = "gave up"]
  /\ UNCHANGED <<store, asked, freed, left>>

Next ==
  \/ \E b \in Blocks : Fill(b) \/ Evict(b)
  \/ \E g \in Runs : KeepPromise(g) \/ GiveUp(g) \/ \E n \in Goals : Begin(g, n)

Spec == Init /\ [][Next]_vars
=============================================================================
