----------------------------- MODULE MCSharedCache -----------------------------
(***************************************************************************)
(* Instances of SharedCache: two instances and a stranger, and every way   *)
(* the two may list each other.                                            *)
(***************************************************************************)
EXTENDS SharedCache

MCIndex == [n \in Nodes |-> IF n = CHOOSE m \in Nodes : TRUE THEN 0 ELSE 1]

\* Lists of configured peers, on either side, both, or none, with peering by
\* seed or without.
Configured ==
  [peering : [Nodes -> SUBSET Nodes], seedPeering : BOOLEAN,
   sharedCache : [Nodes -> BOOLEAN]]
NotSelf == {f \in Configured : \A n \in Nodes : n \notin f.peering[n]}

================================================================================
