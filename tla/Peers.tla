--------------------------------- MODULE Peers ---------------------------------
(***************************************************************************)
(* Connections and peer information of the main libp2p host: the handler   *)
(* of /mgr/purge (src/handlers.go), which forgets a peer in one loop and   *)
(* closes its connections in the next, against everything that connects    *)
(* and tells addresses meanwhile.  One of these is rainbow's own: bitswap  *)
(* dials through peerstoreMergingHost (src/setup_bitswap.go), which copies *)
(* what the separate DHT host knows of a peer.                             *)
(***************************************************************************)
EXTENDS Naturals

CONSTANTS
  Peers,      (* remote peers                                               *)
  Purges,     (* requests to /mgr/purge, each in its own goroutine          *)
  Dialled,    (* the peers bitswap dials                                    *)
  Classes,    (* kinds of addresses the run tells apart, see AddrClasses    *)
  MaxOpened   (* bound: connections opened with each peer                   *)

\* Addresses by their first component: none, an IP that is publicly routable
\* or not, a DNS name that is special-use or not, anything else.
AddrClasses ==
  {"empty", "publicIP", "privateIP", "publicDNS", "specialDNS", "other"}

ASSUME PeersAssumption ==
  /\ Dialled \subseteq Peers
  /\ Classes \subseteq AddrClasses
  /\ MaxOpened \in Nat

VARIABLES
  libp2p,     (* the node has a host at all                                 *)
  split,      (* the DHT runs on a host of its own                          *)
  opened,     (* how many connections each peer has had; the last is open   *)
  connected,  (*   if the peer is in this set                               *)
  meta,       (* peers with protocols, keys, ... in the main peerstore      *)
  addrs,      (* their addresses there                                      *)
  dhtAddrs,   (* addresses in the DHT host's peerstore                      *)
  identifying,(* peers the identify exchange is under way with              *)
  dial,       (* where bitswap's Connect to each peer is                    *)
  purge,      (* where each purge request is                                *)
  peers,      (* the peers it purges                                        *)
  todo,       (* those its current loop has not come to                     *)
  cur,        (* the peer between RemovePeer and ClearAddrs, in a set       *)
  failed      (* some ClosePeer returned an error                           *)

\* What the properties compare a purge with.
VARIABLES
  before,     (* the connections opened before it began                     *)
  relearned,  (* peers that something was learned of since it began         *)
  told        (* addresses each peer, or a record of it, has told           *)

hostVars == <<libp2p, split, dhtAddrs>>
netVars == <<opened, connected, identifying, dial>>
storeVars == <<meta, addrs>>
purgeVars == <<purge, peers, todo, cur, failed, before>>
vars == <<hostVars, netVars, storeVars, purgeVars, relearned, told>>

TypeOK ==
  /\ libp2p \in BOOLEAN
  /\ split \in BOOLEAN
  /\ opened \in [Peers -> 0..MaxOpened]
  /\ connected \in SUBSET Peers
  /\ meta \in SUBSET Peers
  /\ addrs \in [Peers -> SUBSET Classes]
  /\ dhtAddrs \in [Peers -> SUBSET Classes]
  /\ identifying \in SUBSET Peers
  /\ dial \in [Peers -> {"idle", "merged", "dialing"}]
  /\ purge \in [Purges -> {"idle", "remove", "close", "ok", "failed", "refused",
                           "panicked"}]
  /\ peers \in [Purges -> SUBSET Peers]
  /\ todo \in [Purges -> SUBSET Peers]
  /\ cur \in [Purges -> SUBSET Peers]
  /\ failed \in [Purges -> BOOLEAN]
  /\ before \in [Purges -> [Peers -> 0..MaxOpened]]
  /\ relearned \in [Purges -> SUBSET Peers]
  /\ told \in [Peers -> SUBSET Classes]

Init ==
  /\ libp2p \in BOOLEAN
  /\ split \in BOOLEAN
  /\ opened = [p \in Peers |-> 0]
  /\ connected = {}
  /\ meta = {}
  /\ addrs = [p \in Peers |-> {}]
  /\ dhtAddrs \in IF libp2p /\ split THEN [Peers -> SUBSET Classes]
                  ELSE {[p \in Peers |-> {}]}
  /\ identifying = {}
  /\ dial = [p \in Peers |-> "idle"]
  /\ purge = [h \in Purges |-> "idle"]
  /\ peers = [h \in Purges |-> {}]
  /\ todo = [h \in Purges |-> {}]
  /\ cur = [h \in Purges |-> {}]
  /\ failed = [h \in Purges |-> FALSE]
  /\ before = [h \in Purges |-> [p \in Peers |-> 0]]
  /\ relearned = [h \in Purges |-> {}]
  /\ told = [p \in Peers |-> {}]

-----------------------------------------------------------------------------
(* The main peerstore *)

\* Addresses of p are added, if there are any.
AddAddrs(p, new) ==
  /\ addrs' = [addrs EXCEPT ![p] = @ \cup new]
  /\ relearned' = [h \in Purges |-> IF new = {} THEN relearned[h]
                                    ELSE relearned[h] \cup {p}]

-----------------------------------------------------------------------------
(* peerstoreMergingHost *)

\* Defect: special-use DNS names pass.
UndialableIPOnly(a) == a \in {"empty", "privateIP"}
isUndialableMergedAddr(a) == a \in {"empty", "privateIP", "specialDNS"}

\* Connect, up to the embedded host's.
Connect(p) ==
  /\ libp2p
  /\ p \in Dialled
  /\ dial[p] = "idle"
  /\ dial' = [dial EXCEPT ![p] = "merged"]
  /\ AddAddrs(p, IF split THEN {a \in dhtAddrs[p] : ~isUndialableMergedAddr(a)} ELSE {})
  /\ UNCHANGED <<hostVars, opened, connected, identifying, meta, purgeVars, told>>

\* External: BasicHost.Connect adds the addresses it is given, looks whether
\* the peer is connected, and dials what the peerstore has.
HostConnect(p) ==
  /\ dial[p] = "merged"
  /\ \E given \in SUBSET Classes :
       /\ AddAddrs(p, given)
       /\ told' = [told EXCEPT ![p] = @ \cup given]
       /\ dial' = [dial EXCEPT ![p] =
                     IF p \in connected \/ addrs[p] \cup given = {} THEN "idle"
                     ELSE "dialing"]
  /\ UNCHANGED <<hostVars, opened, connected, identifying, meta, purgeVars>>

-----------------------------------------------------------------------------
(* The network.  External: libp2p's swarm and identify. *)

Opened(p) ==
  /\ opened' = [opened EXCEPT ![p] = @ + 1]
  /\ connected' = connected \cup {p}
  /\ identifying' = identifying \cup {p}

DialEnds(p) ==
  /\ dial[p] = "dialing"
  /\ dial' = [dial EXCEPT ![p] = "idle"]
  /\ \/ UNCHANGED <<opened, connected, identifying>>
     \/ opened[p] < MaxOpened /\ p \notin connected /\ Opened(p)
  /\ UNCHANGED <<hostVars, storeVars, purgeVars, relearned, told>>

PeerConnects(p) ==
  /\ libp2p
  /\ p \notin connected
  /\ opened[p] < MaxOpened
  /\ Opened(p)
  /\ UNCHANGED <<hostVars, dial, storeVars, purgeVars, relearned, told>>

\* The peer says who it is: once after a connection opens, which may turn out
\* to be closed by now, and again whenever it likes (a push).
Identify(p) ==
  /\ p \in identifying \cup connected
  /\ identifying' = identifying \ {p}
  /\ \E new \in (SUBSET Classes) \ {{}} :
       /\ AddAddrs(p, new)
       /\ told' = [told EXCEPT ![p] = @ \cup new]
  /\ meta' = meta \cup {p}
  /\ UNCHANGED <<hostVars, opened, connected, dial, purgeVars>>

Disconnect(p) ==
  /\ p \in connected
  /\ connected' = connected \ {p}
  /\ \E lost \in SUBSET {p} : identifying' = identifying \ lost
  /\ UNCHANGED <<hostVars, opened, dial, storeVars, purgeVars, relearned, told>>

\* What is known of a peer that is not connected expires.
Expire(p) ==
  /\ p \notin connected
  /\ addrs' = [addrs EXCEPT ![p] = {}]
  /\ meta' = meta \ {p}
  /\ UNCHANGED <<hostVars, netVars, purgeVars, relearned, told>>

-----------------------------------------------------------------------------
(* /mgr/purge *)

Answer(h, l) ==
  /\ purge' = [purge EXCEPT ![h] = l]
  /\ UNCHANGED <<peers, todo, cur, failed, before, relearned>>

\* The first loop begins, over ps.
Purge(h, ps) ==
  /\ purge' = [purge EXCEPT ![h] = "remove"]
  /\ peers' = [peers EXCEPT ![h] = ps]
  /\ todo' = [todo EXCEPT ![h] = ps]
  /\ before' = [before EXCEPT ![h] = opened]
  /\ relearned' = [relearned EXCEPT ![h] = {}]
  /\ UNCHANGED <<cur, failed>>

\* Defect: the error of peer.Decode is not looked at.
purgePeerHandlerUnchecked(h) ==
  /\ purge[h] = "idle"
  /\ libp2p
  /\ Purge(h, {"undecodable"})
  /\ UNCHANGED <<hostVars, netVars, storeVars, told>>

\* A request without a peer, or with one that does not decode, is refused; any
\* other calls into the host, also if there is none (net/http recovers).
purgePeerHandler(h) ==
  /\ purge[h] = "idle"
  /\ \/ Answer(h, "refused")
     \/ ~libp2p /\ Answer(h, "panicked")
     \/ libp2p /\ Purge(h, connected)
     \/ libp2p /\ \E p \in Peers : Purge(h, {p})
  /\ UNCHANGED <<hostVars, netVars, storeVars, told>>

\* peerStore.RemovePeer removes everything but the addresses.
RemovePeer(h) ==
  /\ purge[h] = "remove"
  /\ cur[h] = {}
  /\ \E p \in todo[h] :
       /\ meta' = meta \ {p}
       /\ cur' = [cur EXCEPT ![h] = {p}]
       /\ todo' = [todo EXCEPT ![h] = @ \ {p}]
  /\ UNCHANGED <<hostVars, netVars, addrs, purge, peers, failed, before,
                 relearned, told>>

\* Defect: RemovePeer is taken to remove the addresses as well.
ClearAddrsForgotten(h) ==
  /\ cur[h] # {}
  /\ cur' = [cur EXCEPT ![h] = {}]
  /\ UNCHANGED <<hostVars, netVars, storeVars, purge, peers, todo, failed,
                 before, relearned, told>>

\* peerStore.ClearAddrs
ClearAddrs(h) ==
  /\ \E p \in cur[h] : addrs' = [addrs EXCEPT ![p] = {}]
  /\ cur' = [cur EXCEPT ![h] = {}]
  /\ UNCHANGED <<hostVars, netVars, meta, purge, peers, todo, failed, before,
                 relearned, told>>

\* Defect: a peer whose information is back by now is not closed.
ToCloseUnknown(h) == {p \in peers[h] : addrs[p] = {}}
ToClose(h) == peers[h]

\* The second loop begins, over the same slice of peers.
Removed(h) ==
  /\ purge[h] = "remove"
  /\ todo[h] = {}
  /\ cur[h] = {}
  /\ purge' = [purge EXCEPT ![h] = "close"]
  /\ todo' = [todo EXCEPT ![h] = ToClose(h)]
  /\ UNCHANGED <<hostVars, netVars, storeVars, peers, cur, failed, before,
                 relearned, told>>

\* net.ClosePeer: an error says nothing about whether the connection is gone.
ClosePeer(h) ==
  /\ purge[h] = "close"
  /\ \E p \in todo[h] :
       /\ todo' = [todo EXCEPT ![h] = @ \ {p}]
       /\ \/ /\ connected' = connected \ {p}
             /\ UNCHANGED failed
          \/ /\ p \in connected
             /\ connected' \in {connected, connected \ {p}}
             /\ failed' = [failed EXCEPT ![h] = TRUE]
  /\ UNCHANGED <<hostVars, opened, identifying, dial, storeVars, purge, peers, cur,
                 before, relearned, told>>

Closed(h) ==
  /\ purge[h] = "close"
  /\ todo[h] = {}
  /\ Answer(h, IF failed[h] THEN "failed" ELSE "ok")
  /\ UNCHANGED <<hostVars, netVars, storeVars, told>>

-----------------------------------------------------------------------------

PurgeStep(h) ==
  \/ purgePeerHandler(h)
  \/ RemovePeer(h)
  \/ ClearAddrs(h)
  \/ Removed(h)
  \/ ClosePeer(h)
  \/ Closed(h)

NetworkStep(p) ==
  \/ Connect(p)
  \/ HostConnect(p)
  \/ DialEnds(p)
  \/ PeerConnects(p)
  \/ Identify(p)
  \/ Disconnect(p)
  \/ Expire(p)

Next == (\E h \in Purges : PurgeStep(h)) \/ (\E p \in Peers : NetworkStep(p))

Spec == Init /\ [][Next]_vars

-----------------------------------------------------------------------------
(* Properties *)

(***************************************************************************)
(* No connection that was open when a purge of its peer began survives the *)
(* purge's success: a peer that is connected afterwards has reconnected,   *)
(* even if several purges and dials were at it at once.                    *)
(***************************************************************************)
NoConnectionSurvives ==
  \A h \in Purges : purge[h] = "ok" =>
    \A p \in peers[h] \cap connected : opened[p] > before[h][p]

(***************************************************************************)
(* What a successful purge has not forgotten of its peers was learned      *)
(* anew since it began.                                                    *)
(***************************************************************************)
Unknown(p) == addrs[p] = {} /\ p \notin meta

ForgottenOrRelearned ==
  \A h \in Purges : purge[h] = "ok" =>
    \A p \in peers[h] : Unknown(p) \/ p \in relearned[h]

(***************************************************************************)
(* Addresses that cannot be dialled reach the main peerstore from the peer *)
(* itself or a record of it, never from the DHT host's peerstore.          *)
(***************************************************************************)
MergedAreDialable ==
  \A p \in Peers : addrs[p] \cap {"empty", "privateIP", "specialDNS"} \subseteq told[p]
=============================================================================
