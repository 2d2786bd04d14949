------------------------------ MODULE SharedCache ------------------------------
(***************************************************************************)
(* A fleet of nodes that share their caches (setupBitswapExchange in       *)
(* src/setup_bitswap.go, setupPeering in src/setup.go, derivePeerIDs in    *)
(* src/keys.go).  A node that fetches a block tells the peers it is        *)
(* connected to what it wants; a peer with a bitswap server answers those  *)
(* its filter lets through, with the blocks it has at that moment.         *)
(*                                                                         *)
(* Bitswap itself is external and modelled by the options it is given: no  *)
(* answer for a block that is not there (SetSendDontHaves(false)), no      *)
(* notice to waiting peers when it arrives (noNotifyExchange), wants told  *)
(* anew at intervals (RebroadcastDelay).                                   *)
(***************************************************************************)
EXTENDS Naturals, FiniteSets

CONSTANTS
  Nodes,        (* instances of rainbow                                     *)
  Strangers,    (* other nodes of the network                               *)
  Blocks,
  Index,        (* the seed index of each instance                          *)
  MaxIndex,     (* --seed-peering-max-index                                 *)
  Fleets,       (* the configurations to cover                              *)
  MaxDrops      (* bound: connections that break                            *)

Peers == Nodes \cup Strangers

ASSUME FleetAssumption ==
  /\ Nodes \cap Strangers = {}
  /\ Index \in [Nodes -> Nat] /\ MaxIndex \in Nat /\ MaxDrops \in Nat
  /\ \A n, m \in Nodes : Index[n] = Index[m] => n = m
  /\ Fleets \subseteq [peering : [Nodes -> SUBSET Nodes],
                       seedPeering : BOOLEAN, sharedCache : [Nodes -> BOOLEAN]]

VARIABLES
  fleet,        (* the configuration of the instances, fixed                *)
  conns,        (* pairs of connected peers, both ways                      *)
  has,          (* the blocks of each peer                                  *)
  wants,        (* what each instance is fetching                           *)
  told,         (* <<n, m, b>>: n's want for b is on its way to m           *)
  served,       (* history: <<m, n, b>>, m's server gave n the block b      *)
  drops         (* history: connections that broke                          *)

fleetVars == <<fleet, conns, has, wants, told, served, drops>>

FleetTypeOK ==
  /\ fleet \in Fleets
  /\ conns \in SUBSET (Peers \X Peers)
  /\ has \in [Peers -> SUBSET Blocks] /\ wants \in [Peers -> SUBSET Blocks]
  /\ \A p \in Peers : wants[p] \cap has[p] = {}
  /\ told \in SUBSET (Peers \X Peers \X Blocks)
  /\ served \in SUBSET (Peers \X Peers \X Blocks)
  /\ drops \in 0..MaxDrops

FleetInit ==
  /\ fleet \in Fleets
  /\ conns = {} /\ told = {} /\ served = {} /\ drops = 0
  /\ has = [p \in Peers |-> {}] /\ wants = [p \in Peers |-> {}]

-----------------------------------------------------------------------------
(* Peering *)

\* derivePeerIDs: every index up to the largest but this node's own.
derivePeerIDs(n) == {m \in Nodes : Index[m] \in 0..MaxIndex /\ Index[m] # Index[n]}

\* setupPeering: whom the peering service of n keeps up connections to.
Peered(n) ==
  fleet.peering[n] \cup (IF fleet.seedPeering THEN derivePeerIDs(n) ELSE {})

\* The peering service dials a peer that is not connected, again and again.
Redial(n, m) ==
  /\ m \in Peered(n) /\ m # n
  /\ <<n, m>> \notin conns
  /\ conns' = conns \cup {<<n, m>>, <<m, n>>}
  /\ UNCHANGED <<fleet, has, wants, told, served, drops>>

\* A connection is lost, and what was on its way with it.
Drop(n, m) ==
  /\ <<n, m>> \in conns /\ drops < MaxDrops
  /\ drops' = drops + 1
  /\ conns' = conns \ {<<n, m>>, <<m, n>>}
  /\ told' = {t \in told : {t[1], t[2]} # {n, m}}
  /\ UNCHANGED <<fleet, has, wants, served>>

\* External: a peer of the network finds an instance.
Meet(s, n) ==
  /\ <<s, n>> \notin conns
  /\ conns' = conns \cup {<<s, n>>, <<n, s>>}
  /\ UNCHANGED <<fleet, has, wants, told, served, drops>>

-----------------------------------------------------------------------------
(* The exchange *)

Announced(p, b) == {<<p, q, b>> : q \in {q \in Peers : <<p, q>> \in conns}}

\* A request, or a peer of the network, asks for a block.
Want(p, b) ==
  /\ b \notin has[p] \cup wants[p]
  /\ wants' = [wants EXCEPT ![p] = @ \cup {b}]
  /\ told' = told \cup Announced(p, b)
  /\ UNCHANGED <<fleet, conns, has, served, drops>>

\* Defect: a want is told once.
TellOnce(p) == {}
Retold(p) == UNION {Announced(p, b) : b \in wants[p]}

Rebroadcast(p) ==
  /\ ~(Retold(p) \subseteq told)
  /\ told' = told \cup Retold(p)
  /\ UNCHANGED <<fleet, conns, has, wants, served, drops>>

\* Defect: a server without a filter.
ServesAnyone(m, p) == m \in Nodes /\ fleet.sharedCache[m]
\* The server, if there is one: only with configured peers, and for those only.
Serves(m, p) ==
  m \in Nodes /\ fleet.sharedCache[m] /\ p \in fleet.peering[m]

\* Defect: the want stays.
ArrivesStillWanted(p, b) ==
  has' = [has EXCEPT ![p] = @ \cup {b}] /\ UNCHANGED wants
\* The block b is now at p: its want is over, wherever it was told.
Arrives(p, b) ==
  /\ has' = [has EXCEPT ![p] = @ \cup {b}]
  /\ wants' = [wants EXCEPT ![p] = @ \ {b}]

\* A want reaches m.  A server that has the block sends it; any other peer, or
\* one without the block, says nothing and forgets.
Receive(t) ==
  LET p == t[1]  m == t[2]  b == t[3] IN
  /\ t \in told
  /\ IF Serves(m, p) /\ b \in has[m] /\ b \in wants[p]
     THEN /\ Arrives(p, b)
          /\ served' = served \cup {<<m, p, b>>}
          /\ told' = {u \in told : u[1] # p \/ u[3] # b}
     ELSE /\ told' = told \ {t}
          /\ UNCHANGED <<has, wants, served>>
  /\ UNCHANGED <<fleet, conns, drops>>

\* External: the block comes from elsewhere in the network.
Fetch(p, b) ==
  /\ b \in wants[p]
  /\ Arrives(p, b)
  /\ told' = {u \in told : u[1] # p \/ u[3] # b}
  /\ UNCHANGED <<fleet, conns, served, drops>>

FleetNext ==
  \/ \E n \in Nodes, m \in Nodes : Redial(n, m)
  \/ \E n \in Peers, m \in Peers : Drop(n, m)
  \/ \E s \in Strangers, n \in Nodes : Meet(s, n)
  \/ \E p \in Peers, b \in Blocks : Want(p, b) \/ Fetch(p, b)
  \/ \E p \in Peers : Rebroadcast(p)
  \/ \E t \in told : Receive(t)

FleetSpec == FleetInit /\ [][FleetNext]_fleetVars

\* The peering service redials, wants are told anew, what was told arrives
\* unless its connection breaks.  Nothing makes the network have a block.
FleetFairSpec ==
  /\ FleetSpec
  /\ \A n \in Nodes : WF_fleetVars(Rebroadcast(n))
  /\ \A n, m \in Nodes : WF_fleetVars(Redial(n, m))
  /\ \A n, m \in Nodes, b \in Blocks : SF_fleetVars(Receive(<<n, m, b>>))

-----------------------------------------------------------------------------
(* Properties *)

\* What a node's server gives away goes to instances that node was configured
\* to share with, whoever is connected and whatever was asked before.
OnlyToSafelisted ==
  \A s \in served : s[1] \in Nodes /\ s[2] \in Nodes /\ s[2] \in fleet.peering[s[1]]

\* A block that a request is waiting for and that a sharing peer has, or gets
\* while it waits, reaches it: although nobody is told when it arrives, and
\* although connections break.
SafelistedAreAnswered ==
  \A n, m \in Nodes, b \in Blocks :
    (/\ b \in wants[n] /\ b \in has[m] /\ fleet.sharedCache[m]
     /\ n \in fleet.peering[m] /\ (m \in Peered(n) \/ n \in Peered(m)))
      ~> (b \in has[n])

================================================================================
