-------------------------------- MODULE Startup --------------------------------
(***************************************************************************)
(* How a node comes up: the options, the secrets, the expansion of the     *)
(* "auto" placeholders and the set-up of the parts, in the order of the    *)
(* command's action (src/main.go, src/autoconf.go, src/setup.go,           *)
(* src/setup_routing.go).  The first step that fails ends the process.     *)
(*                                                                         *)
(* An option that one step reads is chosen in that step; those that        *)
(* several steps read are in opt.  Lists are sets of kinds of entries.     *)
(***************************************************************************)
EXTENDS Naturals, Sequences, FiniteSets

CONSTANTS
  Options,    (* the command lines to cover, a subset of AnyOptions         *)
  Bootstraps, (* the values of --bootstrap to cover, sets of peers          *)
  Routers,    (* the values of --http-routers to cover                      *)
  Domains     (* domains that --dnslink-resolvers names                     *)

VARIABLES
  stage,      (* the step that comes next, "up" or "failed"                 *)
  opt,        (* the options                                                *)
  key,        (* where the identity comes from                              *)
  seed,       (* a seed was found                                           *)
  peering,    (* kinds of peers in --peering                                *)
  data,       (* what autoconf has: nothing, or a configuration             *)
  boot,       (* cfg.Bootstrap, once expanded                               *)
  routers,    (* cfg.RoutingV1Endpoints, once expanded                      *)
  resolvers,  (* the resolver of each domain, once expanded                 *)
  autos,      (* history: the options that asked for "auto"                 *)
  node        (* the parts that are set up                                  *)

vars == <<stage, opt, key, seed, peering, data, boot, routers, resolvers,
          autos, node>>

AnyOptions ==
  [libp2p : BOOLEAN, bitswap : BOOLEAN,
   dht : {"off", "standard", "accelerated", "unknown"},
   backends : {"none", "block", "car", "invalid"}, sharedHost : BOOLEAN,
   sharedCache : BOOLEAN, seedPeering : BOOLEAN, seedFlag : BOOLEAN,
   seedFile : {"absent", "unreadable", "present"},
   index : {"unset", "negative", "set"}, autoconf : {"on", "noURL", "off"}]

ASSUME OptionsAssumption ==
  /\ Options \subseteq AnyOptions
  /\ \A b \in Bootstraps : b \subseteq {"auto", "good", "bad", "blank"}
  /\ \A r \in Routers : r \subseteq {"auto", "own"}

\* An empty Node: no host, no DHT, nothing that answers.
NoParts ==
  [host |-> FALSE, dht |-> "none", dhtHost |-> "none", dhtBoot |-> {},
   seedDHT |-> FALSE, peers |-> {}, valueStore |-> {}, bsrv |-> "none",
   server |-> FALSE, blockstore |-> FALSE, merging |-> FALSE,
   backend |-> "none"]

Stages ==
  {"flags", "secrets", "options", "autoconf", "bootstrap", "routers",
   "resolvers", "check", "setup", "dht", "routing", "peering", "blocks",
   "handler", "up", "failed"}

\* The parts of a Node, as far as they are set up.
Parts ==
  [host : BOOLEAN, dht : {"none", "standard", "accelerated"},
   dhtHost : {"none", "main", "own"},
   dhtBoot : SUBSET {"good", "amino", "default"}, seedDHT : BOOLEAN,
   peers : SUBSET {"peer", "rainbow-seed", "fleet"},
   valueStore : SUBSET {"dht", "auto", "own", "ipni", "amino", "backends"},
   bsrv : {"none", "remote", "exchange"}, server : BOOLEAN,
   blockstore : BOOLEAN, merging : BOOLEAN,
   backend : {"none", "remote", "exchange", "car"}]

TypeOK ==
  /\ stage \in Stages
  /\ opt \in AnyOptions
  /\ key \in {"none", "derived", "file"} /\ seed \in BOOLEAN
  /\ peering \subseteq {"peer", "rainbow-seed"}
  /\ data \in {"none", "config"}
  /\ boot \subseteq {"auto", "good", "bad", "blank", "amino"}
  /\ routers \subseteq {"auto", "own", "ipni", "amino"}
  /\ resolvers \in UNION {[D -> {"auto", "own", "ofAutoconf"}] : D \in SUBSET Domains}
  /\ autos \subseteq {"bootstrap", "routers", "resolvers"}
  /\ node \in Parts

Init ==
  /\ stage = "flags" /\ opt \in Options
  /\ key = "none" /\ seed = FALSE /\ peering = {} /\ data = "none"
  /\ boot = {} /\ routers = {} /\ resolvers = <<>> /\ autos = {}
  /\ node = NoParts

At(s)   == stage = s
Goto(s) == stage' = s
Fail    == stage' = "failed"
options == <<opt, key, seed, peering>>
expanded == <<data, boot, routers, resolvers, autos>>

-----------------------------------------------------------------------------
(* The command line *)

\* The Action of --seed-peering: both flags must be set explicitly.
SeedPeeringRefused(o) == o.seedPeering /\ (~o.seedFlag \/ o.index = "unset")

\* Defect: the parts that remote backends replace stay as they were asked for.
NothingForced(o) == [o EXCEPT !.libp2p = FALSE]
Forced(o) == [o EXCEPT !.libp2p = FALSE, !.bitswap = FALSE, !.dht = "off"]

\* The Actions of the flags, then remote backends switch libp2p off, and with
\* it bitswap and the DHT.
ReadFlags ==
  /\ At("flags")
  /\ IF SeedPeeringRefused(opt) \/ opt.backends = "invalid"
     THEN Fail /\ UNCHANGED opt
     ELSE /\ Goto("secrets")
          /\ opt' = IF opt.backends # "none" THEN Forced(opt) ELSE opt
  /\ UNCHANGED <<key, seed, peering, expanded, node>>

\* The seed, the identity and the configured peers, only with libp2p.  The file
\* wins over the flag; a peer given as /p2p/rainbow-seed/N needs the seed and
\* an index of this node.
LoadSecrets ==
  /\ At("secrets")
  /\ IF ~opt.libp2p THEN Goto("options") /\ UNCHANGED <<key, seed, peering>>
     ELSE \E ok \in BOOLEAN, p \in SUBSET {"peer", "rainbow-seed"} :
       LET found   == opt.seedFile = "present" \/ opt.seedFlag
           derived == found /\ opt.index = "set"
       IN IF \/ opt.seedFile = "unreadable" \/ ~ok
             \/ "rainbow-seed" \in p /\ ~derived
          THEN Fail /\ UNCHANGED <<key, seed, peering>>
          ELSE /\ Goto("options")
               /\ seed' = found
               /\ key' = IF derived THEN "derived" ELSE "file"
               /\ peering' = p
  /\ UNCHANGED <<opt, expanded, node>>

\* The other options; only the providers to ignore may fail to parse.
ParseOptions ==
  /\ At("options")
  /\ Goto("autoconf") \/ Fail
  /\ UNCHANGED <<options, expanded, node>>

-----------------------------------------------------------------------------
(* Autoconf *)

\* The client's Start gives a configuration whatever happens, a client that
\* cannot be made gives none; neither fails the start-up.
StartAutoconf ==
  /\ At("autoconf")
  /\ data' \in IF opt.autoconf = "on" THEN {"none", "config"} ELSE {"none"}
  /\ Goto("bootstrap")
  /\ UNCHANGED <<options, boot, routers, resolvers, autos, node>>

\* Defect: the standard client is not counted as native.
OnlyAccelerated(dht) == dht = "accelerated"
\* getRoutingType and getNativeSystems: the node speaks to the Amino DHT itself.
NativeAmino(dht) == dht # "off"

\* External: a list without "auto" stays; with a configuration "auto" becomes
\* the entries got gives for it, without one it may stay or go.
Expansions(list, got) ==
  IF "auto" \notin list THEN {list}
  ELSE IF data = "config" THEN {(list \ {"auto"}) \cup got}
  ELSE {list, list \ {"auto"}}

Asked(name, list) == autos' = IF "auto" \in list THEN autos \cup {name} ELSE autos

expandAutoBootstrap ==
  /\ At("bootstrap")
  /\ \E list \in Bootstraps :
       /\ Asked("bootstrap", list)
       /\ IF opt.autoconf = "off" /\ "auto" \in list THEN Fail /\ UNCHANGED boot
          ELSE /\ Goto("routers")
               /\ boot' \in Expansions(list,
                    IF NativeAmino(opt.dht) THEN {"amino"} ELSE {})
  /\ UNCHANGED <<options, data, routers, resolvers, node>>

\* What "auto" stands for: the indexers, and an HTTP router for the Amino DHT
\* unless the node is on that DHT itself.
expandAutoHTTPRouters ==
  /\ At("routers")
  /\ \E list \in Routers :
       /\ Asked("routers", list)
       /\ IF opt.autoconf = "off" /\ "auto" \in list THEN Fail /\ UNCHANGED routers
          ELSE /\ Goto("resolvers")
               /\ routers' \in Expansions(list,
                    {"ipni"} \cup IF NativeAmino(opt.dht) THEN {} ELSE {"amino"})
  /\ UNCHANGED <<options, data, boot, resolvers, node>>

\* The entries "domain : url" in order; a later one for a domain replaces an
\* earlier one before "auto" is looked for.
Resolvers(entries) ==
  [d \in {entries[i][1] : i \in DOMAIN entries} |->
    entries[CHOOSE i \in DOMAIN entries :
              entries[i][1] = d /\ \A j \in DOMAIN entries :
                                     entries[j][1] = d => j <= i][2]]

\* Defect: the placeholder is kept as the address of a resolver.
AutoKept(map) == FALSE
AutoRefused(map) == \E d \in DOMAIN map : map[d] = "auto"

\* expandAutoDNSResolvers, then parseDNSResolversMap, which may refuse a URL.
expandAutoDNSResolvers ==
  /\ At("resolvers")
  /\ \E n \in 0..2 : \E entries \in [1..n -> Domains \X {"auto", "own"}] :
       LET map == Resolvers(entries) IN
       /\ Asked("resolvers", {entries[i][2] : i \in 1..n})
       /\ IF opt.autoconf = "off" /\ AutoRefused(map)
          THEN Fail /\ UNCHANGED resolvers
          ELSE \/ Fail /\ UNCHANGED resolvers
               \/ /\ Goto("check")
                  /\ resolvers' = [d \in DOMAIN map |->
                       IF map[d] = "auto" /\ opt.autoconf # "off" THEN "ofAutoconf"
                       ELSE map[d]]
  /\ UNCHANGED <<options, data, boot, routers, node>>

CheckBootstrap ==
  /\ At("check")
  /\ IF opt.libp2p /\ opt.dht # "off" /\ boot \subseteq {"blank", "auto"}
     THEN Fail ELSE Goto("setup")
  /\ UNCHANGED <<options, expanded, node>>

-----------------------------------------------------------------------------
(* Setup *)

\* Of the value store: the DHT, the HTTP routers, and the remote backends if
\* IPNS records are to be fetched there.
ValueStore(dht, ipns) ==
  (IF dht # "none" THEN {"dht"} ELSE {}) \cup routers
    \cup IF opt.backends # "none" /\ ipns THEN {"backends"} ELSE {}

\* Defect: a node without libp2p may do without backends too.
NothingNeeded(o) == TRUE
HasBackends(o) == o.backends # "none"

\* No libp2p: everything comes from the remote backends, which must be there.
\* The denylists, the routers and the name system may fail.
SetupNoLibp2p ==
  /\ At("setup") /\ ~opt.libp2p
  /\ \/ Fail /\ UNCHANGED node
     \/ /\ HasBackends(opt)
        /\ \E ipns \in BOOLEAN :
             node' = [node EXCEPT
               !.bsrv = IF opt.backends = "block" THEN "remote" ELSE "none",
               !.valueStore = ValueStore("none", ipns)]
        /\ Goto("handler")
  /\ UNCHANGED <<options, expanded>>

\* The first half of SetupWithLibp2p, up to the host: something must use it;
\* denylists, limits, addresses and the datastore may fail.
SetupWithLibp2p ==
  /\ At("setup") /\ opt.libp2p
  /\ IF ~opt.bitswap /\ opt.dht = "off" THEN Fail ELSE Fail \/ Goto("dht")
  /\ node' = [node EXCEPT !.host = stage' = "dht"]
  /\ UNCHANGED <<options, expanded>>

\* Defect: what does not parse is handed to the DHT.
Unparsed(b) == b
\* parseBootstrapPeers: blanks, placeholders and what does not parse are skipped.
parseBootstrapPeers(b) == b \cap {"good", "amino"}

\* Defect: no peer is a reason to use the default ones.
AlwaysFallBack(o) == TRUE
FallsBack(o) == o.seedPeering

setupDHTRouting ==
  /\ At("dht")
  /\ LET valid == parseBootstrapPeers(boot) IN
     IF opt.dht = "off" THEN Goto("routing") /\ UNCHANGED node
     ELSE IF \/ valid = {} /\ ~FallsBack(opt)
             \/ opt.dht = "unknown"
     THEN Fail /\ UNCHANGED node
     ELSE /\ Goto("routing")
          /\ node' = [node EXCEPT
               !.dht = opt.dht,
               !.dhtHost = IF opt.sharedHost THEN "main" ELSE "own",
               !.dhtBoot = IF valid = {} THEN {"default"} ELSE valid]
  /\ UNCHANGED <<options, expanded>>

\* Defect: only a split host calls for a DHT of its own on the main one.
OnlyWhenSplit == ~opt.sharedHost
NeedsSeedDHT == ~opt.sharedHost \/ node.dht = "none"

\* The routers together, and for seed peering a light DHT on the main host.
setupRouting ==
  /\ At("routing")
  /\ \E ipns \in BOOLEAN :
       node' = [node EXCEPT !.seedDHT = opt.seedPeering /\ NeedsSeedDHT,
                            !.valueStore = ValueStore(node.dht, ipns)]
  /\ Goto("peering")
  /\ UNCHANGED <<options, expanded>>

\* Defect: any index will do.
NoIndexCheck(o) == FALSE
BadIndex(o) == o.index # "set"

\* The configured peers, and with seed peering those whose identities derive
\* from the same seed; the largest index may be negative.
setupPeering ==
  /\ At("peering")
  /\ IF ~opt.seedPeering
     THEN Goto("blocks") /\ node' = [node EXCEPT !.peers = peering]
     ELSE IF BadIndex(opt) \/ ~seed THEN Fail /\ UNCHANGED node
     ELSE \/ Fail /\ UNCHANGED node
          \/ Goto("blocks") /\ node' = [node EXCEPT !.peers = peering \cup {"fleet"}]
  /\ UNCHANGED <<options, expanded>>

\* The block service: over bitswap, or else over remote backends in block mode,
\* then the name system, which may fail.
SetupBlockService ==
  /\ At("blocks")
  /\ IF opt.bitswap
     THEN /\ node' = [node EXCEPT
               !.bsrv = "exchange", !.blockstore = TRUE,
               !.server = opt.sharedCache /\ peering # {},
               !.merging = node.dhtHost = "own"]
          /\ Goto("handler") \/ Fail
     ELSE IF opt.backends # "block" \/ opt.sharedCache
     THEN Fail /\ UNCHANGED node
     ELSE Goto("handler") /\ node' = [node EXCEPT !.bsrv = "remote"]
  /\ UNCHANGED <<options, expanded>>

\* setupGatewayHandler: the backend the requests read from.
SetupGatewayBackend ==
  /\ At("handler")
  /\ node' = [node EXCEPT !.backend = IF opt.backends = "car" THEN "car" ELSE node.bsrv]
  /\ Goto("up")
  /\ UNCHANGED <<options, expanded>>

Next ==
  \/ ReadFlags \/ LoadSecrets \/ ParseOptions
  \/ StartAutoconf \/ expandAutoBootstrap \/ expandAutoHTTPRouters
  \/ expandAutoDNSResolvers \/ CheckBootstrap
  \/ SetupNoLibp2p \/ SetupWithLibp2p \/ setupDHTRouting \/ setupRouting
  \/ setupPeering \/ SetupBlockService \/ SetupGatewayBackend

Spec == Init /\ [][Next]_vars

-----------------------------------------------------------------------------
(* Properties *)

Up == stage = "up"

\* A node that is up has something its requests read blocks from: CARs or raw
\* blocks of remote backends, or an exchange over a host of its own
\* (SetupNoLibp2p, SetupWithLibp2p and setupGatewayHandler decide separately).
BackendServes ==
  Up => /\ node.backend # "none"
        /\ node.backend = "exchange" => node.host /\ node.blockstore
        /\ ~node.host => opt.backends # "none"

\* Peers derived from the seed come without addresses: a node that keeps up
\* connections to them has a DHT on the host that dials them (setupPeering
\* relies on the light DHT of setupRouting).
FleetIsFound ==
  Up /\ "fleet" \in node.peers =>
    node.seedDHT \/ (node.dht # "none" /\ node.dhtHost = "main")

\* A node that peers by seed has itself an identity of that seed, so the others
\* look for it too (main.go derives the key, setupPeering the peers).
FleetKnowsNode == "fleet" \in node.peers => key = "derived"

\* A DHT client always has peers to start from, those it was given, and the
\* default ones only if there is none and peers are to be found by seed; what
\* main's check lets through never leaves one with nobody.
StartsFromItsPeers ==
  node.dht # "none" =>
    /\ node.dhtBoot # {}
    /\ node.dhtBoot \subseteq boot \cup {"default"}
    /\ "default" \in node.dhtBoot => opt.seedPeering /\ boot \subseteq {"bad", "auto", "blank"}

\* A node that leaves its routers to autoconf asks the Amino DHT in exactly one
\* way, as a client or over HTTP: the routing type the expansion is told is
\* that of the DHT that is set up in the end.
AminoOnce ==
  Up /\ data = "config" /\ "routers" \in autos =>
    ((node.dht # "none") # ("amino" \in node.valueStore))

\* Without autoconf no placeholder reaches a part of the node.
NoPlaceholder ==
  Up /\ opt.autoconf = "off" =>
    "auto" \notin boot \cup routers \cup {resolvers[d] : d \in DOMAIN resolvers}

================================================================================
