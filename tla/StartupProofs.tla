----------------------------- MODULE StartupProofs -----------------------------
(***************************************************************************)
(* What a node that came up has (Startup), for any command lines, lists    *)
(* and domains.                                                            *)
(***************************************************************************)
EXTENDS Startup, SharedCache, TLAPS

\* The steps before the first part of the node is made.
Preparing ==
  {"flags", "secrets", "options", "autoconf", "bootstrap", "routers",
   "resolvers", "check", "setup"}

\* The steps after every list is expanded.
Building ==
  {"setup", "dht", "routing", "peering", "blocks", "handler", "up", "failed"}

-----------------------------------------------------------------------------
(* The invariant *)

\* The flags were checked, and remote backends took their effect.
Checked(o) ==
  /\ ~SeedPeeringRefused(o) /\ o.backends # "invalid"
  /\ o.backends # "none" => ~o.libp2p /\ ~o.bitswap /\ o.dht = "off"

FlagsHold == stage \in {"flags", "failed"} \/ Checked(opt)

\* The identity follows the seed.
SeedGivesKey == seed /\ opt.index = "set" => key = "derived"

\* The routing type the placeholder was expanded with.
RoutersOfType ==
  /\ stage \in {"flags", "secrets", "options", "autoconf", "bootstrap", "routers"} =>
       "routers" \notin autos
  /\ stage \in {"resolvers", "check"} \cup Building /\ stage # "failed" =>
       (data = "config" /\ "routers" \in autos =>
          ("amino" \in routers <=> opt.dht = "off"))

\* Once expanded, nothing is left of a placeholder that autoconf does not serve.
Expanded ==
  opt.autoconf = "off" =>
    "auto" \notin boot \cup routers \cup {resolvers[d] : d \in DOMAIN resolvers}

ConfigInv == FlagsHold /\ SeedGivesKey /\ RoutersOfType /\ Expanded

PartsComeLater == stage \in Preparing => node = NoParts

\* The parts that are made on top of a libp2p host.
OverHost ==
  stage \in {"dht", "routing", "peering", "blocks"} => opt.libp2p /\ node.host

\* At first there is nothing but the host, and at last the peers to keep up.
JustAHost == stage = "dht" => node.dht = "none" /\ node.seedDHT = FALSE
FleetLater == stage \in {"dht", "routing", "peering"} => "fleet" \notin node.peers

\* A DHT is there if one was asked for, on the host that was asked for.
DHTAsAsked ==
  /\ node.dht # "none" => node.dhtHost = IF opt.sharedHost THEN "main" ELSE "own"
  /\ stage \in {"routing", "peering", "blocks", "handler", "up"} =>
       (node.dht # "none" <=> opt.dht # "off")

\* A DHT on the main host.
FindsBySeed == node.seedDHT \/ (node.dht # "none" /\ node.dhtHost = "main")

\* Peers derived from the seed can be found from the moment they are kept up.
FleetHasDHT ==
  /\ stage \in {"peering", "blocks"} /\ opt.seedPeering => FindsBySeed
  /\ "fleet" \in node.peers => opt.index = "set" /\ seed /\ FindsBySeed

StoreHasRouters ==
  stage \in {"peering", "blocks", "handler", "up"} =>
    ("amino" \in node.valueStore <=> "amino" \in routers)

\* Something the backend can be made of.
HasSource ==
  stage \in {"handler", "up"} =>
    /\ opt.backends # "car" => node.bsrv # "none"
    /\ node.bsrv = "exchange" => node.host /\ node.blockstore
    /\ ~node.host => opt.backends # "none"

PartsInv ==
  /\ PartsComeLater /\ OverHost /\ JustAHost /\ FleetLater /\ DHTAsAsked
  /\ FleetHasDHT /\ StoreHasRouters /\ HasSource /\ BackendServes /\ StartsFromItsPeers

IInv == TypeOK /\ ConfigInv /\ PartsInv

LEMMA IInvImplies ==
  IInv => /\ BackendServes /\ FleetIsFound /\ FleetKnowsNode /\ StartsFromItsPeers
          /\ AminoOnce /\ NoPlaceholder
<1> SUFFICES ASSUME IInv
             PROVE  FleetIsFound /\ FleetKnowsNode /\ AminoOnce /\ NoPlaceholder
  BY DEF IInv, PartsInv
<1>1. FleetIsFound
  BY DEF IInv, PartsInv, FleetHasDHT, FindsBySeed, FleetIsFound
<1>2. FleetKnowsNode
  BY DEF IInv, PartsInv, ConfigInv, FleetHasDHT, SeedGivesKey, FleetKnowsNode
<1>3. AminoOnce
  BY DEF IInv, PartsInv, ConfigInv, RoutersOfType, Building, StoreHasRouters,
         DHTAsAsked, AminoOnce, Up
<1>4. NoPlaceholder
  BY DEF IInv, ConfigInv, Expanded, NoPlaceholder
<1> QED BY <1>1, <1>2, <1>3, <1>4

-----------------------------------------------------------------------------
(* Types *)

LEMMA InitType == Init => TypeOK
<1> SUFFICES ASSUME Init PROVE TypeOK
  OBVIOUS
<1>1. resolvers \in [{} -> {"auto", "own", "ofAutoconf"}]
  BY DEF Init
<1>2. resolvers \in UNION {[D -> {"auto", "own", "ofAutoconf"}] : D \in SUBSET Domains}
  BY <1>1
<1>3. opt \in AnyOptions
  BY OptionsAssumption DEF Init
<1>4. node \in Parts
  BY DEF Init, NoParts, Parts
<1> QED BY <1>2, <1>3, <1>4 DEF Init, TypeOK, Stages

\* What a name is looked up with is one of the entries.
LEMMA ResolversType ==
  ASSUME NEW n \in 0..2, NEW entries \in [1..n -> Domains \X {"auto", "own"}]
  PROVE  LET map == Resolvers(entries) IN
         /\ map \in [DOMAIN map -> {"auto", "own"}]
         /\ DOMAIN map \subseteq Domains
<1> DEFINE last(d) == CHOOSE i \in DOMAIN entries :
              entries[i][1] = d /\ \A j \in DOMAIN entries :
                                     entries[j][1] = d => j <= i
           map == Resolvers(entries)
<1>1. DOMAIN entries = 1..n /\ \A i \in 1..n : entries[i] \in Domains \X {"auto", "own"}
  OBVIOUS
<1>2. ASSUME NEW d \in {entries[i][1] : i \in DOMAIN entries} PROVE last(d) \in 1..n
  <2>1. PICK k \in 1..n : entries[k][1] = d
    BY <1>1
  <2>2. \E i \in 1..n : /\ entries[i][1] = d
                       /\ \A j \in 1..n : entries[j][1] = d => j <= i
    <3>1. CASE 2 \in 1..n /\ entries[2][1] = d
      BY <3>1
    <3>2. CASE ~(2 \in 1..n /\ entries[2][1] = d)
      <4>1. \A j \in 1..n : entries[j][1] = d => j = 1
        BY <3>2
      <4> QED BY <2>1, <4>1
    <3> QED BY <3>1, <3>2
  <2> QED BY <1>1, <2>2
<1>3. map = [d \in {entries[i][1] : i \in DOMAIN entries} |-> entries[last(d)][2]]
  BY DEF Resolvers
<1>4. DOMAIN map = {entries[i][1] : i \in DOMAIN entries}
  BY <1>3
<1>5. DOMAIN map \subseteq Domains
  BY <1>1, <1>4
<1>6. ASSUME NEW d \in DOMAIN map PROVE map[d] \in {"auto", "own"}
  <2> HIDE DEF last
  <2>1. last(d) \in 1..n
    BY <1>2, <1>4
  <2>2. map[d] = entries[last(d)][2]
    BY <1>3, <1>4
  <2> QED BY <1>1, <2>1, <2>2
<1>7. map \in [DOMAIN map -> {"auto", "own"}]
  BY <1>3, <1>4, <1>6
<1> QED BY <1>5, <1>7

\* What expandAutoDNSResolvers does with these entries.
ReadsResolvers(n, entries) ==
  /\ Asked("resolvers", {entries[i][2] : i \in 1..n})
  /\ \/ UNCHANGED resolvers
     \/ /\ ~(opt.autoconf = "off" /\ AutoRefused(Resolvers(entries)))
        /\ resolvers' = [d \in DOMAIN Resolvers(entries) |->
             IF Resolvers(entries)[d] = "auto" /\ opt.autoconf # "off"
             THEN "ofAutoconf" ELSE Resolvers(entries)[d]]

LEMMA ValueStoreType ==
  ASSUME TypeOK, NEW dht, NEW ipns \in BOOLEAN
  PROVE  ValueStore(dht, ipns) \subseteq {"dht", "auto", "own", "ipni", "amino", "backends"}
BY DEF ValueStore, TypeOK

LEMMA NextType == TypeOK /\ [Next]_vars => TypeOK'
<1> SUFFICES ASSUME TypeOK, [Next]_vars PROVE TypeOK'
  OBVIOUS
<1>1. CASE ReadFlags
  <2>1. Forced(opt) \in AnyOptions
    BY DEF TypeOK, AnyOptions, Forced
  <2> QED BY <1>1, <2>1 DEF ReadFlags, TypeOK, Stages, At, Goto, Fail, expanded
<1>2. CASE LoadSecrets
  BY <1>2 DEF LoadSecrets, TypeOK, Stages, At, Goto, Fail, options, expanded
<1>3. CASE ParseOptions
  BY <1>3 DEF ParseOptions, TypeOK, Stages, At, Goto, Fail, options, expanded
<1>4. CASE StartAutoconf
  BY <1>4 DEF StartAutoconf, TypeOK, Stages, At, Goto, Fail, options, expanded
<1>5. CASE expandAutoBootstrap
  <2>1. boot' \subseteq {"auto", "good", "bad", "blank", "amino"}
    <3>1. PICK list \in Bootstraps :
            \/ UNCHANGED boot
            \/ boot' \in Expansions(list, IF NativeAmino(opt.dht) THEN {"amino"} ELSE {})
      BY <1>5 DEF expandAutoBootstrap
    <3>2. list \subseteq {"auto", "good", "bad", "blank"}
      BY OptionsAssumption
    <3> QED BY <3>1, <3>2 DEF Expansions, TypeOK
  <2> QED BY <1>5, <2>1
          DEF expandAutoBootstrap, Asked, TypeOK, Stages, At, Goto, Fail, options
<1>6. CASE expandAutoHTTPRouters
  <2>1. routers' \subseteq {"auto", "own", "ipni", "amino"}
    <3> DEFINE got == {"ipni"} \cup (IF NativeAmino(opt.dht) THEN {} ELSE {"amino"})
    <3>1. got \subseteq {"ipni", "amino"}
      OBVIOUS
    <3>2. PICK list \in Routers : UNCHANGED routers \/ routers' \in Expansions(list, got)
      BY <1>6 DEF expandAutoHTTPRouters
    <3> HIDE DEF got
    <3>3. list \subseteq {"auto", "own"}
      BY OptionsAssumption
    <3>4. routers \subseteq {"auto", "own", "ipni", "amino"}
      BY DEF TypeOK
    <3>5. \A x \in Expansions(list, got) : x \subseteq list \cup got
      BY DEF Expansions
    <3> QED BY <3>1, <3>2, <3>3, <3>4, <3>5
  <2>2. /\ stage' \in {"resolvers", "failed"} /\ UNCHANGED <<options, data, boot, resolvers, node>>
        /\ autos' \subseteq autos \cup {"routers"}
    BY <1>6 DEF expandAutoHTTPRouters, Goto, Fail, Asked
  <2> QED BY <2>1, <2>2 DEF TypeOK, Stages, options
<1>7. CASE expandAutoDNSResolvers
  <2>0. PICK n \in 0..2 : \E entries \in [1..n -> Domains \X {"auto", "own"}] :
          ReadsResolvers(n, entries)
    BY <1>7 DEF expandAutoDNSResolvers, ReadsResolvers
  <2>1. PICK entries \in [1..n -> Domains \X {"auto", "own"}] : ReadsResolvers(n, entries)
    BY <2>0
  <2>2. resolvers' \in UNION {[D -> {"auto", "own", "ofAutoconf"}] : D \in SUBSET Domains}
    <3>1. CASE UNCHANGED resolvers
      BY <3>1 DEF TypeOK
    <3>2. CASE ~UNCHANGED resolvers
      <4> DEFINE map == Resolvers(entries)
      <4>1. map \in [DOMAIN map -> {"auto", "own"}] /\ DOMAIN map \subseteq Domains
        BY ResolversType
      <4> HIDE DEF map
      <4>2. resolvers' = [d \in DOMAIN map |->
              IF map[d] = "auto" /\ opt.autoconf # "off" THEN "ofAutoconf" ELSE map[d]]
        BY <2>1, <3>2 DEF map, ReadsResolvers
      <4>3. resolvers' \in [DOMAIN map -> {"auto", "own", "ofAutoconf"}]
        BY <4>1, <4>2
      <4> QED BY <4>1, <4>3
    <3> QED BY <3>1, <3>2
  <2> QED BY <1>7, <2>1, <2>2
          DEF expandAutoDNSResolvers, ReadsResolvers, Asked, TypeOK, Stages, At, Goto,
              Fail, options
<1>8. CASE CheckBootstrap
  BY <1>8 DEF CheckBootstrap, TypeOK, Stages, At, Goto, Fail, options, expanded
<1>9. CASE SetupNoLibp2p
  <2>1. node' \in Parts
    <3>1. PICK ipns \in BOOLEAN :
            \/ UNCHANGED node
            \/ node' = [node EXCEPT
                 !.bsrv = IF opt.backends = "block" THEN "remote" ELSE "none",
                 !.valueStore = ValueStore("none", ipns)]
      BY <1>9 DEF SetupNoLibp2p
    <3> DEFINE store   == ValueStore("none", ipns)
               service == IF opt.backends = "block" THEN "remote" ELSE "none"
    <3>2. store \subseteq {"dht", "auto", "own", "ipni", "amino", "backends"}
      BY ValueStoreType
    <3>3. service \in {"none", "remote", "exchange"}
      OBVIOUS
    <3>4. node' = node \/ node' = [node EXCEPT !.bsrv = service, !.valueStore = store]
      BY <3>1
    <3> HIDE DEF store, service
    <3>5. node \in Parts
      BY DEF TypeOK
    <3>6. CASE node' = [node EXCEPT !.bsrv = service, !.valueStore = store]
      BY <3>2, <3>3, <3>5, <3>6 DEF Parts
    <3> QED BY <3>4, <3>5, <3>6
  <2> QED BY <1>9, <2>1
          DEF SetupNoLibp2p, TypeOK, Stages, At, Goto, Fail, options, expanded
<1>10. CASE SetupWithLibp2p
  BY <1>10 DEF SetupWithLibp2p, TypeOK, Stages, At, Goto, Fail, options, expanded,
    Parts
<1>11. CASE setupDHTRouting
  <2>1. node' \in Parts
    <3> DEFINE valid == parseBootstrapPeers(boot)
    <3>1. valid \subseteq {"good", "amino"}
      BY DEF parseBootstrapPeers
    <3> HIDE DEF valid
    <3> DEFINE kind   == opt.dht
               hostOf == IF opt.sharedHost THEN "main" ELSE "own"
               start  == IF valid = {} THEN {"default"} ELSE valid
    <3>2. hostOf \in {"main", "own"} /\ start \subseteq {"good", "amino", "default"}
      BY <3>1
    <3>3. \/ node' = node
          \/ /\ kind \in {"standard", "accelerated"}
             /\ node' = [node EXCEPT !.dht = kind, !.dhtHost = hostOf, !.dhtBoot = start]
      BY <1>11 DEF setupDHTRouting, TypeOK, AnyOptions, valid
    <3> HIDE DEF kind, hostOf, start
    <3>4. CASE node' = node
      BY <3>4 DEF TypeOK
    <3>5. CASE /\ kind \in {"standard", "accelerated"}
               /\ node' = [node EXCEPT !.dht = kind, !.dhtHost = hostOf, !.dhtBoot = start]
      BY <3>2, <3>5 DEF TypeOK, Parts
    <3> QED BY <3>3, <3>4, <3>5
  <2> QED BY <1>11, <2>1
          DEF setupDHTRouting, TypeOK, Stages, At, Goto, Fail, options, expanded
<1>12. CASE setupRouting
  <2>1. node' \in Parts
    <3>1. PICK ipns \in BOOLEAN :
            node' = [node EXCEPT !.seedDHT = opt.seedPeering /\ NeedsSeedDHT,
                                 !.valueStore = ValueStore(node.dht, ipns)]
      BY <1>12 DEF setupRouting
    <3> DEFINE light == opt.seedPeering /\ NeedsSeedDHT
    <3>2. light \in BOOLEAN
      OBVIOUS
    <3>3. node' = [node EXCEPT !.seedDHT = light,
                               !.valueStore = ValueStore(node.dht, ipns)]
      BY <3>1
    <3> HIDE DEF light
    <3>4. ValueStore(node.dht, ipns)
            \subseteq {"dht", "auto", "own", "ipni", "amino", "backends"}
      BY ValueStoreType
    <3> QED BY <3>2, <3>3, <3>4 DEF TypeOK, Parts
  <2> QED BY <1>12, <2>1
          DEF setupRouting, TypeOK, Stages, At, Goto, options, expanded
<1>13. CASE setupPeering
  BY <1>13 DEF setupPeering, TypeOK, Stages, At, Goto, Fail, options, expanded,
    Parts
<1>14. CASE SetupBlockService
  <2>1. node' \in Parts
    <3> DEFINE serves == opt.sharedCache /\ peering # {}
               merges == node.dhtHost = "own"
    <3>1. serves \in BOOLEAN /\ merges \in BOOLEAN
      OBVIOUS
    <3>2. \/ UNCHANGED node
          \/ node' = [node EXCEPT !.bsrv = "exchange", !.blockstore = TRUE,
                                  !.server = serves, !.merging = merges]
          \/ node' = [node EXCEPT !.bsrv = "remote"]
      BY <1>14 DEF SetupBlockService
    <3> HIDE DEF serves, merges
    <3>3. CASE UNCHANGED node
      BY <3>3 DEF TypeOK
    <3>4. CASE node' = [node EXCEPT !.bsrv = "exchange", !.blockstore = TRUE,
                                    !.server = serves, !.merging = merges]
      BY <3>1, <3>4 DEF TypeOK, Parts
    <3>5. CASE node' = [node EXCEPT !.bsrv = "remote"]
      BY <3>5 DEF TypeOK, Parts
    <3> QED BY <3>2, <3>3, <3>4, <3>5
  <2> QED BY <1>14, <2>1
          DEF SetupBlockService, TypeOK, Stages, At, Goto, Fail, options, expanded
<1>15. CASE SetupGatewayBackend
  BY <1>15 DEF SetupGatewayBackend, TypeOK, Stages, At, Goto, Fail, options, expanded,
    Parts
<1>16. CASE UNCHANGED vars
  BY <1>16 DEF vars, TypeOK
<1> QED BY <1>1, <1>2, <1>3, <1>4, <1>5, <1>6, <1>7, <1>8, <1>9, <1>10, <1>11,
           <1>12, <1>13, <1>14, <1>15, <1>16
           DEF Next

-----------------------------------------------------------------------------
(* Before the first part is made *)

LEMMA StillNothing ==
  ASSUME IInv, stage \in Preparing, UNCHANGED node, stage' \in Preparing \cup {"failed"}
  PROVE  PartsInv'
<1>1. node' = NoParts
  BY DEF IInv, PartsInv, PartsComeLater
<1> QED BY <1>1
           DEF NoParts, Preparing, PartsInv, PartsComeLater, OverHost, JustAHost,
               FleetLater, DHTAsAsked, FleetHasDHT, StoreHasRouters, HasSource,
               BackendServes, StartsFromItsPeers, Up

LEMMA InitIInv == Init => IInv
<1> SUFFICES ASSUME Init PROVE IInv
  OBVIOUS
<1>1. TypeOK
  BY InitType
<1>2. ConfigInv
  BY DEF Init, ConfigInv, FlagsHold, SeedGivesKey, RoutersOfType, Building, Expanded
<1>3. PartsInv
  BY DEF Init, NoParts, PartsInv, PartsComeLater, OverHost, JustAHost, FleetLater,
         DHTAsAsked, FleetHasDHT, StoreHasRouters, HasSource, BackendServes,
         StartsFromItsPeers, Up
<1> QED BY <1>1, <1>2, <1>3 DEF IInv

LEMMA ReadFlagsKeeps == IInv /\ ReadFlags => (ConfigInv /\ PartsInv)'
<1> SUFFICES ASSUME IInv, ReadFlags PROVE (ConfigInv /\ PartsInv)'
  OBVIOUS
<1>1. /\ stage = "flags" /\ UNCHANGED <<key, seed, data, boot, routers, resolvers, autos, node>>
      /\ \/ stage' = "failed" /\ opt' = opt
         \/ /\ stage' = "secrets" /\ ~SeedPeeringRefused(opt) /\ opt.backends # "invalid"
            /\ opt' = IF opt.backends # "none" THEN Forced(opt) ELSE opt
  BY DEF ReadFlags, At, Goto, Fail, expanded
<1>2. opt \in AnyOptions
  BY DEF IInv, TypeOK
<1>3. /\ \A f \in {"index", "autoconf", "backends", "seedPeering", "seedFlag"} : opt'[f] = opt[f]
      /\ opt.backends # "none" /\ stage' = "secrets" =>
           ~opt'.libp2p /\ ~opt'.bitswap /\ opt'.dht = "off"
  BY <1>1, <1>2 DEF AnyOptions, Forced
<1>4. FlagsHold'
  BY <1>1, <1>3 DEF FlagsHold, Checked, SeedPeeringRefused
<1>5. SeedGivesKey' /\ Expanded'
  BY <1>1, <1>3 DEF IInv, ConfigInv, SeedGivesKey, Expanded
<1>6. RoutersOfType'
  BY <1>1 DEF IInv, ConfigInv, RoutersOfType, Building
<1>7. PartsInv'
  BY <1>1, StillNothing DEF Preparing
<1> QED BY <1>4, <1>5, <1>6, <1>7 DEF ConfigInv

LEMMA LoadSecretsKeeps == IInv /\ LoadSecrets => (ConfigInv /\ PartsInv)'
<1> SUFFICES ASSUME IInv, LoadSecrets PROVE (ConfigInv /\ PartsInv)'
  OBVIOUS
<1>1. /\ stage = "secrets" /\ stage' \in {"options", "failed"}
      /\ UNCHANGED <<opt, data, boot, routers, resolvers, autos, node>>
  BY DEF LoadSecrets, At, Goto, Fail, expanded
<1>2. FlagsHold' /\ RoutersOfType' /\ Expanded'
  BY <1>1 DEF IInv, ConfigInv, FlagsHold, RoutersOfType, Building, Expanded
<1>3. SeedGivesKey'
  BY <1>1 DEF LoadSecrets, IInv, ConfigInv, SeedGivesKey
<1>4. PartsInv'
  BY <1>1, StillNothing DEF Preparing
<1> QED BY <1>2, <1>3, <1>4 DEF ConfigInv

LEMMA PlainKeep ==
  IInv /\ (ParseOptions \/ StartAutoconf \/ CheckBootstrap) => (ConfigInv /\ PartsInv)'
<1> SUFFICES ASSUME IInv, ParseOptions \/ StartAutoconf \/ CheckBootstrap
             PROVE  (ConfigInv /\ PartsInv)'
  OBVIOUS
<1>1. /\ UNCHANGED <<opt, key, seed, boot, routers, resolvers, autos, node>>
      /\ \/ stage \in {"options", "autoconf"} /\ stage' \in {"autoconf", "bootstrap", "failed"}
         \/ stage = "check" /\ stage' \in {"setup", "failed"} /\ data' = data
  BY DEF ParseOptions, StartAutoconf, CheckBootstrap, At, Goto, Fail, options, expanded
<1>2. ConfigInv'
  BY <1>1
     DEF IInv, ConfigInv, FlagsHold, SeedGivesKey, RoutersOfType, Building, Expanded
<1>3. PartsInv'
  BY <1>1, StillNothing DEF Preparing
<1> QED BY <1>2, <1>3

\* A list that is expanded without autoconf had no placeholder.
LEMMA ExpansionsOf ==
  ASSUME NEW list, NEW got, NEW x \in Expansions(list, got)
  PROVE  /\ "auto" \notin list => x = list
         /\ "auto" \in list /\ data = "config" => x = (list \ {"auto"}) \cup got
BY DEF Expansions

LEMMA BootstrapKeeps == IInv /\ expandAutoBootstrap => (ConfigInv /\ PartsInv)'
<1> SUFFICES ASSUME IInv, expandAutoBootstrap PROVE (ConfigInv /\ PartsInv)'
  OBVIOUS
<1>1. /\ stage = "bootstrap" /\ stage' \in {"routers", "failed"}
      /\ UNCHANGED <<opt, key, seed, data, routers, resolvers, node>>
  BY DEF expandAutoBootstrap, At, Goto, Fail, options
<1>2. FlagsHold' /\ SeedGivesKey'
  BY <1>1 DEF IInv, ConfigInv, FlagsHold, SeedGivesKey
<1>3. RoutersOfType'
  BY <1>1 DEF expandAutoBootstrap, Asked, IInv, ConfigInv, RoutersOfType, Building
<1>4. Expanded'
  <2>1. opt.autoconf = "off" /\ "auto" \notin boot => "auto" \notin boot'
    BY ExpansionsOf DEF expandAutoBootstrap
  <2> QED BY <1>1, <2>1 DEF IInv, ConfigInv, Expanded
<1>5. PartsInv'
  BY <1>1, StillNothing DEF Preparing
<1> QED BY <1>2, <1>3, <1>4, <1>5 DEF ConfigInv

LEMMA RoutersKeep == IInv /\ expandAutoHTTPRouters => (ConfigInv /\ PartsInv)'
<1> SUFFICES ASSUME IInv, expandAutoHTTPRouters PROVE (ConfigInv /\ PartsInv)'
  OBVIOUS
<1>1. /\ stage = "routers" /\ stage' \in {"resolvers", "failed"}
      /\ UNCHANGED <<opt, key, seed, data, boot, resolvers, node>>
  BY DEF expandAutoHTTPRouters, At, Goto, Fail, options
<1>2. FlagsHold' /\ SeedGivesKey'
  BY <1>1 DEF IInv, ConfigInv, FlagsHold, SeedGivesKey
<1> DEFINE amino == IF NativeAmino(opt.dht) THEN {} ELSE {"amino"}
<1>3. PICK list \in Routers :
        /\ autos' = IF "auto" \in list THEN autos \cup {"routers"} ELSE autos
        /\ \/ UNCHANGED routers /\ stage' = "failed"
           \/ /\ ~(opt.autoconf = "off" /\ "auto" \in list)
              /\ routers' \in Expansions(list, {"ipni"} \cup amino)
  BY DEF expandAutoHTTPRouters, Asked, Fail
<1>4. RoutersOfType'
  <2>1. ASSUME stage' = "resolvers", data = "config", "routers" \in autos'
        PROVE  routers' = (list \ {"auto"}) \cup ({"ipni"} \cup amino)
    BY <1>1, <1>3, <2>1, ExpansionsOf DEF IInv, ConfigInv, RoutersOfType
  <2>2. list \subseteq {"auto", "own"}
    BY OptionsAssumption
  <2>3. "amino" \in (list \ {"auto"}) \cup ({"ipni"} \cup amino) <=> opt.dht = "off"
    BY <2>2 DEF NativeAmino
  <2> QED BY <1>1, <2>1, <2>3 DEF RoutersOfType, Building
<1>5. Expanded'
  <2>1. opt.autoconf = "off" /\ "auto" \notin routers => "auto" \notin routers'
    BY <1>3, ExpansionsOf
  <2> QED BY <1>1, <2>1 DEF IInv, ConfigInv, Expanded
<1>6. PartsInv'
  BY <1>1, StillNothing DEF Preparing
<1> QED BY <1>2, <1>4, <1>5, <1>6 DEF ConfigInv

LEMMA ResolversKeep == IInv /\ expandAutoDNSResolvers => (ConfigInv /\ PartsInv)'
<1> SUFFICES ASSUME IInv, expandAutoDNSResolvers PROVE (ConfigInv /\ PartsInv)'
  OBVIOUS
<1>1. /\ stage = "resolvers" /\ stage' \in {"check", "failed"}
      /\ UNCHANGED <<opt, key, seed, data, boot, routers, node>>
  BY DEF expandAutoDNSResolvers, At, Goto, Fail, options
<1>2. FlagsHold' /\ SeedGivesKey'
  BY <1>1 DEF IInv, ConfigInv, FlagsHold, SeedGivesKey
<1>3. PICK n \in 0..2 : \E entries \in [1..n -> Domains \X {"auto", "own"}] :
        ReadsResolvers(n, entries)
  BY DEF expandAutoDNSResolvers, ReadsResolvers
<1>4. PICK entries \in [1..n -> Domains \X {"auto", "own"}] : ReadsResolvers(n, entries)
  BY <1>3
<1>5. RoutersOfType'
  <2>1. "routers" \in autos' => "routers" \in autos
    BY <1>4 DEF ReadsResolvers, Asked
  <2> QED BY <1>1, <2>1 DEF IInv, ConfigInv, RoutersOfType, Building
<1>6. Expanded'
  <2> DEFINE map == Resolvers(entries)
  <2>1. \/ UNCHANGED resolvers
        \/ /\ ~(opt.autoconf = "off" /\ \E d \in DOMAIN map : map[d] = "auto")
           /\ resolvers' = [d \in DOMAIN map |->
                IF map[d] = "auto" /\ opt.autoconf # "off" THEN "ofAutoconf" ELSE map[d]]
    BY <1>4 DEF ReadsResolvers, AutoRefused
  <2> HIDE DEF map
  <2>2. ASSUME opt.autoconf = "off", NEW d \in DOMAIN resolvers' PROVE resolvers'[d] # "auto"
    BY <2>1, <2>2 DEF IInv, ConfigInv, Expanded
  <2> QED BY <1>1, <2>2 DEF IInv, ConfigInv, Expanded
<1>7. PartsInv'
  BY <1>1, StillNothing DEF Preparing
<1> QED BY <1>2, <1>5, <1>6, <1>7 DEF ConfigInv

-----------------------------------------------------------------------------
(* The set-up of the parts *)

LEMMA SetupKeepsConfig ==
  ASSUME IInv, stage \in Building \ {"failed"}, stage' \in Building,
         UNCHANGED <<options, expanded>>
  PROVE  ConfigInv'
BY DEF IInv, ConfigInv, FlagsHold, SeedGivesKey, RoutersOfType, Building, Expanded,
       options, expanded

LEMMA NoLibp2pKeeps == IInv /\ SetupNoLibp2p => (ConfigInv /\ PartsInv)'
<1> SUFFICES ASSUME IInv, SetupNoLibp2p PROVE (ConfigInv /\ PartsInv)'
  OBVIOUS
<1>1. stage = "setup" /\ stage' \in {"handler", "failed"} /\ UNCHANGED <<options, expanded>>
  BY DEF SetupNoLibp2p, At, Goto, Fail
<1>2. ConfigInv'
  BY <1>1, SetupKeepsConfig DEF Building
<1>3. CASE stage' = "failed" /\ UNCHANGED node
  <2>1. PartsInv'
    BY <1>1, <1>3, StillNothing DEF Preparing
  <2> QED BY <1>2, <2>1
<1>4. CASE stage' = "handler"
  <2>1. node = NoParts
    BY <1>1 DEF IInv, PartsInv, PartsComeLater, Preparing
  <2>2. opt \in AnyOptions /\ Checked(opt) /\ ~opt.libp2p
    BY <1>1 DEF SetupNoLibp2p, IInv, TypeOK, ConfigInv, FlagsHold
  <2>3. PICK ipns \in BOOLEAN :
          node' = [node EXCEPT
            !.bsrv = IF opt.backends = "block" THEN "remote" ELSE "none",
            !.valueStore = ValueStore("none", ipns)]
    BY <1>4 DEF SetupNoLibp2p, Fail
  <2>4. /\ node'.dht = "none" /\ ~node'.host /\ node'.peers = {}
        /\ node'.bsrv = IF opt.backends = "block" THEN "remote" ELSE "none"
        /\ node'.valueStore = ValueStore("none", ipns)
    BY <2>1, <2>3 DEF NoParts
  <2>5. opt.backends \in {"block", "car"} /\ opt.dht = "off" /\ opt' = opt
    BY <1>1, <1>4, <2>2
       DEF SetupNoLibp2p, Fail, HasBackends, AnyOptions, Checked, options
  <2>6. "amino" \in node'.valueStore <=> "amino" \in routers'
    BY <1>1, <2>4 DEF ValueStore, expanded
  <2>7. PartsInv'
    BY <1>4, <2>4, <2>5, <2>6
       DEF Preparing, PartsInv, PartsComeLater, OverHost, JustAHost, FleetLater,
           DHTAsAsked, FleetHasDHT, StoreHasRouters, HasSource, BackendServes,
           StartsFromItsPeers, Up
  <2> QED BY <1>2, <2>7
<1> QED BY <1>3, <1>4 DEF SetupNoLibp2p, Goto, Fail

LEMMA WithLibp2pKeeps == IInv /\ SetupWithLibp2p => (ConfigInv /\ PartsInv)'
<1> SUFFICES ASSUME IInv, SetupWithLibp2p PROVE (ConfigInv /\ PartsInv)'
  OBVIOUS
<1>1. /\ stage = "setup" /\ stage' \in {"dht", "failed"} /\ opt.libp2p
      /\ UNCHANGED <<options, expanded>>
  BY DEF SetupWithLibp2p, At, Goto, Fail
<1>2. ConfigInv'
  BY <1>1, SetupKeepsConfig DEF Building
<1>3. node = NoParts
  BY <1>1 DEF IInv, PartsInv, PartsComeLater, Preparing
<1> DEFINE made == stage' = "dht"
<1>4. node' = [NoParts EXCEPT !.host = made]
  BY <1>3 DEF SetupWithLibp2p
<1>5. made \in BOOLEAN /\ (stage' = "dht" => made = TRUE)
  OBVIOUS
<1> HIDE DEF made
<1>6. /\ node'.dht = "none" /\ node'.peers = {} /\ node'.seedDHT = FALSE
      /\ stage' = "dht" => node'.host
  BY <1>4, <1>5 DEF NoParts
<1>7. PartsInv'
  BY <1>1, <1>6
     DEF Preparing, PartsInv, PartsComeLater, OverHost, JustAHost, FleetLater,
         DHTAsAsked, FleetHasDHT, options, StoreHasRouters, HasSource,
         BackendServes, StartsFromItsPeers, Up
<1> QED BY <1>2, <1>7

LEMMA DHTKeeps == IInv /\ setupDHTRouting => (ConfigInv /\ PartsInv)'
<1> SUFFICES ASSUME IInv, setupDHTRouting PROVE (ConfigInv /\ PartsInv)'
  OBVIOUS
<1>1. stage = "dht" /\ stage' \in {"routing", "failed"} /\ UNCHANGED <<options, expanded>>
  BY DEF setupDHTRouting, At, Goto, Fail
<1>2. ConfigInv'
  BY <1>1, SetupKeepsConfig DEF Building
<1>3. node.host /\ node.dht = "none" /\ "fleet" \notin node.peers
  BY <1>1 DEF IInv, PartsInv, OverHost, JustAHost, FleetLater
<1>4. CASE UNCHANGED node /\ (stage' = "routing" => opt.dht = "off")
  BY <1>1, <1>2, <1>3, <1>4
     DEF Preparing, PartsInv, PartsComeLater, OverHost, JustAHost, FleetLater,
         DHTAsAsked, FleetHasDHT, StoreHasRouters, HasSource, BackendServes,
         StartsFromItsPeers, Up, options, IInv
<1>5. CASE stage' = "routing" /\ opt.dht # "off"
  <2> DEFINE valid == parseBootstrapPeers(boot)
             start == IF valid = {} THEN {"default"} ELSE valid
  <2>1. /\ valid = {} => opt.seedPeering
        /\ node' = [node EXCEPT !.dht = opt.dht,
                                !.dhtHost = IF opt.sharedHost THEN "main" ELSE "own",
                                !.dhtBoot = start]
    BY <1>1, <1>5 DEF setupDHTRouting, FallsBack, Fail, Goto
  <2>2. valid = boot \cap {"good", "amino"}
    BY DEF parseBootstrapPeers
  <2>3. boot \subseteq {"auto", "good", "bad", "blank", "amino"}
    BY DEF IInv, TypeOK
  <2>4. /\ start # {} /\ start \subseteq boot \cup {"default"}
        /\ "default" \in start => opt.seedPeering /\ boot \subseteq {"bad", "auto", "blank"}
    BY <2>1, <2>2, <2>3
  <2> HIDE DEF start, valid
  <2>5. node \in Parts
    BY DEF IInv, TypeOK
  <2>6. /\ node'.dht = opt.dht /\ node'.dhtBoot = start
        /\ node'.dhtHost = IF opt.sharedHost THEN "main" ELSE "own"
        /\ node'.host = node.host /\ node'.peers = node.peers
    BY <2>1, <2>5 DEF Parts
  <2>7. opt.dht # "none"
    BY DEF IInv, TypeOK, AnyOptions
  <2>8. PartsInv'
    BY <1>1, <1>3, <1>5, <2>4, <2>6, <2>7
       DEF Preparing, PartsInv, PartsComeLater, OverHost, JustAHost, FleetLater,
           DHTAsAsked, FleetHasDHT, StoreHasRouters, HasSource, BackendServes,
           StartsFromItsPeers, Up, options, expanded, IInv
  <2> QED BY <1>2, <2>8
<1> QED BY <1>1, <1>4, <1>5 DEF setupDHTRouting, Fail, Goto

LEMMA RoutingKeeps == IInv /\ setupRouting => (ConfigInv /\ PartsInv)'
<1> SUFFICES ASSUME IInv, setupRouting PROVE (ConfigInv /\ PartsInv)'
  OBVIOUS
<1>1. stage = "routing" /\ stage' = "peering" /\ UNCHANGED <<options, expanded>>
  BY DEF setupRouting, At, Goto
<1>2. ConfigInv'
  BY <1>1, SetupKeepsConfig DEF Building
<1> DEFINE light == opt.seedPeering /\ NeedsSeedDHT
<1>3. PICK ipns \in BOOLEAN :
        node' = [node EXCEPT !.seedDHT = light, !.valueStore = ValueStore(node.dht, ipns)]
  BY DEF setupRouting
<1>4. opt.seedPeering /\ ~light => node.dht # "none" /\ opt.sharedHost
  BY DEF NeedsSeedDHT
<1>5. light \in BOOLEAN
  OBVIOUS
<1> HIDE DEF light
<1>6. node \in Parts
  BY DEF IInv, TypeOK
<1>7. /\ \A f \in {"host", "dht", "dhtHost", "dhtBoot", "peers"} : node'[f] = node[f]
      /\ node'.seedDHT = light /\ node'.valueStore = ValueStore(node.dht, ipns)
  BY <1>3, <1>6 DEF Parts
<1>8. "amino" \in node'.valueStore <=> "amino" \in routers'
  BY <1>1, <1>7 DEF ValueStore, expanded
<1>9. FleetHasDHT'
  <2>1. opt.seedPeering => FindsBySeed'
    BY <1>4, <1>5, <1>7 DEF FindsBySeed, IInv, PartsInv, DHTAsAsked
  <2>2. "fleet" \notin node.peers
    BY <1>1 DEF IInv, PartsInv, FleetLater
  <2> QED BY <1>1, <1>7, <2>1, <2>2 DEF FleetHasDHT, options
<1>10. PartsInv'
  BY <1>1, <1>7, <1>8, <1>9
     DEF Preparing, PartsInv, PartsComeLater, OverHost, JustAHost, FleetLater,
         DHTAsAsked, StoreHasRouters, HasSource, BackendServes, StartsFromItsPeers,
         Up, options, expanded, IInv
<1> QED BY <1>2, <1>10

LEMMA PeeringKeeps == IInv /\ setupPeering => (ConfigInv /\ PartsInv)'
<1> SUFFICES ASSUME IInv, setupPeering PROVE (ConfigInv /\ PartsInv)'
  OBVIOUS
<1>1. stage = "peering" /\ stage' \in {"blocks", "failed"} /\ UNCHANGED <<options, expanded>>
  BY DEF setupPeering, At, Goto, Fail
<1>2. ConfigInv'
  BY <1>1, SetupKeepsConfig DEF Building
<1>3. PICK who \in SUBSET {"peer", "rainbow-seed", "fleet"} :
        /\ node' = node \/ node' = [node EXCEPT !.peers = who]
        /\ "fleet" \in who => opt.seedPeering /\ opt.index = "set" /\ seed
  <2>1. peering \in SUBSET {"peer", "rainbow-seed", "fleet"} /\ "fleet" \notin peering
    BY DEF IInv, TypeOK
  <2>2. opt.index \in {"unset", "negative", "set"}
    BY DEF IInv, TypeOK, AnyOptions
  <2> QED BY <2>1, <2>2 DEF setupPeering, BadIndex
<1>4. node \in Parts
  BY DEF IInv, TypeOK
<1>5. /\ \A f \in {"host", "dht", "dhtHost", "dhtBoot", "seedDHT", "valueStore"} :
           node'[f] = node[f]
      /\ "fleet" \in node'.peers => "fleet" \in node.peers \cup who
  BY <1>3, <1>4 DEF Parts
<1>6. FleetHasDHT'
  BY <1>1, <1>3, <1>5 DEF IInv, PartsInv, FleetHasDHT, FindsBySeed, options
<1>7. PartsInv'
  BY <1>1, <1>5, <1>6
     DEF Preparing, PartsInv, PartsComeLater, OverHost, JustAHost, FleetLater,
         DHTAsAsked, StoreHasRouters, HasSource, BackendServes, StartsFromItsPeers,
         Up, options, expanded, IInv
<1> QED BY <1>2, <1>7

LEMMA BlockServiceKeeps == IInv /\ SetupBlockService => (ConfigInv /\ PartsInv)'
<1> SUFFICES ASSUME IInv, SetupBlockService PROVE (ConfigInv /\ PartsInv)'
  OBVIOUS
<1>1. stage = "blocks" /\ stage' \in {"handler", "failed"} /\ UNCHANGED <<options, expanded>>
  BY DEF SetupBlockService, At, Goto, Fail
<1>2. ConfigInv'
  BY <1>1, SetupKeepsConfig DEF Building
<1>3. node \in Parts /\ node.host
  BY <1>1 DEF IInv, TypeOK, PartsInv, OverHost
<1>4. /\ \A f \in {"host", "dht", "dhtHost", "dhtBoot", "seedDHT", "peers", "valueStore"} :
           node'[f] = node[f]
      /\ stage' = "handler" =>
           \/ node'.bsrv = "exchange" /\ node'.blockstore
           \/ node'.bsrv = "remote"
  <2> DEFINE serves == opt.sharedCache /\ peering # {}
             merges == node.dhtHost = "own"
  <2>1. \/ UNCHANGED node /\ stage' = "failed"
        \/ node' = [node EXCEPT !.bsrv = "exchange", !.blockstore = TRUE,
                                !.server = serves, !.merging = merges]
        \/ node' = [node EXCEPT !.bsrv = "remote"]
    BY DEF SetupBlockService, Fail
  <2> HIDE DEF serves, merges
  <2> QED BY <1>3, <2>1 DEF Parts
<1>5. PartsInv'
  BY <1>1, <1>3, <1>4
     DEF Preparing, PartsInv, PartsComeLater, OverHost, JustAHost, FleetLater,
         DHTAsAsked, FleetHasDHT, FindsBySeed, StoreHasRouters, HasSource,
         BackendServes, StartsFromItsPeers, Up, options, expanded, IInv
<1> QED BY <1>2, <1>5

LEMMA BackendKeeps == IInv /\ SetupGatewayBackend => (ConfigInv /\ PartsInv)'
<1> SUFFICES ASSUME IInv, SetupGatewayBackend PROVE (ConfigInv /\ PartsInv)'
  OBVIOUS
<1>1. stage = "handler" /\ stage' = "up" /\ UNCHANGED <<options, expanded>>
  BY DEF SetupGatewayBackend, At, Goto
<1>2. ConfigInv'
  BY <1>1, SetupKeepsConfig DEF Building
<1>3. node \in Parts
  BY DEF IInv, TypeOK
<1>4. /\ \A f \in {"host", "dht", "dhtHost", "dhtBoot", "seedDHT", "peers", "valueStore",
                   "bsrv", "blockstore"} : node'[f] = node[f]
      /\ node'.backend = IF opt.backends = "car" THEN "car" ELSE node.bsrv
  BY <1>3 DEF SetupGatewayBackend, Parts
<1>5. PartsInv'
  BY <1>1, <1>4
     DEF Preparing, PartsInv, PartsComeLater, OverHost, JustAHost, FleetLater,
         DHTAsAsked, FleetHasDHT, FindsBySeed, StoreHasRouters, HasSource,
         BackendServes, StartsFromItsPeers, Up, options, expanded, IInv
<1> QED BY <1>2, <1>5

LEMMA NextIInv == IInv /\ [Next]_vars => IInv'
<1> SUFFICES ASSUME IInv, [Next]_vars PROVE IInv'
  OBVIOUS
<1>1. TypeOK'
  BY NextType DEF IInv
<1>2. CASE Next
  BY <1>1, <1>2, ReadFlagsKeeps, LoadSecretsKeeps, PlainKeep, BootstrapKeeps,
     RoutersKeep, ResolversKeep, NoLibp2pKeeps, WithLibp2pKeeps, DHTKeeps,
     RoutingKeeps, PeeringKeeps, BlockServiceKeeps, BackendKeeps
     DEF Next, IInv
<1>3. CASE UNCHANGED vars
  BY <1>3
     DEF vars, IInv, TypeOK, ConfigInv, FlagsHold, SeedGivesKey, RoutersOfType,
         Expanded, PartsInv, PartsComeLater, OverHost, JustAHost, FleetLater,
         DHTAsAsked, FleetHasDHT, FindsBySeed, StoreHasRouters, HasSource,
         BackendServes, StartsFromItsPeers, Up
<1> QED BY <1>2, <1>3

-----------------------------------------------------------------------------
(* The theorems *)

\* Every part of a starting node, every list and every option is of its type.
THEOREM TypeCorrect == Spec => []TypeOK
<1> QED BY InitType, NextType, PTL DEF Spec

LEMMA Invariant == Spec => []IInv
<1> QED BY InitIInv, NextIInv, PTL DEF Spec

\* A node that came up has a backend, and what that backend reads through,
\* whatever the options: SetupNoLibp2p, SetupWithLibp2p and setupGatewayHandler
\* decide on it each for itself.
THEOREM UpHasBackend == Spec => []BackendServes
<1> QED BY Invariant, IInvImplies, PTL

\* Peers that are known by their seed only are kept up by a node that can look
\* them up: whatever DHT there is, one is on the host that dials (setupRouting).
THEOREM SeedPeersAreFound == Spec => []FleetIsFound
<1> QED BY Invariant, IInvImplies, PTL

\* A node that peers with its seed's other indices has itself an identity that
\* they derive.
THEOREM SeedPeersKnowNode == Spec => []FleetKnowsNode
<1> QED BY Invariant, IInvImplies, PTL

\* A DHT starts from the peers it was given; the default ones stand in only for
\* none, and only where main's check does not refuse to start without.
THEOREM DHTHasPeers == Spec => []StartsFromItsPeers
<1> QED BY Invariant, IInvImplies, PTL

\* The Amino DHT is asked in exactly one way by a node that leaves its routers
\* to autoconf: the expansion and the set-up agree on the routing type.
THEOREM AminoInOneWay == Spec => []AminoOnce
<1> QED BY Invariant, IInvImplies, PTL

\* No list keeps a placeholder that nothing expands.
THEOREM PlaceholdersAreGone == Spec => []NoPlaceholder
<1> QED BY Invariant, IInvImplies, PTL

-----------------------------------------------------------------------------
(* How the parts fit together: what SharedCache and Peers start from *)

\* What the parts of a node promise each other.
PartsFit ==
  /\ node.bsrv = "exchange" =>
       /\ node.server <=> opt.sharedCache /\ peering # {}
       /\ node.merging <=> node.dhtHost = "own"
  /\ node.bsrv # "exchange" => ~node.server /\ ~node.merging
  /\ node.server => peering \subseteq node.peers
  /\ node.bsrv = "exchange" \/ node.dht # "none" => node.host
  /\ node.dht # "none" <=> node.dhtHost # "none"

\* Before the block service there is none, and then the configured peers are
\* among those that are kept up.
FitInv ==
  /\ PartsFit
  /\ stage \in {"dht", "routing", "peering", "blocks"} => node.bsrv = "none"
  /\ stage = "blocks" => peering \subseteq node.peers

\* A node without parts fits, whatever is read meanwhile.
LEMMA NothingFits ==
  ASSUME node' = NoParts, stage' \in Preparing \cup {"failed"}
  PROVE  FitInv'
BY DEF FitInv, PartsFit, NoParts, Preparing

LEMMA StepFits == IInv /\ FitInv /\ [Next]_vars => FitInv'
<1> SUFFICES ASSUME IInv, FitInv, [Next]_vars PROVE FitInv'
  OBVIOUS
<1>0. node \in Parts
  BY DEF IInv, TypeOK
<1>1. CASE \/ ReadFlags \/ LoadSecrets \/ ParseOptions \/ StartAutoconf
           \/ expandAutoBootstrap \/ expandAutoHTTPRouters \/ expandAutoDNSResolvers
           \/ CheckBootstrap
  <2>1. UNCHANGED node /\ stage \in Preparing /\ stage' \in Preparing \cup {"failed"}
    BY <1>1 DEF ReadFlags, LoadSecrets, ParseOptions, StartAutoconf,
                expandAutoBootstrap, expandAutoHTTPRouters, expandAutoDNSResolvers,
                CheckBootstrap, At, Goto, Fail, Preparing
  <2> QED BY <2>1, NothingFits DEF IInv, PartsInv, PartsComeLater
<1>2. CASE SetupNoLibp2p
  <2>1. stage = "setup" /\ stage' \in {"handler", "failed"} /\ UNCHANGED options
    BY <1>2 DEF SetupNoLibp2p, At, Goto, Fail
  <2>2. node = NoParts
    BY <2>1 DEF IInv, PartsInv, PartsComeLater, Preparing
  <2> DEFINE service == IF opt.backends = "block" THEN "remote" ELSE "none"
  <2>3. PICK store : \/ node' = node
                     \/ node' = [node EXCEPT !.bsrv = service, !.valueStore = store]
    BY <1>2 DEF SetupNoLibp2p
  <2>4. service \in {"none", "remote"}
    OBVIOUS
  <2> HIDE DEF service
  <2>5. /\ \A f \in {"host", "dht", "dhtHost", "peers", "server", "merging"} : node'[f] = node[f]
        /\ node'.bsrv = node.bsrv \/ node'.bsrv \in {"none", "remote"}
    BY <1>0, <2>3, <2>4 DEF Parts
  <2> QED BY <2>1, <2>2, <2>5 DEF FitInv, PartsFit, NoParts
<1>3. CASE SetupWithLibp2p
  <2>1. stage = "setup" /\ stage' \in {"dht", "failed"} /\ UNCHANGED options
    BY <1>3 DEF SetupWithLibp2p, At, Goto, Fail
  <2>2. node = NoParts
    BY <2>1 DEF IInv, PartsInv, PartsComeLater, Preparing
  <2>3. \A f \in {"dht", "dhtHost", "peers", "server", "merging", "bsrv"} : node'[f] = node[f]
    BY <1>0, <1>3 DEF SetupWithLibp2p, Parts
  <2> QED BY <2>1, <2>2, <2>3 DEF FitInv, PartsFit, NoParts
<1>4. CASE setupDHTRouting
  <2>1. stage = "dht" /\ stage' \in {"routing", "failed"} /\ UNCHANGED options
    BY <1>4 DEF setupDHTRouting, At, Goto, Fail
  <2>2. node.host /\ node.bsrv = "none"
    BY <2>1 DEF IInv, PartsInv, OverHost, FitInv
  <2> DEFINE kind   == opt.dht
             hostOf == IF opt.sharedHost THEN "main" ELSE "own"
             start  == IF parseBootstrapPeers(boot) = {} THEN {"default"}
                       ELSE parseBootstrapPeers(boot)
  <2>3. \/ node' = node
        \/ /\ kind \in {"standard", "accelerated"}
           /\ node' = [node EXCEPT !.dht = kind, !.dhtHost = hostOf, !.dhtBoot = start]
    BY <1>4 DEF setupDHTRouting, IInv, TypeOK, AnyOptions
  <2>4. hostOf # "none"
    OBVIOUS
  <2> HIDE DEF kind, hostOf, start
  <2>5. /\ \A f \in {"host", "peers", "server", "merging", "bsrv"} : node'[f] = node[f]
        /\ \/ node'.dht = node.dht /\ node'.dhtHost = node.dhtHost
           \/ node'.dht # "none" /\ node'.dhtHost # "none"
    BY <1>0, <2>3, <2>4 DEF Parts
  <2> QED BY <2>1, <2>2, <2>5 DEF FitInv, PartsFit, options
<1>5. CASE setupRouting
  <2>1. stage = "routing" /\ stage' = "peering" /\ UNCHANGED options
    BY <1>5 DEF setupRouting, At, Goto
  <2>2. PICK light, store : node' = [node EXCEPT !.seedDHT = light, !.valueStore = store]
    BY <1>5 DEF setupRouting
  <2>3. \A f \in {"host", "dht", "dhtHost", "peers", "server", "merging", "bsrv"} :
          node'[f] = node[f]
    BY <1>0, <2>2 DEF Parts
  <2> QED BY <2>1, <2>3 DEF FitInv, PartsFit, options
<1>6. CASE setupPeering
  <2>1. stage = "peering" /\ stage' \in {"blocks", "failed"} /\ UNCHANGED options
    BY <1>6 DEF setupPeering, At, Goto, Fail
  <2>2. PICK who : /\ stage' = "blocks" => peering \subseteq who
                   /\ \/ node' = node /\ stage' = "failed"
                      \/ node' = [node EXCEPT !.peers = who]
    BY <1>6 DEF setupPeering, Goto, Fail
  <2>3. /\ \A f \in {"host", "dht", "dhtHost", "server", "merging", "bsrv"} : node'[f] = node[f]
        /\ stage' = "blocks" => peering \subseteq node'.peers
    BY <1>0, <2>1, <2>2 DEF Parts
  <2>4. node.bsrv = "none"
    BY <2>1 DEF FitInv
  <2> QED BY <2>1, <2>3, <2>4 DEF FitInv, PartsFit, options
<1>7. CASE SetupBlockService
  <2>1. stage = "blocks" /\ stage' \in {"handler", "failed"} /\ UNCHANGED options
    BY <1>7 DEF SetupBlockService, At, Goto, Fail
  <2>2. node.host /\ node.bsrv = "none" /\ peering \subseteq node.peers
    BY <2>1 DEF IInv, PartsInv, OverHost, FitInv
  <2> DEFINE serves == opt.sharedCache /\ peering # {}
             merges == node.dhtHost = "own"
  <2>3. \/ UNCHANGED node
        \/ node' = [node EXCEPT !.bsrv = "exchange", !.blockstore = TRUE,
                                !.server = serves, !.merging = merges]
        \/ node' = [node EXCEPT !.bsrv = "remote"]
    BY <1>7 DEF SetupBlockService
  <2> HIDE DEF serves, merges
  <2>4. /\ \A f \in {"host", "dht", "dhtHost", "peers"} : node'[f] = node[f]
        /\ \/ \A f \in {"server", "merging"} : node'[f] = node[f] /\ node'.bsrv # "exchange"
           \/ node'.bsrv = "exchange" /\ node'.server = serves /\ node'.merging = merges
    BY <1>0, <2>2, <2>3 DEF Parts
  <2>5. CASE \A f \in {"server", "merging"} : node'[f] = node[f] /\ node'.bsrv # "exchange"
    BY <2>1, <2>2, <2>4, <2>5 DEF FitInv, PartsFit, options
  <2>6. CASE node'.bsrv = "exchange" /\ node'.server = serves /\ node'.merging = merges
    BY <2>1, <2>2, <2>4, <2>6 DEF FitInv, PartsFit, options, serves, merges
  <2> QED BY <2>4, <2>5, <2>6
<1>8. CASE SetupGatewayBackend
  <2>1. stage' = "up" /\ UNCHANGED options
    BY <1>8 DEF SetupGatewayBackend, Goto
  <2>2. PICK back : node' = [node EXCEPT !.backend = back]
    BY <1>8 DEF SetupGatewayBackend
  <2>3. \A f \in {"host", "dht", "dhtHost", "peers", "server", "merging", "bsrv"} :
          node'[f] = node[f]
    BY <1>0, <2>2 DEF Parts
  <2> QED BY <2>1, <2>3 DEF FitInv, PartsFit, options
<1>9. CASE UNCHANGED vars
  BY <1>9 DEF vars, FitInv, PartsFit
<1> QED BY <1>1, <1>2, <1>3, <1>4, <1>5, <1>6, <1>7, <1>8, <1>9 DEF Next

\* The parts are set up by steps that decide each for itself, and fit: bitswap
\* and the DHT have a host, bitswap serves exactly if the cache is to be shared
\* and peers are configured, all of whom the peering service keeps up (Serves and
\* Peered of SharedCache), and it dials through the merging host exactly if there
\* is a DHT on a host of its own (split of Peers).
THEOREM PartsFitTogether == Spec => []PartsFit
<1>1. Init => FitInv
  BY NothingFits DEF Init, FitInv, PartsFit, NoParts
<1>2. FitInv => PartsFit
  BY DEF FitInv
<1> QED BY <1>1, <1>2, StepFits, Invariant, PTL DEF Spec

-----------------------------------------------------------------------------
(* What a fleet of started nodes shares (SharedCache), for any fleet, blocks *)
(* and lists of configured peers                                             *)

\* Peering by seed is mutual: of two instances whose indices are covered each
\* derives the identity of the other, and none its own (derivePeerIDs).
THEOREM SeedPeeringIsMutual ==
  ASSUME NEW n \in Nodes, NEW m \in Nodes,
         Index[n] <= MaxIndex, Index[m] <= MaxIndex
  PROVE  /\ n \in derivePeerIDs(m) <=> n # m
         /\ m \in derivePeerIDs(n) <=> n \in derivePeerIDs(m)
BY FleetAssumption DEF derivePeerIDs

\* Who is told of a want is a peer it is connected to.
LEMMA AnnouncedType ==
  ASSUME NEW p \in Peers, NEW b \in Blocks, NEW t \in Announced(p, b)
  PROVE  t = <<p, t[2], b>> /\ t[2] \in Peers /\ <<p, t[2]>> \in conns
<1>1. PICK q \in Peers : t = <<p, q, b>> /\ <<p, q>> \in conns
  BY DEF Announced
<1> QED BY <1>1

\* The same for everything a peer is waiting for.
LEMMA RetoldType ==
  ASSUME FleetTypeOK, NEW p \in Peers, NEW t \in Retold(p)
  PROVE  /\ t = <<p, t[2], t[3]>> /\ t[2] \in Peers /\ <<p, t[2]>> \in conns
         /\ t[3] \in Blocks /\ t[3] \in wants[p]
<1>1. PICK b \in wants[p] : t \in Announced(p, b)
  BY DEF Retold
<1>2. b \in Blocks
  BY DEF FleetTypeOK
<1>3. t = <<p, t[2], b>> /\ t[2] \in Peers /\ <<p, t[2]>> \in conns
  BY <1>1, <1>2, AnnouncedType
<1>4. t[3] = b
  BY <1>3
<1> QED BY <1>1, <1>2, <1>3, <1>4

LEMMA FleetStepType ==
  ASSUME FleetTypeOK, [FleetNext]_fleetVars
  PROVE  FleetTypeOK'
<1> USE DEF FleetTypeOK
<1>1. ASSUME NEW n \in Nodes, NEW m \in Nodes, Redial(n, m) PROVE FleetTypeOK'
  BY <1>1 DEF Redial, Peers
<1>2. ASSUME NEW n \in Peers, NEW m \in Peers, Drop(n, m) PROVE FleetTypeOK'
  BY <1>2, FleetAssumption DEF Drop
<1>3. ASSUME NEW s \in Strangers, NEW n \in Nodes, Meet(s, n) PROVE FleetTypeOK'
  BY <1>3 DEF Meet, Peers
<1>4. ASSUME NEW p \in Peers, NEW b \in Blocks, Want(p, b) PROVE FleetTypeOK'
  <2>1. Announced(p, b) \subseteq Peers \X Peers \X Blocks
    <3>1. ASSUME NEW t \in Announced(p, b) PROVE t \in Peers \X Peers \X Blocks
      <4>1. t = <<p, t[2], b>> /\ t[2] \in Peers
        BY AnnouncedType
      <4> QED BY <4>1
    <3> QED BY <3>1
  <2> QED BY <1>4, <2>1 DEF Want
<1>5. ASSUME NEW p \in Peers, NEW b \in Blocks, Fetch(p, b) PROVE FleetTypeOK'
  BY <1>5 DEF Fetch, Arrives
<1>6. ASSUME NEW p \in Peers, Rebroadcast(p) PROVE FleetTypeOK'
  <2>1. Retold(p) \subseteq Peers \X Peers \X Blocks
    <3>1. ASSUME NEW t \in Retold(p) PROVE t \in Peers \X Peers \X Blocks
      <4>1. t = <<p, t[2], t[3]>> /\ t[2] \in Peers /\ t[3] \in Blocks
        BY RetoldType
      <4> QED BY <4>1
    <3> QED BY <3>1
  <2> QED BY <1>6, <2>1 DEF Rebroadcast
<1>7. ASSUME NEW t \in told, Receive(t) PROVE FleetTypeOK'
  BY <1>7 DEF Receive, Arrives
<1>8. CASE UNCHANGED fleetVars
  BY <1>8 DEF fleetVars
<1> QED BY <1>1, <1>2, <1>3, <1>4, <1>5, <1>6, <1>7, <1>8 DEF FleetNext

\* No instance waits for a block that it has, and wants are told among peers.
THEOREM FleetTypeCorrect == FleetSpec => []FleetTypeOK
<1>1. FleetInit => FleetTypeOK
  BY FleetAssumption DEF FleetInit, FleetTypeOK
<1> QED BY <1>1, FleetStepType, PTL DEF FleetSpec

\* Only a server's answer adds to what was given away, and the lists are fixed.
LEMMA FleetServes ==
  ASSUME FleetTypeOK, OnlyToSafelisted, [FleetNext]_fleetVars
  PROVE  OnlyToSafelisted'
<1>1. fleet' = fleet
  BY DEF FleetNext, fleetVars, Redial, Drop, Meet, Want, Fetch, Rebroadcast, Receive
<1>2. ASSUME NEW s \in served', s \notin served
      PROVE  s[1] \in Nodes /\ s[2] \in Nodes /\ s[2] \in fleet.peering[s[1]]
  <2>1. PICK t \in told : Receive(t)
    BY <1>2 DEF FleetNext, fleetVars, Redial, Drop, Meet, Want, Fetch, Rebroadcast
  <2>2. s = <<t[2], t[1], t[3]>> /\ Serves(t[2], t[1])
    BY <1>2, <2>1 DEF Receive
  <2>3. fleet.peering \in [Nodes -> SUBSET Nodes]
    BY FleetAssumption DEF FleetTypeOK
  <2> QED BY <2>2, <2>3 DEF Serves
<1> QED BY <1>1, <1>2 DEF OnlyToSafelisted

\* A block leaves an instance, over bitswap, only for one that it was configured
\* to share its cache with (the filter of setupBitswapExchange), whatever
\* connects, breaks, is asked for or arrives.
THEOREM SharesWithItsList == FleetSpec => []OnlyToSafelisted
<1>1. FleetInit => OnlyToSafelisted
  BY DEF FleetInit, OnlyToSafelisted
<1> QED BY <1>1, FleetServes, FleetTypeCorrect, PTL DEF FleetSpec

-----------------------------------------------------------------------------
(***************************************************************************)
(* What a waiting instance can rely on without any fairness.               *)
(*  - A connection serves both ends, whoever dialled it.                   *)
(*  - A want that is on its way is that of a peer which still waits, over  *)
(*    a connection that is still there: none is left behind by an answer,  *)
(*    a fetch or a break, so no server sends a block nobody asks for.      *)
(***************************************************************************)
WiresInv ==
  /\ \A p, q \in Peers : <<p, q>> \in conns => <<q, p>> \in conns /\ p # q
  /\ \A t \in told : <<t[1], t[2]>> \in conns /\ t[3] \in wants[t[1]]

\* A block that is waited for is on its way, from one configured peer that has
\* it, or the next step towards it is there to be taken: the two are not connected
\* and the peering of one of them dials the other, or the want is told again.
AnswerInReach ==
  \A n, m \in Nodes, b \in Blocks :
    b \in wants[n] /\ b \in has[m] /\ Serves(m, n)
      /\ (m \in Peered(n) \/ n \in Peered(m)) =>
      \/ n # m /\ <<n, m>> \notin conns /\ <<m, n>> \notin conns
      \/ <<n, m, b>> \in told
      \/ ~(Retold(n) \subseteq told)

\* Blocks stay, and a want ends with its block and in no other way.
WantsLast ==
  [][\A p \in Peers : /\ has[p] \subseteq has'[p]
                      /\ wants[p] \subseteq wants'[p] \cup has'[p]]_fleetVars

LEMMA WiresStep == FleetTypeOK /\ WiresInv /\ [FleetNext]_fleetVars => WiresInv'
<1> SUFFICES ASSUME FleetTypeOK, WiresInv, [FleetNext]_fleetVars PROVE WiresInv'
  OBVIOUS
<1>1. ASSUME NEW p \in Peers, NEW q \in Peers, p # q,
             conns' = conns \cup {<<p, q>>, <<q, p>>}, UNCHANGED <<wants, told>>
      PROVE  WiresInv'
  BY <1>1 DEF WiresInv
<1>2. ASSUME NEW n \in Nodes, NEW m \in Nodes, Redial(n, m) PROVE WiresInv'
  BY <1>1, <1>2 DEF Redial, Peers
<1>3. ASSUME NEW s \in Strangers, NEW n \in Nodes, Meet(s, n) PROVE WiresInv'
  BY <1>1, <1>3, FleetAssumption DEF Meet, Peers
<1>4. ASSUME NEW n \in Peers, NEW m \in Peers, Drop(n, m) PROVE WiresInv'
  <2>1. /\ conns' = conns \ {<<n, m>>, <<m, n>>} /\ wants' = wants
        /\ told' = {t \in told : {t[1], t[2]} # {n, m}}
    BY <1>4 DEF Drop
  <2>2. ASSUME NEW t \in told' PROVE <<t[1], t[2]>> \in conns' /\ t[3] \in wants'[t[1]]
    <3>1. t \in told /\ {t[1], t[2]} # {n, m}
      BY <2>1
    <3>2. <<t[1], t[2]>> # <<n, m>> /\ <<t[1], t[2]>> # <<m, n>>
      BY <3>1
    <3> QED BY <2>1, <3>1, <3>2 DEF WiresInv
  <2>3. ASSUME NEW p \in Peers, NEW q \in Peers, <<p, q>> \in conns'
        PROVE  <<q, p>> \in conns' /\ p # q
    BY <2>1, <2>3 DEF WiresInv
  <2> QED BY <2>2, <2>3 DEF WiresInv
<1>5. ASSUME NEW p \in Peers, NEW b \in Blocks, Want(p, b) PROVE WiresInv'
  <2>1. /\ wants' = [wants EXCEPT ![p] = @ \cup {b}] /\ conns' = conns
        /\ told' = told \cup Announced(p, b)
    BY <1>5 DEF Want
  <2>2. \A q \in Peers : wants[q] \subseteq wants'[q]
    BY <2>1 DEF FleetTypeOK
  <2>3. b \in wants'[p]
    BY <2>1 DEF FleetTypeOK
  <2>4. ASSUME NEW t \in told' PROVE <<t[1], t[2]>> \in conns' /\ t[3] \in wants'[t[1]]
    <3>1. CASE t \in told
      BY <2>1, <2>2, <3>1 DEF WiresInv, FleetTypeOK
    <3>2. CASE t \in Announced(p, b)
      <4>1. t = <<p, t[2], b>> /\ <<p, t[2]>> \in conns
        BY <3>2, AnnouncedType
      <4>2. t[1] = p /\ t[3] = b
        BY <4>1
      <4> QED BY <2>1, <2>3, <4>1, <4>2
    <3> QED BY <2>1, <3>1, <3>2
  <2> QED BY <2>1, <2>4 DEF WiresInv
<1>6. ASSUME NEW p \in Peers, Rebroadcast(p) PROVE WiresInv'
  <2>1. conns' = conns /\ wants' = wants /\ told' = told \cup Retold(p)
    BY <1>6 DEF Rebroadcast
  <2>2. ASSUME NEW t \in Retold(p) PROVE <<t[1], t[2]>> \in conns /\ t[3] \in wants[t[1]]
    <3>1. /\ t = <<p, t[2], t[3]>> /\ <<p, t[2]>> \in conns
          /\ t[3] \in wants[p]
      BY RetoldType
    <3>2. t[1] = p
      BY <3>1
    <3> QED BY <3>1, <3>2
  <2> QED BY <2>1, <2>2 DEF WiresInv
<1>7. ASSUME NEW p \in Peers, NEW b \in Blocks, Arrives(p, b), conns' = conns,
             told' = {u \in told : u[1] # p \/ u[3] # b}
      PROVE  WiresInv'
  <2>1. wants' = [wants EXCEPT ![p] = @ \ {b}]
    BY <1>7 DEF Arrives
  <2>2. ASSUME NEW u \in told' PROVE <<u[1], u[2]>> \in conns' /\ u[3] \in wants'[u[1]]
    <3>1. u \in told /\ (u[1] # p \/ u[3] # b) /\ u[1] \in Peers
      BY <1>7 DEF FleetTypeOK
    <3>2. <<u[1], u[2]>> \in conns /\ u[3] \in wants[u[1]]
      BY <3>1 DEF WiresInv
    <3>3. u[3] \in wants'[u[1]]
      BY <2>1, <3>1, <3>2 DEF FleetTypeOK
    <3> QED BY <1>7, <3>2, <3>3
  <2> QED BY <1>7, <2>2 DEF WiresInv
<1>8. ASSUME NEW p \in Peers, NEW b \in Blocks, Fetch(p, b) PROVE WiresInv'
  BY <1>7, <1>8 DEF Fetch
<1>9. ASSUME NEW t \in told, Receive(t) PROVE WiresInv'
  <2>1. t[1] \in Peers /\ t[3] \in Blocks
    BY DEF FleetTypeOK
  <2>2. CASE Arrives(t[1], t[3]) /\ told' = {u \in told : u[1] # t[1] \/ u[3] # t[3]}
    BY <1>7, <1>9, <2>1, <2>2 DEF Receive
  <2>3. CASE told' = told \ {t} /\ UNCHANGED wants
    BY <1>9, <2>3 DEF Receive, WiresInv
  <2> QED BY <1>9, <2>2, <2>3 DEF Receive
<1>10. CASE UNCHANGED fleetVars
  BY <1>10 DEF fleetVars, WiresInv
<1> QED BY <1>2, <1>3, <1>4, <1>5, <1>6, <1>8, <1>9, <1>10 DEF FleetNext

LEMMA WiresInvariant == FleetSpec => []WiresInv
<1>1. FleetInit => WiresInv
  BY DEF FleetInit, WiresInv
<1> QED BY <1>1, WiresStep, FleetTypeCorrect, PTL DEF FleetSpec

\* No want is on its way from a peer that no longer waits, or over a connection
\* that is gone: the exchange never makes a server send a block in vain.
THEOREM NoStaleWants ==
  FleetSpec => [](\A t \in told : t[3] \in wants[t[1]] /\ t[3] \notin has[t[1]])
<1>1. FleetTypeOK /\ WiresInv =>
        \A t \in told : t[3] \in wants[t[1]] /\ t[3] \notin has[t[1]]
  <2> SUFFICES ASSUME FleetTypeOK, WiresInv, NEW t \in told
               PROVE  t[3] \in wants[t[1]] /\ t[3] \notin has[t[1]]
    OBVIOUS
  <2>1. t[1] \in Peers /\ t[3] \in wants[t[1]]
    BY DEF FleetTypeOK, WiresInv
  <2> QED BY <2>1 DEF FleetTypeOK
<1> QED BY <1>1, FleetTypeCorrect, WiresInvariant, PTL

\* Between an instance that waits and a sharing peer that has the block there is
\* always a step to take: the part of SafelistedAreAnswered that needs no
\* fairness.  It takes rebroadcasts, since nobody is told when a block arrives,
\* and a peering that only one of the two was configured with is enough.
THEOREM WaitersAreInReach == FleetSpec => []AnswerInReach
<1>1. FleetTypeOK /\ WiresInv => AnswerInReach
  <2> SUFFICES ASSUME FleetTypeOK, WiresInv, NEW n \in Nodes, NEW m \in Nodes,
                      NEW b \in Blocks, b \in wants[n], b \in has[m],
                      Retold(n) \subseteq told, <<n, m, b>> \notin told
               PROVE  n # m /\ <<n, m>> \notin conns /\ <<m, n>> \notin conns
    BY DEF AnswerInReach
  <2>1. n \in Peers /\ m \in Peers
    BY DEF Peers
  <2>2. n # m
    BY <2>1 DEF FleetTypeOK
  <2>3. <<n, m>> \notin conns
    <3>1. <<n, m>> \in conns => <<n, m, b>> \in Announced(n, b)
      BY <2>1 DEF Announced
    <3>2. Announced(n, b) \subseteq Retold(n)
      BY DEF Retold
    <3> QED BY <3>1, <3>2
  <2>4. <<m, n>> \notin conns
    BY <2>1, <2>3 DEF WiresInv
  <2> QED BY <2>2, <2>3, <2>4
<1> QED BY <1>1, FleetTypeCorrect, WiresInvariant, PTL

\* An instance never gives a want up, and never loses a block it fetched: a break
\* of a connection loses messages only.
THEOREM WantsEndWithTheirBlock == FleetSpec => WantsLast
<1>1. ASSUME FleetTypeOK, [FleetNext]_fleetVars, NEW p \in Peers
      PROVE  has[p] \subseteq has'[p] /\ wants[p] \subseteq wants'[p] \cup has'[p]
  <2>1. ASSUME NEW q \in Peers, NEW b \in Blocks, Arrives(q, b)
        PROVE  has[p] \subseteq has'[p] /\ wants[p] \subseteq wants'[p] \cup has'[p]
    BY <1>1, <2>1 DEF Arrives, FleetTypeOK
  <2>2. ASSUME NEW q \in Peers, NEW b \in Blocks, Want(q, b)
        PROVE  has[p] \subseteq has'[p] /\ wants[p] \subseteq wants'[p] \cup has'[p]
    BY <1>1, <2>2 DEF Want, FleetTypeOK
  <2>3. ASSUME NEW t \in told, Receive(t)
        PROVE  has[p] \subseteq has'[p] /\ wants[p] \subseteq wants'[p] \cup has'[p]
    <3>1. t[1] \in Peers /\ t[3] \in Blocks
      BY <1>1 DEF FleetTypeOK
    <3> QED BY <2>1, <2>3, <3>1 DEF Receive
  <2>4. ASSUME NEW q \in Peers, NEW b \in Blocks, Fetch(q, b)
        PROVE  has[p] \subseteq has'[p] /\ wants[p] \subseteq wants'[p] \cup has'[p]
    BY <2>1, <2>4 DEF Fetch
  <2>5. CASE UNCHANGED <<has, wants>>
    BY <2>5
  <2> QED BY <1>1, <2>2, <2>3, <2>4, <2>5
          DEF FleetNext, fleetVars, Redial, Drop, Meet, Rebroadcast
<1>2. FleetTypeOK /\ [FleetNext]_fleetVars =>
        [\A p \in Peers : /\ has[p] \subseteq has'[p]
                          /\ wants[p] \subseteq wants'[p] \cup has'[p]]_fleetVars
  BY <1>1
<1> QED BY <1>2, FleetTypeCorrect, PTL DEF FleetSpec, WantsLast

================================================================================
