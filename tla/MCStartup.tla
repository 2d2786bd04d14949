------------------------------- MODULE MCStartup -------------------------------
(***************************************************************************)
(* Instances of Startup: every choice of backends, DHT, seed and peering,  *)
(* or every choice that the expansion of placeholders depends on.          *)
(***************************************************************************)
EXTENDS Startup

\* Every command line but those that differ only in what the seed decides.
NetworkOptions ==
  {o \in AnyOptions : /\ o.seedFile = "absent" /\ o.seedFlag = o.seedPeering
                      /\ o.index = IF o.seedPeering THEN "set" ELSE "unset"}

\* Every way to give, or not to give, a seed and an index.
SeedOptions ==
  {o \in AnyOptions : /\ o.backends = "none" /\ o.bitswap /\ ~o.sharedCache
                      /\ o.autoconf = "on" /\ o.dht \in {"off", "standard"}}

AllOptions == NetworkOptions \cup SeedOptions

MCBootstraps == {{}, {"auto"}, {"good", "blank"}, {"bad"}, {"auto", "bad"}}
MCRouters == {{}, {"auto"}, {"own"}, {"auto", "own"}}

================================================================================
