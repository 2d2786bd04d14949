--------------------------------- MODULE RcMgr ---------------------------------
(***************************************************************************)
(* The limits of libp2p's resource managers (src/rcmgr.go): one budget of  *)
(* memory and file descriptors, for one host, or shared between the host   *)
(* bitswap uses and a host of the DHT's own.                               *)
(*                                                                         *)
(* Shares are computed in floating point and truncated; below 2^48 this is *)
(* the integer division written here.  To the library a limit of 0 means   *)
(* `not set': Build puts a default of its own in its place (external).     *)
(***************************************************************************)
EXTENDS Naturals

CONSTANTS
  MB,         (* a megabyte, in the unit of memory                          *)
  Machines,   (* the machines to cover: total memory, limit of descriptors  *)
  MaxMemory,  (* --libp2p-max-memory                                        *)
  MaxFD,      (* --libp2p-max-fd                                            *)
  ConnMgrHi,  (* --libp2p-connmgr-high                                      *)
  Defaults    (* what the library may put in for a limit that is not set    *)

ASSUME LimitsAssumption ==
  /\ MB \in Nat \ {0}
  /\ Machines \subseteq [memory : Nat \ {0, 1}, fds : Nat]
  /\ MaxMemory \subseteq Nat /\ MaxFD \subseteq Nat /\ ConnMgrHi \subseteq Nat
  /\ Defaults \subseteq Nat \ {0}

VARIABLES
  machine, memory, fd, high, separate, (* the parameters                    *)
  done,       (* the managers are made                                      *)
  bitswapHost, dhtHost (* the limits of the two hosts, {} for no limits yet *)

given == <<machine, memory, fd, high, separate>>
vars == <<given, done, bitswapHost, dhtHost>>

Limit == Nat \ {0}
Limits == [memory : Limit, fd : Limit, inbound : Limit,
           transientMemory : Limit, transientFD : Limit, transientInbound : Limit]

TypeOK ==
  /\ machine \in Machines /\ memory \in MaxMemory /\ fd \in MaxFD
  /\ high \in ConnMgrHi /\ separate \in BOOLEAN /\ done \in BOOLEAN
  /\ bitswapHost \in SUBSET Limits /\ dhtHost \in SUBSET Limits

Init ==
  /\ machine \in Machines /\ memory \in MaxMemory /\ fd \in MaxFD
  /\ high \in ConnMgrHi /\ separate \in BOOLEAN
  /\ done = FALSE /\ bitswapHost = {} /\ dhtHost = {}

-----------------------------------------------------------------------------
(* The limits of one host *)

\* 85% of the machine's memory, half of the process's descriptors.
MemoryOrDefault(m) == IF m = 0 THEN (17 * machine.memory) \div 20 ELSE m
FDOrDefault(f)     == IF f = 0 THEN machine.fds \div 2 ELSE f

\* Defect: 0 stays 0 and blocks everything.
BuiltAsGiven(v) == {v}
\* External: PartialLimitConfig.Build.
Built(v) == IF v = 0 THEN Defaults ELSE {v}

\* Defect: the transient scope may take what the system may.
Whole(v) == v
Quarter(v) == v \div 4

\* Defect: the connection manager's high water mark is not doubled.
WithoutMargin(hi, n) ==
  IF n < hi THEN IF hi < 800 THEN 800 ELSE hi ELSE IF n < 800 THEN 800 ELSE n
\* The number of inbound connections is raised to fit the connection manager.
Raised(hi, n) ==
  LET room == IF n < 2 * hi THEN 2 * hi ELSE n
  IN IF room < 800 THEN 800 ELSE room

Host(m, f, inbound, transientInbound) ==
  [memory : Built(m), fd : Built(f), inbound : inbound,
   transientMemory : Built(Quarter(m)), transientFD : Built(Quarter(f)),
   transientInbound : Built(transientInbound)]

\* One inbound connection per megabyte, or the default, raised.
makeResourceManagerConfig(givenMemory, givenFD, hi) ==
  LET m == MemoryOrDefault(givenMemory)
      f == FDOrDefault(givenFD)
      conns == m \div MB
  IN Host(m, f, {Raised(hi, n) : n \in Built(conns)}, Quarter(conns))

makeSeparateDHTClientResourceManagerConfig(m, f) == Host(m, f, {30}, Quarter(30))

-----------------------------------------------------------------------------
(* The budget and its shares *)

Memory == MemoryOrDefault(memory)
FD     == FDOrDefault(fd)

BitswapMemory(m) == (17 * m) \div 20
BitswapFD(f)     == (3 * f) \div 4

\* Defect: the rest is computed as a share as well, and rounded down.
ShareOfRest(whole, share) == (whole * 3) \div 20
Rest(whole, share) == whole - share

makeResourceMgrs ==
  /\ ~done /\ done' = TRUE
  /\ IF ~separate
     THEN /\ \E l \in makeResourceManagerConfig(Memory, FD, high) : bitswapHost' = {l}
          /\ UNCHANGED dhtHost
     ELSE LET m == BitswapMemory(Memory)  f == BitswapFD(FD) IN
          /\ \E l \in makeResourceManagerConfig(m, f, high) : bitswapHost' = {l}
          /\ \E l \in makeSeparateDHTClientResourceManagerConfig(
                        Rest(Memory, m), Rest(FD, f)) : dhtHost' = {l}
  /\ UNCHANGED given

Next == makeResourceMgrs

Spec == Init /\ [][Next]_vars

-----------------------------------------------------------------------------
(* Properties *)

\* The two hosts have exactly the budget between them, whatever was rounded,
\* as long as there are two units to share.
HostsShareBudget ==
  \A b \in bitswapHost, d \in dhtHost :
    /\ Memory >= 2 => b.memory + d.memory = Memory
    /\ FD >= 2 => b.fd + d.fd = FD

\* The inbound limit never gets in the way of the connection manager, which
\* trims only above its high water mark, nor of one connection per megabyte
\* (makeResourceManagerConfig raises it after the defaults are in).
RoomForConnMgr ==
  \A b \in bitswapHost : b.inbound >= 2 * high /\ b.inbound * MB + MB > b.memory

\* rcmgr.go:89 and :202, for hosts that have anything to take a quarter of.
TransientIsQuarter ==
  \A l \in bitswapHost \cup dhtHost :
    /\ l.memory >= 4 => 4 * l.transientMemory <= l.memory
    /\ (l.fd >= 4 /\ FD >= 2) => 4 * l.transientFD <= l.fd
    /\ l.memory >= 4 * MB => 4 * l.transientInbound <= l.inbound

================================================================================
