------------------------------ MODULE RcMgrProofs ------------------------------
(***************************************************************************)
(* The properties of RcMgr for every machine, budget and default of the    *)
(* library.  There is one step; what is proved is its arithmetic.          *)
(***************************************************************************)
EXTENDS RcMgr, TLAPS

\* Dividing by the size of a megabyte loses less than one (rcmgr.go:59).
LEMMA Megabytes ==
  ASSUME NEW m \in Nat
  PROVE  /\ m \div MB \in Nat
         /\ (m \div MB) * MB <= m /\ m < (m \div MB) * MB + MB
  BY LimitsAssumption, Z3

\* What Build returns is a limit, and the value itself unless that is 0.
LEMMA BuiltIsLimit ==
  ASSUME NEW v \in Nat, NEW l \in Built(v)
  PROVE  l \in Limit /\ (v # 0 => l = v)
  BY LimitsAssumption DEF Built, Limit

\* The limits of a host are what its parts are built from.
LEMMA HostLimits ==
  ASSUME NEW m \in Nat, NEW f \in Nat, NEW conns \in SUBSET Limit, NEW t \in Nat,
         NEW l \in Host(m, f, conns, t)
  PROVE  /\ l \in Limits
         /\ m # 0 => l.memory = m
         /\ f # 0 => l.fd = f
         /\ l.inbound \in conns
         /\ m >= 4 => 4 * l.transientMemory <= m
         /\ f >= 4 => 4 * l.transientFD <= f
         /\ t # 0 => l.transientInbound = t
<1>1. /\ l.memory \in Built(m) /\ l.fd \in Built(f) /\ l.inbound \in conns
      /\ l.transientMemory \in Built(Quarter(m)) /\ l.transientFD \in Built(Quarter(f))
      /\ l.transientInbound \in Built(t)
      /\ l = [memory |-> l.memory, fd |-> l.fd, inbound |-> l.inbound,
              transientMemory |-> l.transientMemory, transientFD |-> l.transientFD,
              transientInbound |-> l.transientInbound]
  BY DEF Host
<1>2. \A n \in Nat : /\ Quarter(n) \in Nat /\ 4 * Quarter(n) <= n
                     /\ n >= 4 => Quarter(n) # 0
  BY DEF Quarter
<1>3. /\ l.memory \in Limit /\ l.fd \in Limit /\ l.inbound \in Limit
      /\ l.transientMemory \in Limit /\ l.transientFD \in Limit
      /\ l.transientInbound \in Limit
  BY <1>1, <1>2, BuiltIsLimit
<1>4. l \in Limits
  BY <1>1, <1>3 DEF Limits
<1>5. /\ m >= 4 => l.transientMemory = Quarter(m)
      /\ f >= 4 => l.transientFD = Quarter(f)
      /\ t # 0 => l.transientInbound = t
      /\ m # 0 => l.memory = m
      /\ f # 0 => l.fd = f
  BY <1>1, <1>2, BuiltIsLimit
<1> QED BY <1>1, <1>2, <1>4, <1>5

\* Raising leaves room for the connection manager and lowers nothing.
LEMMA RaisedEnough ==
  ASSUME NEW hi \in Nat, NEW n \in Limit
  PROVE  Raised(hi, n) \in Limit /\ Raised(hi, n) >= 2 * hi /\ Raised(hi, n) >= n
  BY DEF Raised, Limit

\* The limits of the host bitswap uses, whatever it is given.
LEMMA BitswapLimits ==
  ASSUME machine \in Machines, NEW m \in Nat, NEW f \in Nat, NEW hi \in Nat,
         NEW l \in makeResourceManagerConfig(m, f, hi)
  PROVE  /\ l \in Limits
         /\ m # 0 => l.memory = m
         /\ f # 0 => l.fd = f
         /\ l.inbound >= 2 * hi
         /\ l.inbound * MB + MB > l.memory
         /\ l.memory >= 4 => 4 * l.transientMemory <= l.memory
         /\ (l.fd >= 4 /\ f # 0) => 4 * l.transientFD <= l.fd
         /\ l.memory >= 4 * MB => 4 * l.transientInbound <= l.inbound
<1> DEFINE mm == MemoryOrDefault(m)
           ff == FDOrDefault(f)
           conns == mm \div MB
           raised == {Raised(hi, n) : n \in Built(conns)}
<1>1. /\ mm \in Nat /\ mm # 0 /\ (m # 0 => mm = m)
      /\ ff \in Nat /\ (f # 0 => ff = f)
  BY LimitsAssumption DEF MemoryOrDefault, FDOrDefault
<1>2. l \in Host(mm, ff, raised, Quarter(conns))
  BY DEF makeResourceManagerConfig
<1> HIDE DEF mm, ff
<1>3. conns \in Nat /\ conns * MB <= mm /\ mm < conns * MB + MB
  BY <1>1, Megabytes
<1> HIDE DEF conns
<1>4. /\ raised \in SUBSET Limit
      /\ \A r \in raised : r >= 2 * hi /\ r >= conns
  <2> SUFFICES ASSUME NEW n \in Built(conns)
               PROVE  /\ Raised(hi, n) \in Limit
                      /\ Raised(hi, n) >= 2 * hi /\ Raised(hi, n) >= conns
    OBVIOUS
  <2>1. n \in Limit /\ n >= conns
    BY <1>3, BuiltIsLimit DEF Limit
  <2> QED BY <2>1, <1>3, RaisedEnough DEF Limit
<1> HIDE DEF raised
<1>5. Quarter(conns) \in Nat /\ 4 * Quarter(conns) <= conns
      /\ (conns >= 4 => Quarter(conns) # 0)
  BY <1>3 DEF Quarter
<1>6. /\ l \in Limits /\ l.memory = mm /\ (ff # 0 => l.fd = ff)
      /\ l.inbound \in raised
      /\ mm >= 4 => 4 * l.transientMemory <= mm
      /\ ff >= 4 => 4 * l.transientFD <= ff
      /\ Quarter(conns) # 0 => l.transientInbound = Quarter(conns)
  BY <1>1, <1>2, <1>4, <1>5, HostLimits
<1>7. l.inbound \in Nat /\ l.inbound >= 2 * hi /\ l.inbound >= conns
  BY <1>4, <1>6 DEF Limit
<1>8. l.inbound * MB + MB > l.memory
  <2>1. conns * MB <= l.inbound * MB
    BY <1>3, <1>7, LimitsAssumption, Z3
  <2> QED BY <2>1, <1>1, <1>3, <1>6, <1>7, LimitsAssumption, Z3
<1>9. l.memory >= 4 * MB => conns >= 4
  <2> SUFFICES ASSUME mm >= 4 * MB, conns < 4 PROVE FALSE
    BY <1>3, <1>6
  <2>1. CASE conns = 0 BY <2>1, <1>1, <1>3, LimitsAssumption
  <2>2. CASE conns = 1 BY <2>2, <1>1, <1>3, LimitsAssumption
  <2>3. CASE conns = 2 BY <2>3, <1>1, <1>3, LimitsAssumption
  <2>4. CASE conns = 3 BY <2>4, <1>1, <1>3, LimitsAssumption
  <2> QED BY <1>3, <2>1, <2>2, <2>3, <2>4
<1>10. l.memory >= 4 * MB => 4 * l.transientInbound <= l.inbound
  BY <1>3, <1>5, <1>6, <1>7, <1>9
<1> QED BY <1>1, <1>6, <1>7, <1>8, <1>10

\* Those of the DHT's own host.
LEMMA DHTLimits ==
  ASSUME NEW m \in Limit, NEW f \in Nat,
         NEW l \in makeSeparateDHTClientResourceManagerConfig(m, f)
  PROVE  /\ l \in Limits /\ l.memory = m
         /\ f # 0 => l.fd = f
         /\ l.memory >= 4 => 4 * l.transientMemory <= l.memory
         /\ (l.fd >= 4 /\ f # 0) => 4 * l.transientFD <= l.fd
         /\ 4 * l.transientInbound <= l.inbound
<1>1. Quarter(30) = 7
  BY DEF Quarter
<1>2. {30} \in SUBSET Limit /\ m \in Nat /\ m # 0
  BY DEF Limit
<1>3. l \in Host(m, f, {30}, 7)
  BY <1>1 DEF makeSeparateDHTClientResourceManagerConfig
<1> QED BY <1>2, <1>3, HostLimits

-----------------------------------------------------------------------------
(* The step *)

\* Nothing is limited before the managers are made.
Fresh == ~done => bitswapHost = {} /\ dhtHost = {}

Inv == TypeOK /\ Fresh /\ HostsShareBudget /\ RoomForConnMgr /\ TransientIsQuarter

LEMMA InitInv == Init => Inv
  BY DEF Init, Inv, TypeOK, Fresh, HostsShareBudget, RoomForConnMgr,
         TransientIsQuarter

\* The budget is a budget, and its shares are shares of it.
LEMMA Budget ==
  ASSUME TypeOK
  PROVE  /\ Memory \in Nat /\ Memory # 0 /\ FD \in Nat
         /\ BitswapMemory(Memory) \in Nat /\ BitswapFD(FD) \in Nat
         /\ Memory >= 2 => BitswapMemory(Memory) # 0
         /\ FD >= 2 => BitswapFD(FD) # 0
         /\ Rest(Memory, BitswapMemory(Memory)) \in Limit
         /\ Rest(FD, BitswapFD(FD)) \in Nat
         /\ FD # 0 => Rest(FD, BitswapFD(FD)) # 0
         /\ BitswapMemory(Memory) + Rest(Memory, BitswapMemory(Memory)) = Memory
         /\ BitswapFD(FD) + Rest(FD, BitswapFD(FD)) = FD
<1>1. Memory \in Nat /\ Memory # 0 /\ FD \in Nat
  BY LimitsAssumption DEF TypeOK, Memory, FD, MemoryOrDefault, FDOrDefault
<1> QED BY <1>1 DEF BitswapMemory, BitswapFD, Rest, Limit

LEMMA StepInv ==
  ASSUME Inv, [Next]_vars
  PROVE  Inv'
<1>1. CASE UNCHANGED vars
  BY <1>1 DEF vars, given, Inv, TypeOK, Fresh, HostsShareBudget, RoomForConnMgr,
              TransientIsQuarter, Memory, FD, MemoryOrDefault, FDOrDefault
<1>2. CASE makeResourceMgrs
  <2>1. /\ UNCHANGED given /\ done' /\ bitswapHost = {} /\ dhtHost = {}
        /\ TypeOK /\ machine \in Machines /\ high \in Nat
    BY <1>2, LimitsAssumption DEF makeResourceMgrs, Inv, Fresh, TypeOK
  <2>2. /\ Memory' = Memory /\ FD' = FD /\ high' = high
    BY <2>1 DEF given, Memory, FD, MemoryOrDefault, FDOrDefault
  <2>3. CASE ~separate
    <3>1. PICK b \in makeResourceManagerConfig(Memory, FD, high) :
            bitswapHost' = {b}
      BY <1>2, <2>3 DEF makeResourceMgrs
    <3>2. dhtHost' = {}
      BY <1>2, <2>1, <2>3 DEF makeResourceMgrs
    <3>3. /\ b \in Limits /\ b.inbound >= 2 * high
          /\ b.inbound * MB + MB > b.memory
          /\ b.memory >= 4 => 4 * b.transientMemory <= b.memory
          /\ (b.fd >= 4 /\ FD # 0) => 4 * b.transientFD <= b.fd
          /\ b.memory >= 4 * MB => 4 * b.transientInbound <= b.inbound
      BY <2>1, Budget, BitswapLimits
    <3>4. TypeOK' /\ Fresh'
      BY <2>1, <3>1, <3>2, <3>3 DEF TypeOK, Fresh, given
    <3>5. HostsShareBudget' /\ RoomForConnMgr'
      BY <2>2, <3>1, <3>2, <3>3 DEF HostsShareBudget, RoomForConnMgr
    <3>6. TransientIsQuarter'
      BY <2>2, <3>1, <3>2, <3>3 DEF TransientIsQuarter
    <3> QED BY <3>4, <3>5, <3>6 DEF Inv
  <2>4. CASE separate
    <3> DEFINE m == BitswapMemory(Memory)
               f == BitswapFD(FD)
    <3>1. PICK b \in makeResourceManagerConfig(m, f, high) : bitswapHost' = {b}
      BY <1>2, <2>4 DEF makeResourceMgrs
    <3>2. PICK d \in makeSeparateDHTClientResourceManagerConfig(
                       Rest(Memory, m), Rest(FD, f)) : dhtHost' = {d}
      BY <1>2, <2>4 DEF makeResourceMgrs
    <3>3. /\ m \in Nat /\ f \in Nat /\ FD \in Nat
          /\ Rest(Memory, m) \in Limit /\ Rest(FD, f) \in Nat
          /\ Memory >= 2 => m # 0
          /\ FD >= 2 => f # 0 /\ Rest(FD, f) # 0
          /\ m + Rest(Memory, m) = Memory /\ f + Rest(FD, f) = FD
      BY <2>1, Budget
    <3> HIDE DEF m, f
    <3>4. /\ b \in Limits /\ b.inbound >= 2 * high
          /\ b.inbound * MB + MB > b.memory
          /\ m # 0 => b.memory = m
          /\ f # 0 => b.fd = f
          /\ b.memory >= 4 => 4 * b.transientMemory <= b.memory
          /\ (b.fd >= 4 /\ f # 0) => 4 * b.transientFD <= b.fd
          /\ b.memory >= 4 * MB => 4 * b.transientInbound <= b.inbound
      BY <2>1, <3>1, <3>3, BitswapLimits
    <3>5. /\ d \in Limits /\ d.memory = Rest(Memory, m)
          /\ Rest(FD, f) # 0 => d.fd = Rest(FD, f)
          /\ d.memory >= 4 => 4 * d.transientMemory <= d.memory
          /\ (d.fd >= 4 /\ Rest(FD, f) # 0) => 4 * d.transientFD <= d.fd
          /\ 4 * d.transientInbound <= d.inbound
      BY <3>2, <3>3, DHTLimits
    <3>6. TypeOK' /\ Fresh'
      BY <2>1, <3>1, <3>2, <3>4, <3>5 DEF TypeOK, Fresh, given
    <3>7. HostsShareBudget'
      BY <2>2, <3>1, <3>2, <3>3, <3>4, <3>5 DEF HostsShareBudget
    <3>8. RoomForConnMgr'
      BY <2>2, <3>1, <3>4 DEF RoomForConnMgr
    <3>9. TransientIsQuarter'
      BY <2>2, <3>1, <3>2, <3>3, <3>4, <3>5 DEF TransientIsQuarter
    <3> QED BY <3>6, <3>7, <3>8, <3>9 DEF Inv
  <2> QED BY <2>3, <2>4
<1> QED BY <1>1, <1>2 DEF Next

LEMMA SpecInv == Spec => []Inv
  BY InitInv, StepInv, PTL DEF Spec

\* No limit is ever zero, which the library would take for none at all.
THEOREM LimitsAreSet == Spec => []TypeOK
  BY SpecInv, PTL DEF Inv

\* The shares of the two hosts add up to the budget, for any budget of two.
THEOREM BudgetIsShared == Spec => []HostsShareBudget
  BY SpecInv, PTL DEF Inv

\* The raised inbound limit fits the connection manager and the memory.
THEOREM InboundFits == Spec => []RoomForConnMgr
  BY SpecInv, PTL DEF Inv

\* The transient scope has a quarter of what its host has.
THEOREM TransientFits == Spec => []TransientIsQuarter
  BY SpecInv, PTL DEF Inv

================================================================================
