------------------------------ MODULE PeersProofs ------------------------------
(***************************************************************************)
(* What a purge achieves (Peers), for any peers, purges and kinds of       *)
(* addresses, whatever connects, dials and tells meanwhile.                *)
(***************************************************************************)
EXTENDS Peers, Integers, FiniteSetTheorems, TLAPS

\* What p has open is a connection from before the purge h.
Old(h, p) == p \in connected /\ opened[p] <= before[h][p]

\* The second loop of a purge leaves no old connection behind it.
Closing(h) ==
  /\ \A p \in Peers : before[h][p] <= opened[p]
  /\ purge[h] = "close" /\ ~failed[h] => \A p \in peers[h] \ todo[h] : ~Old(h, p)
  /\ purge[h] = "ok" => \A p \in peers[h] : ~Old(h, p)

\* The first loop leaves nothing known behind it that was not learned anew; of
\* the peer it is at the addresses are still to go.
Forgetting(h) ==
  /\ \A p, q \in cur[h] : p = q
  /\ purge[h] \in {"close", "ok", "failed"} =>
       /\ cur[h] = {}
       /\ \A p \in peers[h] : Unknown(p) \/ p \in relearned[h]
  /\ purge[h] = "remove" =>
       \A p \in peers[h] \ todo[h] :
         \/ p \in relearned[h]
         \/ Unknown(p)
         \/ p \in cur[h] /\ p \notin meta

IInv ==
  /\ TypeOK /\ MergedAreDialable
  /\ \A h \in Purges : Closing(h) /\ Forgetting(h)

LEMMA InitIInv == Init => IInv
<1> SUFFICES ASSUME Init PROVE IInv
  OBVIOUS
<1>1. TypeOK
  <2>1. dhtAddrs \in [Peers -> SUBSET Classes]
    BY DEF Init
  <2> QED BY <2>1, PeersAssumption DEF Init, TypeOK
<1>2. MergedAreDialable
  BY DEF Init, MergedAreDialable
<1>3. ASSUME NEW h \in Purges PROVE Closing(h) /\ Forgetting(h)
  BY DEF Init, Closing, Forgetting
<1> QED BY <1>1, <1>2, <1>3 DEF IInv

LEMMA IInvImplies == IInv => NoConnectionSurvives /\ ForgottenOrRelearned
<1> SUFFICES ASSUME IInv, NEW h \in Purges, purge[h] = "ok", NEW p \in peers[h]
             PROVE  /\ p \in connected => opened[p] > before[h][p]
                    /\ Unknown(p) \/ p \in relearned[h]
  BY DEF NoConnectionSurvives, ForgottenOrRelearned
<1>1. p \in Peers /\ opened[p] \in Nat /\ before[h][p] \in Nat
  BY DEF IInv, TypeOK
<1> QED BY <1>1 DEF IInv, Closing, Forgetting, Old

-----------------------------------------------------------------------------
(* What the purges need of a step that is not theirs *)

\* A step may close connections and open new ones.
LEMMA NetworkKeepsClosing ==
  ASSUME IInv, NEW h \in Purges, UNCHANGED purgeVars,
         opened' \in [Peers -> Nat],
         \A p \in Peers : opened[p] <= opened'[p],
         \A p \in Peers : p \in connected' => p \in connected \/ opened'[p] > opened[p]
  PROVE  Closing(h)'
<1>1. /\ opened \in [Peers -> Nat] /\ before[h] \in [Peers -> Nat]
      /\ peers[h] \subseteq Peers
  BY DEF IInv, TypeOK
<1>2. ASSUME NEW p \in Peers, ~Old(h, p) PROVE ~Old(h, p)'
  BY <1>1, <1>2 DEF Old, purgeVars, IInv, Closing
<1>3. \A p \in Peers : before[h][p] <= opened'[p]
  BY <1>1 DEF IInv, Closing
<1> QED BY <1>1, <1>2, <1>3 DEF IInv, Closing, purgeVars

\* A step may forget, and learn what it owns up to.
LEMMA StoreKeepsForgetting ==
  ASSUME IInv, NEW h \in Purges, UNCHANGED purgeVars,
         relearned[h] \subseteq relearned'[h],
         \A p \in Peers : /\ p \in meta' => p \in meta \cup relearned'[h]
                          /\ addrs'[p] # {} => addrs[p] # {} \/ p \in relearned'[h]
  PROVE  Forgetting(h)'
<1>1. peers[h] \subseteq Peers
  BY DEF IInv, TypeOK
<1>2. ASSUME NEW p \in Peers, Unknown(p) \/ p \in relearned[h]
      PROVE  Unknown(p)' \/ p \in relearned'[h]
  BY <1>2 DEF Unknown
<1> QED BY <1>1, <1>2 DEF IInv, Forgetting, purgeVars

\* Addresses that are added are recorded as learned.
LEMMA AddingIsLearning ==
  ASSUME TypeOK, NEW p \in Peers, NEW new \in SUBSET Classes, AddAddrs(p, new)
  PROVE  /\ addrs' \in [Peers -> SUBSET Classes]
         /\ relearned' \in [Purges -> SUBSET Peers]
         /\ addrs'[p] = addrs[p] \cup new
         /\ \A q \in Peers : q # p => addrs'[q] = addrs[q]
         /\ \A h \in Purges :
              /\ relearned[h] \subseteq relearned'[h]
              /\ \A q \in Peers : addrs'[q] # {} => addrs[q] # {} \/ q \in relearned'[h]
              /\ new # {} => p \in relearned'[h]
  BY DEF AddAddrs, TypeOK

LEMMA NetworkStepIInv ==
  ASSUME IInv, NEW p \in Peers, NetworkStep(p)
  PROVE  IInv'
<1> USE PeersAssumption
<1>0. TypeOK /\ opened \in [Peers -> Nat]
  BY DEF IInv, TypeOK
<1>1. CASE Connect(p)
  <2> DEFINE new == IF split THEN {a \in dhtAddrs[p] : ~isUndialableMergedAddr(a)} ELSE {}
  <2>1. new \in SUBSET Classes /\ new \cap {"empty", "privateIP", "specialDNS"} = {}
    BY <1>0 DEF TypeOK, isUndialableMergedAddr
  <2>2. /\ AddAddrs(p, new) /\ dial' = [dial EXCEPT ![p] = "merged"]
        /\ UNCHANGED <<hostVars, opened, connected, identifying, meta, purgeVars, told>>
    BY <1>1 DEF Connect
  <2> HIDE DEF new
  <2>3. TypeOK'
    BY <1>0, <2>1, <2>2, AddingIsLearning DEF TypeOK, hostVars, purgeVars
  <2>4. MergedAreDialable'
    BY <1>0, <2>1, <2>2, AddingIsLearning DEF IInv, MergedAreDialable
  <2>5. ASSUME NEW h \in Purges PROVE Closing(h)'
    BY <1>0, <2>2, NetworkKeepsClosing
  <2>6. ASSUME NEW h \in Purges PROVE Forgetting(h)'
    BY <1>0, <2>1, <2>2, AddingIsLearning, StoreKeepsForgetting
  <2> QED BY <2>3, <2>4, <2>5, <2>6 DEF IInv
<1>2. CASE HostConnect(p)
  <2>1. PICK given \in SUBSET Classes :
          /\ AddAddrs(p, given) /\ told' = [told EXCEPT ![p] = @ \cup given]
          /\ dial' = [dial EXCEPT ![p] =
                        IF p \in connected \/ addrs[p] \cup given = {} THEN "idle"
                        ELSE "dialing"]
    BY <1>2 DEF HostConnect
  <2>2. UNCHANGED <<hostVars, opened, connected, identifying, meta, purgeVars>>
    BY <1>2 DEF HostConnect
  <2>3. TypeOK'
    BY <1>0, <2>1, <2>2, AddingIsLearning DEF TypeOK, hostVars, purgeVars
  <2>4. MergedAreDialable'
    <3>1. /\ addrs'[p] = addrs[p] \cup given /\ told'[p] = told[p] \cup given
          /\ \A q \in Peers : q # p => addrs'[q] = addrs[q] /\ told'[q] = told[q]
      BY <1>0, <2>1, AddingIsLearning DEF TypeOK
    <3> QED BY <3>1 DEF IInv, MergedAreDialable
  <2>5. ASSUME NEW h \in Purges PROVE Closing(h)'
    BY <1>0, <2>2, NetworkKeepsClosing
  <2>6. ASSUME NEW h \in Purges PROVE Forgetting(h)'
    BY <1>0, <2>1, <2>2, AddingIsLearning, StoreKeepsForgetting
  <2> QED BY <2>3, <2>4, <2>5, <2>6 DEF IInv
<1>3. ASSUME UNCHANGED <<hostVars, storeVars, purgeVars, relearned, told>>,
             dial' \in [Peers -> {"idle", "merged", "dialing"}],
             \/ UNCHANGED <<opened, connected, identifying>>
             \/ opened[p] < MaxOpened /\ p \notin connected /\ Opened(p)
      PROVE  IInv'
  <2>1. /\ opened' \in [Peers -> 0..MaxOpened]
        /\ connected' \in SUBSET Peers /\ identifying' \in SUBSET Peers
        /\ \A q \in Peers : opened[q] <= opened'[q]
        /\ \A q \in Peers : q \in connected' => q \in connected \/ opened'[q] > opened[q]
    <3>1. CASE UNCHANGED <<opened, connected, identifying>>
      BY <1>0, <3>1 DEF TypeOK
    <3>2. CASE opened[p] < MaxOpened /\ p \notin connected /\ Opened(p)
      <4>1. opened[p] \in 0..MaxOpened /\ opened[p] + 1 \in 0..MaxOpened
        BY <1>0, <3>2 DEF TypeOK
      <4> QED BY <1>0, <3>2, <4>1 DEF Opened, TypeOK
    <3> QED BY <1>3, <3>1, <3>2
  <2>2. TypeOK'
    BY <1>0, <1>3, <2>1 DEF TypeOK, hostVars, storeVars, purgeVars
  <2>3. MergedAreDialable'
    BY <1>3 DEF IInv, MergedAreDialable, storeVars
  <2>4. opened' \in [Peers -> Nat]
    BY <2>1
  <2>5. ASSUME NEW h \in Purges PROVE Closing(h)'
    BY <1>3, <2>1, <2>4, NetworkKeepsClosing
  <2>6. ASSUME NEW h \in Purges PROVE Forgetting(h)'
    BY <1>3, StoreKeepsForgetting DEF storeVars
  <2> QED BY <2>2, <2>3, <2>5, <2>6 DEF IInv
<1>4. CASE DialEnds(p)
  BY <1>0, <1>3, <1>4 DEF DialEnds, TypeOK
<1>5. CASE PeerConnects(p)
  BY <1>0, <1>3, <1>5 DEF PeerConnects, TypeOK
<1>6. CASE Identify(p)
  <2>1. PICK new \in (SUBSET Classes) \ {{}} :
          AddAddrs(p, new) /\ told' = [told EXCEPT ![p] = @ \cup new]
    BY <1>6 DEF Identify
  <2>2. /\ identifying' = identifying \ {p} /\ meta' = meta \cup {p}
        /\ UNCHANGED <<hostVars, opened, connected, dial, purgeVars>>
    BY <1>6 DEF Identify
  <2>3. TypeOK'
    BY <1>0, <2>1, <2>2, AddingIsLearning DEF TypeOK, hostVars, purgeVars
  <2>4. MergedAreDialable'
    <3>1. /\ addrs'[p] = addrs[p] \cup new /\ told'[p] = told[p] \cup new
          /\ \A q \in Peers : q # p => addrs'[q] = addrs[q] /\ told'[q] = told[q]
      BY <1>0, <2>1, AddingIsLearning DEF TypeOK
    <3> QED BY <3>1 DEF IInv, MergedAreDialable
  <2>5. ASSUME NEW h \in Purges PROVE Closing(h)'
    BY <1>0, <2>2, NetworkKeepsClosing
  <2>6. ASSUME NEW h \in Purges PROVE Forgetting(h)'
    <3>1. /\ relearned[h] \subseteq relearned'[h] /\ p \in relearned'[h]
          /\ \A q \in Peers : addrs'[q] # {} => addrs[q] # {} \/ q \in relearned'[h]
      BY <1>0, <2>1, AddingIsLearning
    <3>2. \A q \in Peers : q \in meta' => q \in meta \cup relearned'[h]
      BY <2>2, <3>1
    <3> QED BY <2>2, <3>1, <3>2, StoreKeepsForgetting
  <2> QED BY <2>3, <2>4, <2>5, <2>6 DEF IInv
<1>7. CASE Disconnect(p)
  <2>1. /\ connected' = connected \ {p} /\ identifying' \in SUBSET identifying
        /\ UNCHANGED <<hostVars, opened, dial, storeVars, purgeVars, relearned, told>>
    BY <1>7 DEF Disconnect
  <2>2. TypeOK'
    BY <1>0, <2>1 DEF TypeOK, hostVars, storeVars, purgeVars
  <2>3. MergedAreDialable'
    BY <2>1 DEF IInv, MergedAreDialable, storeVars
  <2>4. ASSUME NEW h \in Purges PROVE Closing(h)'
    BY <1>0, <2>1, NetworkKeepsClosing
  <2>5. ASSUME NEW h \in Purges PROVE Forgetting(h)'
    BY <2>1, StoreKeepsForgetting DEF storeVars
  <2> QED BY <2>2, <2>3, <2>4, <2>5 DEF IInv
<1>8. CASE Expire(p)
  <2>1. /\ addrs' = [addrs EXCEPT ![p] = {}] /\ meta' = meta \ {p}
        /\ UNCHANGED <<hostVars, netVars, purgeVars, relearned, told>>
    BY <1>8 DEF Expire
  <2>2. TypeOK'
    BY <1>0, <2>1 DEF TypeOK, hostVars, netVars, purgeVars
  <2>3. MergedAreDialable'
    BY <1>0, <2>1 DEF IInv, MergedAreDialable, TypeOK
  <2>4. ASSUME NEW h \in Purges PROVE Closing(h)'
    BY <1>0, <2>1, NetworkKeepsClosing DEF netVars
  <2>5. ASSUME NEW h \in Purges PROVE Forgetting(h)'
    BY <1>0, <2>1, StoreKeepsForgetting DEF TypeOK
  <2> QED BY <2>2, <2>3, <2>4, <2>5 DEF IInv
<1> QED BY <1>1, <1>2, <1>4, <1>5, <1>6, <1>7, <1>8 DEF NetworkStep

-----------------------------------------------------------------------------
(* What the purges need of each other *)

\* What h keeps to itself is as it was.
Undisturbed(h) ==
  /\ purge'[h] = purge[h] /\ peers'[h] = peers[h] /\ todo'[h] = todo[h]
  /\ cur'[h] = cur[h] /\ failed'[h] = failed[h] /\ before'[h] = before[h]
  /\ relearned'[h] = relearned[h]

\* A purge forgets and closes, for the others as well.
LEMMA OthersAreHelped ==
  ASSUME IInv, NEW h \in Purges, Undisturbed(h),
         opened' = opened, connected' \subseteq connected, meta' \subseteq meta,
         \A p \in Peers : addrs'[p] # {} => addrs[p] # {}
  PROVE  Closing(h)' /\ Forgetting(h)'
<1>1. peers[h] \subseteq Peers
  BY DEF IInv, TypeOK
<1>2. Closing(h)'
  <2>1. \A p : Old(h, p)' => Old(h, p)
    BY DEF Old, Undisturbed
  <2> QED BY <2>1 DEF IInv, Closing, Undisturbed
<1>3. Forgetting(h)'
  <2>1. \A p \in Peers : Unknown(p) => Unknown(p)'
    BY DEF Unknown
  <2> QED BY <1>1, <2>1 DEF IInv, Forgetting, Undisturbed
<1> QED BY <1>2, <1>3

-----------------------------------------------------------------------------
(* The steps of a purge *)

LEMMA BeginsIInv ==
  ASSUME IInv, NEW h \in Purges, purge[h] = "idle", NEW ps \in SUBSET Peers,
         Purge(h, ps), UNCHANGED <<hostVars, netVars, storeVars, told>>
  PROVE  IInv'
<1>0. TypeOK /\ opened \in [Peers -> Nat]
  BY PeersAssumption DEF IInv, TypeOK
<1>1. TypeOK'
  BY <1>0 DEF TypeOK, Purge, hostVars, netVars, storeVars
<1>2. MergedAreDialable'
  BY DEF IInv, MergedAreDialable, storeVars
<1>3. ASSUME NEW g \in Purges, g # h PROVE Closing(g)' /\ Forgetting(g)'
  <2>1. Undisturbed(g)
    BY <1>0, <1>3 DEF Purge, Undisturbed, TypeOK
  <2> QED BY <2>1, OthersAreHelped DEF netVars, storeVars
<1>4. /\ purge'[h] = "remove" /\ peers'[h] = ps /\ todo'[h] = ps
      /\ before'[h] = opened /\ cur'[h] = cur[h] /\ opened' = opened
  BY <1>0 DEF Purge, TypeOK, netVars
<1>5. Closing(h)'
  BY <1>0, <1>4 DEF Closing
<1>6. Forgetting(h)'
  BY <1>4 DEF IInv, Forgetting
<1> QED BY <1>1, <1>2, <1>3, <1>5, <1>6 DEF IInv

LEMMA AnswersIInv ==
  ASSUME IInv, NEW h \in Purges, NEW l \in {"ok", "failed", "refused", "panicked"},
         Answer(h, l), UNCHANGED <<hostVars, netVars, storeVars, told>>,
         l \in {"ok", "failed"} => purge[h] = "close" /\ todo[h] = {},
         l = "ok" => ~failed[h]
  PROVE  IInv'
<1>0. TypeOK
  BY DEF IInv
<1>1. TypeOK'
  BY <1>0 DEF TypeOK, Answer, hostVars, netVars, storeVars
<1>2. MergedAreDialable'
  BY DEF IInv, MergedAreDialable, storeVars
<1>3. ASSUME NEW g \in Purges, g # h PROVE Closing(g)' /\ Forgetting(g)'
  <2>1. Undisturbed(g)
    BY <1>0, <1>3 DEF Answer, Undisturbed, TypeOK
  <2> QED BY <2>1, OthersAreHelped DEF netVars, storeVars
<1>4. purge'[h] = l
  BY <1>0 DEF Answer, TypeOK
<1>5. Closing(h)'
  BY <1>4 DEF IInv, Answer, Closing, Old, netVars
<1>6. Forgetting(h)'
  BY <1>4 DEF IInv, Answer, Forgetting, Unknown, storeVars
<1> QED BY <1>1, <1>2, <1>3, <1>5, <1>6 DEF IInv

LEMMA RemovePeerIInv ==
  ASSUME IInv, NEW h \in Purges, RemovePeer(h)
  PROVE  IInv'
<1>0. TypeOK
  BY DEF IInv
<1>1. PICK p \in todo[h] :
        /\ meta' = meta \ {p}
        /\ cur' = [cur EXCEPT ![h] = {p}]
        /\ todo' = [todo EXCEPT ![h] = @ \ {p}]
  BY DEF RemovePeer
<1>2. /\ purge[h] = "remove" /\ cur[h] = {}
      /\ UNCHANGED <<hostVars, netVars, addrs, purge, peers, failed, before,
                     relearned, told>>
  BY DEF RemovePeer
<1>3. TypeOK'
  BY <1>0, <1>1, <1>2 DEF TypeOK, hostVars, netVars
<1>4. MergedAreDialable'
  BY <1>2 DEF IInv, MergedAreDialable
<1>5. ASSUME NEW g \in Purges, g # h PROVE Closing(g)' /\ Forgetting(g)'
  <2>1. Undisturbed(g)
    BY <1>0, <1>1, <1>2, <1>5 DEF Undisturbed, TypeOK
  <2> QED BY <1>1, <1>2, <2>1, OthersAreHelped DEF netVars
<1>6. Closing(h)'
  BY <1>2 DEF IInv, Closing, Old, netVars
<1>7. Forgetting(h)'
  <2>1. cur'[h] = {p} /\ todo'[h] = todo[h] \ {p} /\ p \notin meta'
    BY <1>0, <1>1 DEF TypeOK
  <2>2. ASSUME NEW q \in peers[h] \ todo'[h]
        PROVE  q \in relearned[h] \/ Unknown(q)' \/ (q \in cur'[h] /\ q \notin meta')
    BY <1>1, <1>2, <2>1, <2>2 DEF IInv, Forgetting, Unknown
  <2>3. purge'[h] = "remove" /\ peers'[h] = peers[h] /\ relearned'[h] = relearned[h]
    BY <1>2
  <2> QED BY <2>1, <2>2, <2>3 DEF Forgetting
<1> QED BY <1>3, <1>4, <1>5, <1>6, <1>7 DEF IInv

LEMMA ClearAddrsIInv ==
  ASSUME IInv, NEW h \in Purges, ClearAddrs(h)
  PROVE  IInv'
<1>0. TypeOK
  BY DEF IInv
<1>1. PICK p \in cur[h] : addrs' = [addrs EXCEPT ![p] = {}]
  BY DEF ClearAddrs
<1>2. /\ cur' = [cur EXCEPT ![h] = {}]
      /\ UNCHANGED <<hostVars, netVars, meta, purge, peers, todo, failed, before,
                     relearned, told>>
  BY DEF ClearAddrs
<1>3. TypeOK'
  BY <1>0, <1>1, <1>2 DEF TypeOK, hostVars, netVars
<1>4. MergedAreDialable'
  BY <1>0, <1>1, <1>2 DEF IInv, MergedAreDialable, TypeOK
<1>5. ASSUME NEW g \in Purges, g # h PROVE Closing(g)' /\ Forgetting(g)'
  <2>1. Undisturbed(g)
    BY <1>0, <1>2, <1>5 DEF Undisturbed, TypeOK
  <2>2. \A q \in Peers : addrs'[q] # {} => addrs[q] # {}
    BY <1>0, <1>1 DEF TypeOK
  <2> QED BY <1>2, <2>1, <2>2, OthersAreHelped DEF netVars
<1>6. Closing(h)'
  BY <1>2 DEF IInv, Closing, Old, netVars
<1>7. Forgetting(h)'
  <2>1. cur'[h] = {} /\ cur[h] \subseteq Peers /\ peers[h] \subseteq Peers
    BY <1>0, <1>2 DEF TypeOK
  <2>2. \A q \in cur[h] : addrs'[q] = {}
    BY <1>0, <1>1 DEF IInv, Forgetting, TypeOK
  <2>3. \A q \in Peers : Unknown(q) => Unknown(q)'
    BY <1>0, <1>1, <1>2 DEF Unknown, TypeOK
  <2>4. \A q \in cur[h] : q \notin meta => Unknown(q)'
    BY <1>2, <2>2 DEF Unknown
  <2> QED BY <1>2, <2>1, <2>3, <2>4 DEF IInv, Forgetting
<1> QED BY <1>3, <1>4, <1>5, <1>6, <1>7 DEF IInv

LEMMA RemovedIInv ==
  ASSUME IInv, NEW h \in Purges, Removed(h)
  PROVE  IInv'
<1>0. TypeOK
  BY DEF IInv
<1>1. /\ purge[h] = "remove" /\ todo[h] = {} /\ cur[h] = {}
      /\ purge' = [purge EXCEPT ![h] = "close"]
      /\ todo' = [todo EXCEPT ![h] = peers[h]]
      /\ UNCHANGED <<hostVars, netVars, storeVars, peers, cur, failed, before,
                     relearned, told>>
  BY DEF Removed, ToClose
<1>2. TypeOK'
  BY <1>0, <1>1 DEF TypeOK, hostVars, netVars, storeVars
<1>3. MergedAreDialable'
  BY <1>1 DEF IInv, MergedAreDialable, storeVars
<1>4. ASSUME NEW g \in Purges, g # h PROVE Closing(g)' /\ Forgetting(g)'
  <2>1. Undisturbed(g)
    BY <1>0, <1>1, <1>4 DEF Undisturbed, TypeOK
  <2> QED BY <1>1, <2>1, OthersAreHelped DEF netVars, storeVars
<1>5. purge'[h] = "close" /\ todo'[h] = peers[h]
  BY <1>0, <1>1 DEF TypeOK
<1>6. Closing(h)'
  BY <1>1, <1>5 DEF IInv, Closing, netVars
<1>7. Forgetting(h)'
  BY <1>1, <1>5 DEF IInv, Forgetting, Unknown, storeVars
<1> QED BY <1>2, <1>3, <1>4, <1>6, <1>7 DEF IInv

LEMMA ClosePeerIInv ==
  ASSUME IInv, NEW h \in Purges, ClosePeer(h)
  PROVE  IInv'
<1>0. TypeOK
  BY DEF IInv
<1>1. PICK p \in todo[h] :
        /\ todo' = [todo EXCEPT ![h] = @ \ {p}]
        /\ \/ connected' = connected \ {p} /\ UNCHANGED failed
           \/ /\ connected' \in {connected, connected \ {p}}
              /\ failed' = [failed EXCEPT ![h] = TRUE]
  BY DEF ClosePeer
<1>2. /\ purge[h] = "close"
      /\ UNCHANGED <<hostVars, opened, identifying, dial, storeVars, purge, peers,
                     cur, before, relearned, told>>
  BY DEF ClosePeer
<1>3. TypeOK'
  BY <1>0, <1>1, <1>2 DEF TypeOK, hostVars, storeVars
<1>4. MergedAreDialable'
  BY <1>2 DEF IInv, MergedAreDialable, storeVars
<1>5. ASSUME NEW g \in Purges, g # h PROVE Closing(g)' /\ Forgetting(g)'
  <2>1. Undisturbed(g)
    BY <1>0, <1>1, <1>2, <1>5 DEF Undisturbed, TypeOK
  <2>2. connected' \subseteq connected
    BY <1>1
  <2> QED BY <1>2, <2>1, <2>2, OthersAreHelped DEF storeVars
<1>6. Closing(h)'
  <2>1. todo'[h] = todo[h] \ {p}
    BY <1>0, <1>1 DEF TypeOK
  <2>2. ASSUME ~failed'[h], NEW q \in peers[h] \ todo'[h] PROVE ~Old(h, q)'
    <3>1. ~failed[h] /\ connected' = connected \ {p}
      BY <1>0, <1>1, <2>2 DEF TypeOK
    <3> QED BY <1>2, <2>1, <2>2, <3>1 DEF IInv, Closing, Old
  <2> QED BY <1>2, <2>2 DEF IInv, Closing
<1>7. Forgetting(h)'
  BY <1>2 DEF IInv, Forgetting, Unknown, storeVars
<1> QED BY <1>3, <1>4, <1>5, <1>6, <1>7 DEF IInv

LEMMA PurgeStepIInv ==
  ASSUME IInv, NEW h \in Purges, PurgeStep(h)
  PROVE  IInv'
<1>0. TypeOK
  BY DEF IInv
<1>1. CASE purgePeerHandler(h)
  <2>1. /\ purge[h] = "idle"
        /\ UNCHANGED <<hostVars, netVars, storeVars, told>>
    BY <1>1 DEF purgePeerHandler
  <2>2. ASSUME NEW l \in {"refused", "panicked"}, Answer(h, l) PROVE IInv'
    BY <2>1, <2>2, AnswersIInv
  <2>3. ASSUME NEW ps \in SUBSET Peers, Purge(h, ps) PROVE IInv'
    BY <2>1, <2>3, BeginsIInv
  <2> QED BY <1>0, <1>1, <2>2, <2>3 DEF purgePeerHandler, TypeOK
<1>2. CASE Closed(h)
  <2> DEFINE l == IF failed[h] THEN "failed" ELSE "ok"
  <2>1. l \in {"ok", "failed"} /\ (l = "ok" => ~failed[h])
    BY <1>0 DEF TypeOK
  <2>2. /\ purge[h] = "close" /\ todo[h] = {} /\ Answer(h, l)
        /\ UNCHANGED <<hostVars, netVars, storeVars, told>>
    BY <1>2 DEF Closed
  <2> HIDE DEF l
  <2> QED BY <2>1, <2>2, AnswersIInv
<1> QED BY <1>1, <1>2, RemovePeerIInv, ClearAddrsIInv, RemovedIInv, ClosePeerIInv
        DEF PurgeStep

LEMMA StutterIInv == IInv /\ UNCHANGED vars => IInv'
BY DEF IInv, TypeOK, MergedAreDialable, Closing, Forgetting, Old, Unknown, vars,
       hostVars, netVars, storeVars, purgeVars

LEMMA StepIInv == IInv /\ [Next]_vars => IInv'
BY PurgeStepIInv, NetworkStepIInv, StutterIInv DEF Next

LEMMA SpecIInv == Spec => []IInv
BY InitIInv, StepIInv, PTL DEF Spec

-----------------------------------------------------------------------------

(***************************************************************************)
(* Every reachable state has its type.                                     *)
(***************************************************************************)
THEOREM TypeCorrect == Spec => []TypeOK
<1>1. IInv => TypeOK
  BY DEF IInv
<1> QED BY <1>1, SpecIInv, PTL

(***************************************************************************)
(* After a purge that reports success nobody it purged has a connection    *)
(* from before it, whatever connected and was dialled meanwhile.           *)
(***************************************************************************)
THEOREM PurgeCloses == Spec => []NoConnectionSurvives
BY SpecIInv, IInvImplies, PTL

(***************************************************************************)
(* And what is known of the peers it purged was learned since it began.    *)
(***************************************************************************)
THEOREM PurgeForgets == Spec => []ForgottenOrRelearned
BY SpecIInv, IInvImplies, PTL

(***************************************************************************)
(* peerstoreMergingHost brings no address that cannot be dialled.          *)
(***************************************************************************)
THEOREM MergeIsFiltered == Spec => []MergedAreDialable
<1>1. IInv => MergedAreDialable
  BY DEF IInv
<1> QED BY <1>1, SpecIInv, PTL

-----------------------------------------------------------------------------
(***************************************************************************)
(* How much of a purge is left: two steps for each peer of the first loop  *)
(* and one for each of the second, which runs over the same slice.         *)
(***************************************************************************)
Ended == {"ok", "failed", "refused", "panicked"}

PurgeLeft(h) ==
  CASE purge[h] = "idle"   -> 3 * Cardinality(Peers) + 3
    [] purge[h] = "remove" -> 2 * Cardinality(todo[h]) + Cardinality(cur[h])
                                + Cardinality(peers[h]) + 2
    [] purge[h] = "close"  -> Cardinality(todo[h]) + 1
    [] OTHER               -> 0

\* Every step of a purge brings its answer nearer; nothing else changes
\* anything about it: not what connects, not another purge of the same peers.
NearerToItsAnswer ==
  \A h \in Purges :
    IF UNCHANGED <<purge[h], peers[h], todo[h], cur[h]>>
    THEN PurgeLeft(h)' = PurgeLeft(h)
    ELSE PurgeLeft(h)' < PurgeLeft(h)

\* A purge is at a peer in its first loop only.
AtAPeer == \A h \in Purges : cur[h] # {} => purge[h] = "remove"

LEMMA StepAtAPeer == TypeOK /\ AtAPeer /\ [Next]_vars => AtAPeer'
<1> SUFFICES ASSUME TypeOK, AtAPeer, [Next]_vars PROVE AtAPeer'
  OBVIOUS
<1>1. ASSUME NEW g \in Purges, PurgeStep(g) PROVE AtAPeer'
  BY <1>1 DEF TypeOK, AtAPeer, PurgeStep, purgePeerHandler, Answer, Purge, RemovePeer,
              ClearAddrs, Removed, ClosePeer, Closed
<1>2. ASSUME NEW p \in Peers, NetworkStep(p) PROVE AtAPeer'
  BY <1>2 DEF AtAPeer, NetworkStep, Connect, HostConnect, DialEnds, PeerConnects,
              Identify, Disconnect, Expire, purgeVars
<1>3. CASE UNCHANGED vars
  BY <1>3 DEF AtAPeer, vars, purgeVars
<1> QED BY <1>1, <1>2, <1>3 DEF Next

\* Every set of peers is finite and has its number.
LEMMA Counted ==
  ASSUME IsFiniteSet(Peers), NEW S \in SUBSET Peers
  PROVE  /\ IsFiniteSet(S)
         /\ Cardinality(S) \in 0..Cardinality(Peers)
         /\ S # {} => Cardinality(S) > 0
<1>1. IsFiniteSet(S) /\ Cardinality(S) <= Cardinality(Peers)
  BY FS_Subset
<1>2. Cardinality(S) \in Nat /\ Cardinality(Peers) \in Nat
  BY <1>1, FS_CardinalityType
<1>3. S # {} => Cardinality(S) # 0
  BY <1>1, FS_EmptySet
<1> QED BY <1>1, <1>2, <1>3

LEMMA PurgeStepIsNearer ==
  ASSUME IsFiniteSet(Peers), TypeOK, AtAPeer, NEW h \in Purges, PurgeStep(h)
  PROVE  PurgeLeft(h) \in Nat /\ PurgeLeft(h)' < PurgeLeft(h)
<1> DEFINE n == Cardinality(Peers)
           t == Cardinality(todo[h])
           c == Cardinality(cur[h])
           k == Cardinality(peers[h])
<1>0. /\ n \in Nat /\ t \in 0..n /\ c \in 0..n /\ k \in 0..n
      /\ cur[h] # {} => c > 0
      /\ IsFiniteSet(todo[h]) /\ Cardinality({}) = 0
  <2>1. todo[h] \in SUBSET Peers /\ cur[h] \in SUBSET Peers /\ peers[h] \in SUBSET Peers
    BY DEF TypeOK
  <2>2. IsFiniteSet(todo[h]) /\ t \in 0..n
    BY <2>1, Counted
  <2>3. c \in 0..n /\ (cur[h] # {} => c > 0)
    BY <2>1, Counted
  <2>4. k \in 0..n
    BY <2>1, Counted
  <2> QED BY <2>2, <2>3, <2>4, FS_CardinalityType, FS_EmptySet
<1> HIDE DEF n, t, c, k
<1>l. ASSUME purge[h] = "remove" PROVE PurgeLeft(h) = 2 * t + c + k + 2
  BY <1>l DEF PurgeLeft, t, c, k
<1>m. ASSUME purge[h] = "close" PROVE PurgeLeft(h) = t + 1
  BY <1>m DEF PurgeLeft, t
<1>1. CASE purgePeerHandler(h)
  <2>1. purge[h] = "idle" /\ cur[h] = {}
    BY <1>1 DEF purgePeerHandler, AtAPeer
  <2>2. PurgeLeft(h) = 3 * n + 3
    BY <2>1 DEF PurgeLeft, n
  <2>3. ASSUME NEW l \in Ended, Answer(h, l) PROVE PurgeLeft(h)' = 0
    <3>1. purge'[h] = l
      BY <2>3 DEF Answer, TypeOK
    <3> QED BY <3>1 DEF PurgeLeft, Ended
  <2>4. ASSUME NEW ps \in SUBSET Peers, Purge(h, ps) PROVE PurgeLeft(h)' < 3 * n + 3
    <3>1. purge'[h] = "remove" /\ todo'[h] = ps /\ peers'[h] = ps /\ cur'[h] = {}
      BY <2>1, <2>4 DEF Purge, TypeOK
    <3>2. PurgeLeft(h)' = 2 * Cardinality(ps) + 0 + Cardinality(ps) + 2
      BY <1>0, <3>1 DEF PurgeLeft
    <3>3. Cardinality(ps) \in 0..n
      BY Counted DEF n
    <3> QED BY <1>0, <3>2, <3>3
  <2>5. \/ \E l \in Ended : Answer(h, l)
        \/ \E ps \in SUBSET Peers : Purge(h, ps)
    BY <1>1 DEF purgePeerHandler, TypeOK, Ended
  <2> QED BY <1>0, <2>2, <2>3, <2>4, <2>5
<1>2. CASE RemovePeer(h)
  <2>1. PICK p \in todo[h] : /\ todo' = [todo EXCEPT ![h] = @ \ {p}]
                             /\ cur' = [cur EXCEPT ![h] = {p}]
    BY <1>2 DEF RemovePeer
  <2>2. /\ purge[h] = "remove" /\ purge'[h] = "remove" /\ cur[h] = {}
        /\ todo'[h] = todo[h] \ {p} /\ cur'[h] = {p} /\ peers'[h] = peers[h]
    BY <1>2, <2>1 DEF RemovePeer, TypeOK
  <2>3. Cardinality(todo[h] \ {p}) = t - 1 /\ Cardinality({p}) = 1
    BY <1>0, FS_RemoveElement, FS_Singleton DEF t
  <2>4. PurgeLeft(h)' = 2 * (t - 1) + 1 + k + 2
    BY <2>2, <2>3 DEF PurgeLeft, k
  <2>5. PurgeLeft(h) = 2 * t + 0 + k + 2
    BY <1>0, <1>l, <2>2 DEF c
  <2> QED BY <1>0, <2>4, <2>5
<1>3. CASE ClearAddrs(h)
  <2>1. /\ cur[h] # {} /\ cur'[h] = {} /\ purge'[h] = purge[h]
        /\ todo'[h] = todo[h] /\ peers'[h] = peers[h]
    BY <1>3 DEF ClearAddrs, TypeOK
  <2>2. purge[h] = "remove"
    BY <2>1 DEF AtAPeer
  <2>3. PurgeLeft(h)' = 2 * t + 0 + k + 2
    BY <1>0, <2>1, <2>2 DEF PurgeLeft, t, k
  <2> QED BY <1>0, <1>l, <2>1, <2>2, <2>3
<1>4. CASE Removed(h)
  <2>1. /\ purge[h] = "remove" /\ todo[h] = {} /\ cur[h] = {}
        /\ purge'[h] = "close" /\ todo'[h] = peers[h]
    BY <1>4 DEF Removed, ToClose, TypeOK
  <2>2. PurgeLeft(h)' = k + 1
    BY <2>1 DEF PurgeLeft, k
  <2>3. PurgeLeft(h) = 2 * 0 + 0 + k + 2
    BY <1>0, <1>l, <2>1 DEF t, c
  <2> QED BY <1>0, <2>2, <2>3
<1>5. CASE ClosePeer(h)
  <2>1. PICK p \in todo[h] : todo' = [todo EXCEPT ![h] = @ \ {p}]
    BY <1>5 DEF ClosePeer
  <2>2. purge[h] = "close" /\ purge'[h] = "close" /\ todo'[h] = todo[h] \ {p}
    BY <1>5, <2>1 DEF ClosePeer, TypeOK
  <2>3. Cardinality(todo[h] \ {p}) = t - 1
    BY <1>0, FS_RemoveElement DEF t
  <2>4. PurgeLeft(h)' = t
    BY <1>0, <2>2, <2>3 DEF PurgeLeft
  <2> QED BY <1>0, <1>m, <2>2, <2>4
<1>6. CASE Closed(h)
  <2>1. purge[h] = "close" /\ purge'[h] \in {"ok", "failed"}
    BY <1>6 DEF Closed, Answer, TypeOK
  <2>2. PurgeLeft(h)' = 0
    BY <2>1 DEF PurgeLeft
  <2> QED BY <1>0, <1>m, <2>1, <2>2
<1> QED BY <1>1, <1>2, <1>3, <1>4, <1>5, <1>6 DEF PurgeStep

LEMMA StepIsNearer ==
  ASSUME IsFiniteSet(Peers), TypeOK, AtAPeer, [Next]_vars
  PROVE  NearerToItsAnswer
<1> SUFFICES ASSUME NEW h \in Purges
             PROVE  \/ PurgeLeft(h)' < PurgeLeft(h)
                      /\ ~UNCHANGED <<purge[h], peers[h], todo[h], cur[h]>>
                    \/ UNCHANGED <<purge[h], peers[h], todo[h], cur[h]>>
                         /\ PurgeLeft(h)' = PurgeLeft(h)
  BY DEF NearerToItsAnswer
<1>1. UNCHANGED <<purge[h], peers[h], todo[h], cur[h]>> => PurgeLeft(h)' = PurgeLeft(h)
  BY DEF PurgeLeft
<1>2. CASE PurgeStep(h)
  <2>1. PurgeLeft(h) \in Nat /\ PurgeLeft(h)' < PurgeLeft(h)
    BY <1>2, PurgeStepIsNearer
  <2> QED BY <1>1, <2>1
<1>3. ASSUME NEW g \in Purges, g # h, PurgeStep(g)
      PROVE  UNCHANGED <<purge[h], peers[h], todo[h], cur[h]>>
  BY <1>3 DEF TypeOK, PurgeStep, purgePeerHandler, Answer, Purge, RemovePeer, ClearAddrs,
              Removed, ClosePeer, Closed
<1>4. ASSUME NEW p \in Peers, NetworkStep(p)
      PROVE  UNCHANGED <<purge[h], peers[h], todo[h], cur[h]>>
  BY <1>4 DEF NetworkStep, Connect, HostConnect, DialEnds, PeerConnects, Identify,
              Disconnect, Expire, purgeVars
<1>5. ASSUME UNCHANGED vars
      PROVE  UNCHANGED <<purge[h], peers[h], todo[h], cur[h]>>
  BY <1>5 DEF vars, purgeVars
<1> QED BY <1>1, <1>2, <1>3, <1>4, <1>5 DEF Next

\* A purge of any set of peers answers after at most 3 * |Peers| + 3 steps of its
\* own, however many purges run and whatever connects, dials and tells meanwhile:
\* both loops run over the slice taken at the start and never grow.
THEOREM PurgesAreBounded == IsFiniteSet(Peers) /\ Spec => [][NearerToItsAnswer]_vars
<1> SUFFICES ASSUME IsFiniteSet(Peers) PROVE Spec => [][NearerToItsAnswer]_vars
  OBVIOUS
<1>1. Init => AtAPeer
  BY DEF Init, AtAPeer
<1>2. TypeOK /\ AtAPeer /\ [Next]_vars => NearerToItsAnswer
  BY StepIsNearer
<1> QED BY <1>1, <1>2, StepAtAPeer, TypeCorrect, PTL DEF Spec
=============================================================================
