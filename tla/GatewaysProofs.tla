---------------------------- MODULE GatewaysProofs ----------------------------
(***************************************************************************)
(* What the table of gateways promises, for any lists over any hosts.      *)
(***************************************************************************)
EXTENDS Gateways, TLAPS

\* Laying entries over a table keeps what they do not replace.
LEMMA OverType ==
  ASSUME NEW new, NEW old, NEW h \in DOMAIN Over(new, old)
  PROVE  IF h \in DOMAIN new THEN Over(new, old)[h] = new[h]
         ELSE h \in DOMAIN old /\ Over(new, old)[h] = old[h]
  BY DEF Over

LEMMA OverDomain ==
  ASSUME NEW new, NEW old
  PROVE  DOMAIN Over(new, old) = DOMAIN new \cup DOMAIN old
  BY DEF Over

\* From the trustless list on, its hosts are trustless.
TrustlessDone ==
  step \in {"conformance", "dnslink", "done"} =>
    \A h \in cfg["trustless"] :
      (step = "conformance" \/ ~conformance \/ h # example) =>
        h \in DOMAIN table /\ ~table[h].deserialized /\ table[h].noDNSLink

\* An entry allows DNSLink to safelisted hosts only.
SafelistKept == \A h \in DOMAIN table : ~table[h].noDNSLink => Allowed(h)

\* From the subdomain list on, its hosts have subdomains.
SubdomainsDone ==
  step \in {"trustless", "conformance", "dnslink", "done"} =>
    \A h \in cfg["subdomain"] : h \in DOMAIN table /\ table[h].subdomains

IInv == TypeOK /\ TrustlessDone /\ SafelistKept /\ SubdomainsDone

LEMMA InitIInv == Init => IInv
<1> SUFFICES ASSUME Init PROVE IInv
  OBVIOUS
<1> DEFINE blocked == cfg["dnslink"] # {}
           entry == [noDNSLink |-> blocked, inlineDNSLink |-> FALSE,
                     deserialized |-> TRUE, subdomains |-> TRUE]
<1>1. /\ step = "gateway" /\ DOMAIN table = {localhost} /\ table[localhost] = entry
      /\ cfg \in [Lists -> SUBSET Hosts] /\ conformance \in BOOLEAN
  BY DEF Init
<1>2. blocked \in BOOLEAN
  OBVIOUS
<1>3. ~blocked => \A h \in Hosts : Allowed(h)
  BY DEF Allowed
<1> HIDE DEF blocked
<1>4. entry \in Entry /\ entry.noDNSLink = blocked
  BY <1>2 DEF Entry
<1>5. TypeOK
  BY <1>1, <1>4, HostsAssumption DEF TypeOK, Lists
<1>6. SafelistKept
  BY <1>1, <1>3, <1>4, HostsAssumption DEF SafelistKept
<1> QED BY <1>1, <1>5, <1>6 DEF IInv, TrustlessDone, SubdomainsDone

LEMMA IInvImplies == IInv => TrustlessWins /\ OnlySafelistedUseDNSLink /\ SubdomainsStay
  BY DEF IInv, TrustlessDone, SafelistKept, SubdomainsDone, TrustlessWins,
         OnlySafelistedUseDNSLink, SubdomainsStay, Done, UsesDNSLink, Allowed

\* A step of the table is right if the entries it lays over it are.
LEMMA FillKeeps ==
  ASSUME IInv, NEW list, NEW next \in Lists \cup {"conformance", "done"}, NEW new,
         Fill(list, next, new),
         list # "gateway" \/ cfg["gateway"] \subseteq DOMAIN new,
         next # "gateway",
         DOMAIN new \subseteq Hosts,
         \A h \in DOMAIN new : new[h] \in Entry /\ (~new[h].noDNSLink => Allowed(h)),
         \A h \in DOMAIN new \cap cfg["trustless"] :
           \/ ~new[h].deserialized /\ new[h].noDNSLink
           \/ next \in {"subdomain", "trustless"}
           \/ next # "conformance" /\ conformance /\ h = example,
         list = "trustless" => cfg["trustless"] \subseteq DOMAIN new,
         list \notin {"gateway", "subdomain"} =>
           \A h \in DOMAIN new \cap cfg["subdomain"] : new[h].subdomains,
         list = "subdomain" =>
           /\ cfg["subdomain"] \subseteq DOMAIN new
           /\ \A h \in DOMAIN new : new[h].subdomains,
         <<list, next>> \in {<<"gateway", "subdomain">>, <<"subdomain", "trustless">>,
                             <<"trustless", "conformance">>,
                             <<"conformance", "dnslink">>, <<"dnslink", "done">>}
  PROVE  IInv'
<1>1. /\ step = list /\ step' = next /\ table' = Over(new, table)
      /\ cfg' = cfg /\ conformance' = conformance
  BY DEF Fill
<1>2. DOMAIN table' = DOMAIN new \cup DOMAIN table
  BY <1>1, OverDomain
<1>3. \A h \in DOMAIN table' :
        IF h \in DOMAIN new THEN table'[h] = new[h]
        ELSE h \in DOMAIN table /\ table'[h] = table[h]
  BY <1>1, OverType
<1> HIDE DEF Fill
<1>4. TypeOK'
  BY <1>1, <1>2, <1>3 DEF IInv, TypeOK, Lists
<1>5. TrustlessDone'
  BY <1>1, <1>2, <1>3 DEF IInv, TrustlessDone
<1>6. SafelistKept'
  BY <1>1, <1>2, <1>3 DEF IInv, SafelistKept, Allowed
<1>7. SubdomainsDone'
  BY <1>1, <1>2, <1>3 DEF IInv, SubdomainsDone
<1> QED BY <1>4, <1>5, <1>6, <1>7 DEF IInv

\* An entry, and the same without deserialized responses.
LEMMA GatewayEntry ==
  ASSUME NEW a \in BOOLEAN, NEW s \in BOOLEAN
  PROVE  /\ Gateway(a, s) \in Entry
         /\ Gateway(a, s).noDNSLink = a /\ Gateway(a, s).subdomains = s
         /\ [Gateway(a, s) EXCEPT !.deserialized = FALSE] \in Entry
         /\ [Gateway(a, s) EXCEPT !.deserialized = FALSE].noDNSLink = a
         /\ [Gateway(a, s) EXCEPT !.deserialized = FALSE].subdomains = s
         /\ ~[Gateway(a, s) EXCEPT !.deserialized = FALSE].deserialized
  BY DEF Gateway, Entry

LEMMA StepIInv ==
  ASSUME IInv, [Next]_vars
  PROVE  IInv'
<1>1. CASE GatewayDomains
  <2> DEFINE new == [h \in cfg["gateway"] |-> Gateway(NoDNSLink(h), FALSE)]
  <2>1. \A h \in DOMAIN new : new[h] \in Entry /\ (~new[h].noDNSLink => Allowed(h))
    BY DEF Gateway, Entry, NoDNSLink
  <2>2. DOMAIN new = cfg["gateway"] /\ cfg["gateway"] \subseteq Hosts
    BY DEF IInv, TypeOK, Lists
  <2>3. Fill("gateway", "subdomain", new)
    BY <1>1 DEF GatewayDomains
  <2> HIDE DEF new
  <2> QED BY <2>1, <2>2, <2>3, FillKeeps DEF Lists
<1>2. CASE SubdomainGatewayDomains
  <2> DEFINE new == [h \in cfg["subdomain"] |-> Gateway(NoDNSLink(h), TRUE)]
  <2>1. \A h \in DOMAIN new :
          new[h] \in Entry /\ (~new[h].noDNSLink => Allowed(h)) /\ new[h].subdomains
    BY DEF Gateway, Entry, NoDNSLink
  <2>2. DOMAIN new = cfg["subdomain"] /\ cfg["subdomain"] \subseteq Hosts
    BY DEF IInv, TypeOK, Lists
  <2>3. Fill("subdomain", "trustless", new)
    BY <1>2 DEF SubdomainGatewayDomains
  <2> HIDE DEF new
  <2> QED BY <2>1, <2>2, <2>3, FillKeeps DEF Lists
<1>3. CASE TrustlessGatewayDomains
  <2> DEFINE new == [h \in Trustless |->
                      [Gateway(TRUE, h \in cfg["subdomain"])
                         EXCEPT !.deserialized = FALSE]]
  <2>1. \A h \in DOMAIN new :
          /\ new[h] \in Entry /\ new[h].noDNSLink /\ ~new[h].deserialized
          /\ h \in cfg["subdomain"] => new[h].subdomains
    <3> TAKE h \in DOMAIN new
    <3> DEFINE s == h \in cfg["subdomain"]
    <3>1. s \in BOOLEAN /\ TRUE \in BOOLEAN
      OBVIOUS
    <3>2. new[h] = [Gateway(TRUE, s) EXCEPT !.deserialized = FALSE]
      OBVIOUS
    <3>3. s <=> h \in cfg["subdomain"]
      OBVIOUS
    <3> HIDE DEF s, new
    <3> QED BY <3>1, <3>2, <3>3, GatewayEntry
  <2>2. DOMAIN new = cfg["trustless"] /\ cfg["trustless"] \subseteq Hosts
    BY DEF IInv, TypeOK, Lists, Trustless
  <2>3. Fill("trustless", "conformance", new)
    BY <1>3 DEF TrustlessGatewayDomains
  <2> HIDE DEF new
  <2> QED BY <2>1, <2>2, <2>3, FillKeeps DEF Lists
<1>4. CASE ConformanceDomain
  <2> DEFINE new == IF ~conformance THEN [h \in {} |-> table[h]]
                    ELSE [h \in {example, localhost} |->
                            IF h = example THEN Gateway(NoDNSLink(h), TRUE)
                            ELSE [table[h] EXCEPT !.inlineDNSLink = TRUE]]
  <2>1. Fill("conformance", "dnslink", new)
    BY <1>4 DEF ConformanceDomain
  <2>2. step = "conformance"
    BY <2>1 DEF Fill
  <2>3. CASE ~conformance
    <3>1. DOMAIN new = {}
      BY <2>3
    <3> HIDE DEF new
    <3> QED BY <2>1, <3>1, FillKeeps DEF Lists
  <2>4. CASE conformance
    <3>1. /\ DOMAIN new = {example, localhost}
          /\ new[example] = Gateway(NoDNSLink(example), TRUE)
          /\ new[localhost] = [table[localhost] EXCEPT !.inlineDNSLink = TRUE]
      BY <2>4, HostsAssumption
    <3> HIDE DEF new
    <3>2. /\ new[example] \in Entry /\ new[example].subdomains
          /\ ~new[example].noDNSLink => Allowed(example)
      <4>1. NoDNSLink(example) \in BOOLEAN /\ TRUE \in BOOLEAN
        BY DEF NoDNSLink
      <4>2. ~NoDNSLink(example) => Allowed(example)
        BY DEF NoDNSLink
      <4> QED BY <3>1, <4>1, <4>2, GatewayEntry, Zenon
    <3>3. /\ localhost \in DOMAIN table /\ table[localhost] \in Entry
          /\ ~table[localhost].noDNSLink => Allowed(localhost)
      BY DEF IInv, TypeOK, SafelistKept
    <3>4. /\ new[localhost] \in Entry
          /\ new[localhost].noDNSLink = table[localhost].noDNSLink
          /\ new[localhost].deserialized = table[localhost].deserialized
          /\ new[localhost].subdomains = table[localhost].subdomains
      BY <3>1, <3>3 DEF Entry
    <3>5. localhost \in cfg["trustless"] =>
            ~table[localhost].deserialized /\ table[localhost].noDNSLink
      BY <2>2, HostsAssumption DEF IInv, TrustlessDone
    <3>6. localhost \in cfg["subdomain"] => table[localhost].subdomains
      BY <2>2 DEF IInv, SubdomainsDone
    <3>7. \A h \in DOMAIN new : new[h] \in Entry /\ (~new[h].noDNSLink => Allowed(h))
      BY <3>1, <3>2, <3>3, <3>4
    <3>8. \A h \in DOMAIN new \cap cfg["trustless"] :
            h = example \/ (~new[h].deserialized /\ new[h].noDNSLink)
      BY <3>1, <3>4, <3>5
    <3>9. \A h \in DOMAIN new \cap cfg["subdomain"] : new[h].subdomains
      BY <3>1, <3>2, <3>4, <3>6
    <3>10. DOMAIN new \subseteq Hosts
      BY <3>1, HostsAssumption
    <3> QED BY <2>1, <2>4, <3>7, <3>8, <3>9, <3>10, FillKeeps DEF Lists
  <2> QED BY <2>3, <2>4 DEF IInv, TypeOK
<1>5. CASE DNSLinkDomains
  <2> DEFINE new == [h \in NotConfigured |-> Gateway(FALSE, FALSE)]
  <2>1. Fill("dnslink", "done", new) /\ step = "dnslink"
    BY <1>5 DEF DNSLinkDomains, Fill
  <2>2. DOMAIN new = NotConfigured
        /\ NotConfigured \subseteq Hosts /\ NotConfigured \subseteq cfg["dnslink"]
        /\ NotConfigured \cap DOMAIN table = {}
    BY DEF NotConfigured, IInv, TypeOK, Lists
  <2>3. \A h \in DOMAIN new : new[h] \in Entry /\ Allowed(h)
    BY <2>2 DEF Gateway, Entry, Allowed
  <2>4. \A h \in DOMAIN new \cap cfg["trustless"] : conformance /\ h = example
    BY <2>1, <2>2 DEF IInv, TypeOK, TrustlessDone
  <2>5. DOMAIN new \cap cfg["subdomain"] = {}
    BY <2>1, <2>2 DEF IInv, SubdomainsDone
  <2> HIDE DEF new
  <2> QED BY <2>1, <2>2, <2>3, <2>4, <2>5, FillKeeps DEF Lists
<1>6. CASE UNCHANGED vars
  BY <1>6 DEF vars, IInv, TypeOK, TrustlessDone, SafelistKept, SubdomainsDone, Allowed
<1> QED BY <1>1, <1>2, <1>3, <1>4, <1>5, <1>6 DEF Next

LEMMA SpecIInv == Spec => []IInv
  BY InitIInv, StepIInv, PTL DEF Spec

\* The table has its type, and keeps every host of the plain list.
THEOREM TypeCorrect == Spec => []TypeOK
  BY SpecIInv, PTL DEF IInv

\* Whatever other lists a trustless domain is in, it stays trustless.
THEOREM TrustlessIsLast == Spec => []TrustlessWins
  BY SpecIInv, IInvImplies, PTL

\* With a safelist no other host triggers a DNSLink lookup.
THEOREM SafelistHolds == Spec => []OnlySafelistedUseDNSLink
  BY SpecIInv, IInvImplies, PTL

\* Making a subdomain gateway trustless does not take its subdomains away.
THEOREM SubdomainsAreKept == Spec => []SubdomainsStay
  BY SpecIInv, IInvImplies, PTL

================================================================================
