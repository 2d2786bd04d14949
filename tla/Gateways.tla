------------------------------- MODULE Gateways -------------------------------
(***************************************************************************)
(* The table of hostnames that setupGatewayHandler (src/handlers.go) fills *)
(* from five lists of domains, one list after the other, and what a        *)
(* request for a host gets from it.  A domain may be in several lists: an  *)
(* entry made later replaces the earlier one, or leaves it, list by list.  *)
(*                                                                         *)
(* How a host is looked up is external (boxo's hostname handler): an exact *)
(* entry decides, and a host without one falls back on the general rule.   *)
(***************************************************************************)
EXTENDS FiniteSets

CONSTANTS
  Hosts,      (* names a request may carry, configured or not               *)
  Under,      (* pairs <<h, d>>: the name h ends in "." and the name d      *)
  localhost,
  example     (* example.com, the domain of the conformance tests           *)

ASSUME HostsAssumption ==
  /\ Under \subseteq Hosts \X Hosts
  /\ {localhost, example} \subseteq Hosts /\ localhost # example

VARIABLES
  step,       (* the list that comes next                                   *)
  cfg,        (* the four lists, as sets                                    *)
  conformance,(* GATEWAY_CONFORMANCE_TEST                                   *)
  table       (* publicGateways                                             *)

vars == <<step, cfg, conformance, table>>

Lists == {"gateway", "subdomain", "trustless", "dnslink"}
Entry == [noDNSLink : BOOLEAN, inlineDNSLink : BOOLEAN, deserialized : BOOLEAN,
          subdomains : BOOLEAN]

TypeOK ==
  /\ step \in Lists \cup {"conformance", "done"}
  /\ cfg \in [Lists -> SUBSET Hosts] /\ conformance \in BOOLEAN
  /\ localhost \in DOMAIN table /\ DOMAIN table \subseteq Hosts
  /\ \A h \in DOMAIN table : table[h] \in Entry
  /\ step # "gateway" => cfg["gateway"] \subseteq DOMAIN table

\* isDNSLinkAllowedForDomain
Allowed(h) ==
  \/ cfg["dnslink"] = {}
  \/ \E d \in cfg["dnslink"] : h = d \/ <<h, d>> \in Under

\* Defect: the safelist is for the hosts without an entry.
OnlyByDefault(h) == FALSE
NoDNSLink(h) == ~Allowed(h)

Gateway(noDNSLink, subdomains) ==
  [noDNSLink |-> noDNSLink, inlineDNSLink |-> TRUE, deserialized |-> TRUE,
   subdomains |-> subdomains]

Init ==
  /\ cfg \in [Lists -> SUBSET Hosts]
  /\ conformance \in BOOLEAN
  /\ step = "gateway"
  /\ table = [h \in {localhost} |->
       [noDNSLink |-> cfg["dnslink"] # {}, inlineDNSLink |-> FALSE,
        deserialized |-> TRUE, subdomains |-> TRUE]]

\* The entries of new on top of those of old.
Over(new, old) ==
  [h \in DOMAIN new \cup DOMAIN old |-> IF h \in DOMAIN new THEN new[h] ELSE old[h]]

Fill(list, next, entries) ==
  /\ step = list /\ step' = next
  /\ table' = Over(entries, table)
  /\ UNCHANGED <<cfg, conformance>>

GatewayDomains == Fill("gateway", "subdomain",
  [h \in cfg["gateway"] |-> Gateway(NoDNSLink(h), FALSE)])

SubdomainGatewayDomains == Fill("subdomain", "trustless",
  [h \in cfg["subdomain"] |-> Gateway(NoDNSLink(h), TRUE)])

\* Defect: a host that is also a plain gateway keeps its responses.
KeepsListed == cfg["trustless"] \ cfg["gateway"]
Trustless == cfg["trustless"]

TrustlessGatewayDomains == Fill("trustless", "conformance",
  [h \in Trustless |->
    [Gateway(TRUE, h \in cfg["subdomain"]) EXCEPT !.deserialized = FALSE]])

\* The conformance tests replace the entry of their own domain.
ConformanceDomain == Fill("conformance", "dnslink",
  IF ~conformance THEN [h \in {} |-> table[h]]
  ELSE [h \in {example, localhost} |->
         IF h = example THEN Gateway(NoDNSLink(h), TRUE)
         ELSE [table[h] EXCEPT !.inlineDNSLink = TRUE]])

\* Defect: the entry of a domain that has one is replaced.
Every == cfg["dnslink"]
NotConfigured == cfg["dnslink"] \ DOMAIN table

DNSLinkDomains == Fill("dnslink", "done",
  [h \in NotConfigured |-> Gateway(FALSE, FALSE)])

Next ==
  \/ GatewayDomains \/ SubdomainGatewayDomains \/ TrustlessGatewayDomains
  \/ ConformanceDomain \/ DNSLinkDomains

Spec == Init /\ [][Next]_vars

-----------------------------------------------------------------------------
(* What a request gets *)

\* External: DNSLink is looked up for the host h, by its entry or by the
\* general rule of the handler's configuration.
UsesDNSLink(h) ==
  IF h \in DOMAIN table THEN ~table[h].noDNSLink ELSE cfg["dnslink"] = {}

Done == step = "done"

\* docs/environment-variables.md:150: the trustless list is applied on top of
\* everything else; whatever other lists a domain is in, it serves nothing
\* deserialized and looks up no DNSLink.  (The conformance tests' own domain is
\* the exception, in the test environment only.)
TrustlessWins ==
  Done => \A h \in cfg["trustless"] :
    (conformance => h # example) =>
      ~table[h].deserialized /\ table[h].noDNSLink

\* With a safelist, DNSLink is looked up for no host outside it, whichever
\* lists the host is in, and for hosts in no list at all.
OnlySafelistedUseDNSLink ==
  Done => \A h \in Hosts : UsesDNSLink(h) => Allowed(h)

\* A domain that is a gateway with subdomains stays one, if it is made
\* trustless too: the lists are read in that order.
SubdomainsStay ==
  Done => \A h \in cfg["subdomain"] : table[h].subdomains

================================================================================
