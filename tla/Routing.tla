-------------------------------- MODULE Routing --------------------------------
(***************************************************************************)
(* One lookup of a node with several routers (src/setup_routing.go): the   *)
(* DHT and the HTTP routers side by side, as setupCompositeRouting puts    *)
(* them together.  Every router is asked at once, in a goroutine of its    *)
(* own, and the first of them that has something to say decides.           *)
(*                                                                         *)
(* An HTTP router has a timeout and its errors are ignored; the DHT has    *)
(* none, and its errors are not.  The parallel router itself is external   *)
(* (go-libp2p-routing-helpers): it is modelled as the fields it is given   *)
(* say.  A DHT alone, or no router at all, is the same with fewer of them. *)
(***************************************************************************)
EXTENDS FiniteSets

CONSTANTS
  Http,      (* delegated HTTP routers, the remote value store among them   *)
  DHT        (* the DHT router: no HTTP router                              *)

ASSUME RoutersAssumption == DHT \notin Http

VARIABLES
  routers,   (* the routers of this node                                    *)
  accelerated, (* the DHT is a bundledDHT                                   *)
  ready,     (* fullRT.Ready(): the full client has crawled the network     *)
  client,    (* the client of the DHT that was asked, once it was           *)
  knows,     (* who has the record: HTTP routers, "standard", "full"        *)
  call,      (* what has become of the call to each router                  *)
  late,      (* calls whose timeout has passed                              *)
  result     (* what the caller got                                         *)

vars == <<routers, accelerated, ready, client, knows, call, late, result>>

Clients == {"standard", "full"}

TypeOK ==
  /\ routers \in SUBSET (Http \cup {DHT})
  /\ accelerated \in BOOLEAN /\ ready \in BOOLEAN
  /\ client \in Clients \cup {"none"}
  /\ knows \in SUBSET (Http \cup Clients)
  /\ call \in [routers -> {"waiting", "running", "offers", "errs", "gone"}]
  /\ client = "full" => accelerated
  /\ late \in SUBSET (routers \ {DHT})
  /\ result \in {"none", "value", "notfound", "error", "cancelled"}

Init ==
  /\ routers \in SUBSET (Http \cup {DHT})
  /\ accelerated \in BOOLEAN /\ ready = FALSE
  /\ client = "none" /\ late = {} /\ result = "none"
  /\ knows \in SUBSET (Http \cup Clients)
  /\ call = [r \in routers |-> "waiting"]

-----------------------------------------------------------------------------
(* What each router is given *)

\* Defect: the HTTP routers wait as long as the DHT.
NoTimeout(r) == FALSE
HasTimeout(r) == r # DHT

\* Defect: no router's error is ignored.
NoneIgnored(r) == FALSE
\* Defect: the DHT's error is ignored too.
AllIgnored(r) == TRUE
IgnoreError(r) == r # DHT

\* Defect: the full client is asked whether or not it is ready.
AlwaysFull == "full"
\* bundledDHT.getDHT, or the standard client that is all there is.
getDHT == IF accelerated /\ ready THEN "full" ELSE "standard"

Knows(r) == IF r = DHT THEN client \in knows ELSE r \in knows

Becomes(r, s) == call' = [call EXCEPT ![r] = s]
Ends(res)     == result' = res
asked         == <<routers, accelerated, knows>>

-----------------------------------------------------------------------------
(* The calls *)

Ask(r) ==
  /\ result = "none" /\ call[r] = "waiting"
  /\ Becomes(r, "running")
  /\ client' = IF r = DHT THEN getDHT ELSE client
  /\ UNCHANGED <<asked, ready, late, result>>

\* External: r has the record and offers it, or has none.
Answers(r) ==
  /\ call[r] = "running"
  /\ Becomes(r, IF Knows(r) THEN "offers" ELSE "gone")
  /\ UNCHANGED <<asked, ready, client, late, result>>

\* External: the request fails, or a client has nobody to ask.
Fails(r) ==
  /\ call[r] = "running"
  /\ Becomes(r, IF IgnoreError(r) THEN "gone" ELSE "errs")
  /\ UNCHANGED <<asked, ready, client, late, result>>

\* The timeout of r passes, while it is asked or before its value is taken.
TimesOut(r) ==
  /\ HasTimeout(r)
  /\ call[r] \in {"running", "offers"}
  /\ Becomes(r, "gone")
  /\ late' = late \cup {r}
  /\ UNCHANGED <<asked, ready, client, result>>

\* The caller takes the first value or the first error, whichever it sees.
Take(r) ==
  /\ result = "none"
  /\ \/ call[r] = "offers" /\ Ends("value")
     \/ call[r] = "errs" /\ Ends("error")
  /\ UNCHANGED <<asked, ready, client, call, late>>

\* Every call is over and none left anything.
AllGone ==
  /\ result = "none"
  /\ \A r \in routers : call[r] = "gone"
  /\ Ends("notfound")
  /\ UNCHANGED <<asked, ready, client, call, late>>

\* The context of the caller is done.
Cancel ==
  /\ result = "none"
  /\ Ends("cancelled")
  /\ UNCHANGED <<asked, ready, client, call, late>>

\* External: a crawl of the network ends, or its table has grown too old.
Crawl ==
  /\ accelerated
  /\ ready' = ~ready
  /\ UNCHANGED <<asked, client, call, late, result>>

RouterStep(r) == Ask(r) \/ Answers(r) \/ Fails(r) \/ TimesOut(r) \/ Take(r)

Next == (\E r \in routers : RouterStep(r)) \/ AllGone \/ Cancel \/ Crawl

Spec == Init /\ [][Next]_vars

\* The goroutines run, the caller's among them, and timers fire.  Nothing says
\* that the DHT ever answers, or that the caller gives up.
FairSpec ==
  /\ Spec
  /\ WF_vars(AllGone)
  /\ \A r \in Http \cup {DHT} :
       /\ WF_vars(r \in routers /\ (Ask(r) \/ Take(r)))
       /\ WF_vars(r \in routers /\ TimesOut(r))

-----------------------------------------------------------------------------
(* Properties *)

\* A record is said not to exist only if the DHT did not know it and every HTTP
\* router that knew it failed to say so: its error was ignored or it was late.
NotFoundIsThorough ==
  result = "notfound" =>
    /\ DHT \in routers => client # "none" /\ client \notin knows
    /\ \A r \in routers : call[r] = "gone"

\* The caller sees an error only of the DHT; what goes wrong with HTTP routers,
\* however many, never decides.
OnlyTheDHTFails == result = "error" => DHT \in routers /\ call[DHT] = "errs"

\* Of the two clients of an accelerated DHT the full one is asked only if it
\* was ready at the call; a lookup that has begun stays with its client.
ClientIsReady ==
  [][/\ client = "none" /\ client' = "full" => ready
     /\ client # "none" => client' = client]_vars

\* Without a DHT every lookup ends, whatever its routers do and although its
\* caller never gives up (setupRoutingNoLibp2p).
HttpLookupEnds == DHT \notin routers => <>(result # "none")

================================================================================
