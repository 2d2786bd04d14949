----------------------------- MODULE RoutingProofs -----------------------------
(***************************************************************************)
(* The safety of a lookup (Routing), for any set of HTTP routers.          *)
(***************************************************************************)
EXTENDS Routing, Naturals, TLAPS

\* The DHT's client is chosen when it is asked, not before.
Chosen == client # "none" <=> (DHT \in routers /\ call[DHT] # "waiting")

\* A DHT that is done without a word did not have the record.
DHTHadNone == DHT \in routers /\ call[DHT] = "gone" => client \notin knows

\* Only the DHT's error is kept for the caller.
OnlyTheDHTErrs == \A r \in routers : call[r] = "errs" => r = DHT

\* A result stands for the calls it was made from, which stay as they are.
ResultStands ==
  /\ result = "notfound" => \A r \in routers : call[r] = "gone"
  /\ result = "error" => DHT \in routers /\ call[DHT] = "errs"

IInv == TypeOK /\ Chosen /\ DHTHadNone /\ OnlyTheDHTErrs /\ ResultStands

LEMMA InitIInv == Init => IInv
  BY RoutersAssumption DEF Init, IInv, TypeOK, Chosen, DHTHadNone, OnlyTheDHTErrs,
                           ResultStands, Clients

LEMMA IInvImplies == IInv => NotFoundIsThorough /\ OnlyTheDHTFails
  BY DEF IInv, Chosen, DHTHadNone, ResultStands, NotFoundIsThorough, OnlyTheDHTFails

LEMMA StepIInv ==
  ASSUME IInv, [Next]_vars
  PROVE  IInv'
<1> USE RoutersAssumption
<1>1. ASSUME NEW r \in routers, Ask(r) PROVE IInv'
  <2>1. /\ result = "none" /\ call[r] = "waiting" /\ call' = [call EXCEPT ![r] = "running"]
        /\ client' = IF r = DHT THEN getDHT ELSE client
        /\ UNCHANGED <<routers, accelerated, knows, ready, late, result>>
    BY <1>1 DEF Ask, Becomes, asked
  <2>2. getDHT \in Clients /\ (getDHT = "full" => accelerated)
    BY DEF getDHT, Clients
  <2>3. call' \in [routers -> {"waiting", "running", "offers", "errs", "gone"}]
        /\ call'[r] = "running" /\ \A q \in routers : q # r => call'[q] = call[q]
    BY <1>1, <2>1 DEF IInv, TypeOK
  <2>4. TypeOK'
    BY <2>1, <2>2, <2>3 DEF IInv, TypeOK, Clients
  <2>5. Chosen'
    BY <1>1, <2>1, <2>2, <2>3 DEF IInv, Chosen, Clients
  <2>6. DHTHadNone' /\ OnlyTheDHTErrs' /\ ResultStands'
    BY <1>1, <2>1, <2>3 DEF IInv, DHTHadNone, OnlyTheDHTErrs, ResultStands
  <2> QED BY <2>4, <2>5, <2>6 DEF IInv
<1>2. ASSUME NEW r \in routers, NEW s \in {"offers", "errs", "gone"},
             call[r] \in {"running", "offers"},
             Becomes(r, s),
             s = "errs" => r = DHT,
             r = DHT /\ s = "gone" => client \notin knows,
             late' \in SUBSET (routers \ {DHT}),
             UNCHANGED <<asked, ready, client, result>>
      PROVE  IInv'
  <2>1. /\ UNCHANGED <<routers, accelerated, knows, ready, client, result>>
        /\ call' \in [routers -> {"waiting", "running", "offers", "errs", "gone"}]
        /\ call'[r] = s /\ \A q \in routers : q # r => call'[q] = call[q]
    BY <1>2 DEF IInv, TypeOK, Becomes, asked
  <2>2. TypeOK'
    BY <1>2, <2>1 DEF IInv, TypeOK
  <2>3. Chosen' /\ DHTHadNone' /\ OnlyTheDHTErrs'
    BY <1>2, <2>1 DEF IInv, Chosen, DHTHadNone, OnlyTheDHTErrs
  <2>4. ResultStands'
    BY <1>2, <2>1 DEF IInv, ResultStands
  <2> QED BY <2>2, <2>3, <2>4 DEF IInv
<1>3. ASSUME NEW r \in routers, Answers(r) PROVE IInv'
  <2>1. late' \in SUBSET (routers \ {DHT})
    BY <1>3 DEF Answers, IInv, TypeOK
  <2> QED BY <1>2, <1>3, <2>1 DEF Answers, Knows
<1>4. ASSUME NEW r \in routers, Fails(r) PROVE IInv'
  <2>1. late' \in SUBSET (routers \ {DHT})
    BY <1>4 DEF Fails, IInv, TypeOK
  <2> QED BY <1>2, <1>4, <2>1 DEF Fails, IgnoreError
<1>5. ASSUME NEW r \in routers, TimesOut(r) PROVE IInv'
  <2>1. r # DHT /\ late' \in SUBSET (routers \ {DHT})
    BY <1>5 DEF TimesOut, HasTimeout, IInv, TypeOK
  <2> QED BY <1>2, <1>5, <2>1 DEF TimesOut
<1>6. ASSUME NEW r \in routers, Take(r) PROVE IInv'
  <2>1. /\ UNCHANGED <<routers, accelerated, knows, ready, client, call, late>>
        /\ \/ call[r] = "offers" /\ result' = "value"
           \/ call[r] = "errs" /\ result' = "error"
    BY <1>6 DEF Take, Ends, asked
  <2> QED BY <2>1 DEF IInv, TypeOK, Chosen, DHTHadNone, OnlyTheDHTErrs, ResultStands
<1>7. ASSUME AllGone PROVE IInv'
  BY <1>7 DEF AllGone, Ends, asked, IInv, TypeOK, Chosen, DHTHadNone, OnlyTheDHTErrs,
              ResultStands
<1>8. ASSUME Cancel PROVE IInv'
  BY <1>8 DEF Cancel, Ends, asked, IInv, TypeOK, Chosen, DHTHadNone, OnlyTheDHTErrs,
              ResultStands
<1>9. ASSUME Crawl PROVE IInv'
  BY <1>9 DEF Crawl, asked, IInv, TypeOK, Chosen, DHTHadNone, OnlyTheDHTErrs,
              ResultStands
<1>10. ASSUME UNCHANGED vars PROVE IInv'
  BY <1>10 DEF vars, IInv, TypeOK, Chosen, DHTHadNone, OnlyTheDHTErrs, ResultStands
<1> QED BY <1>1, <1>3, <1>4, <1>5, <1>6, <1>7, <1>8, <1>9, <1>10 DEF Next, RouterStep

LEMMA SpecIInv == Spec => []IInv
  BY InitIInv, StepIInv, PTL DEF Spec

\* Every reachable state of a lookup has its type.
THEOREM TypeCorrect == Spec => []TypeOK
  BY SpecIInv, PTL DEF IInv

\* A record is said not to exist only after every router had its say, and never
\* if the DHT's client has it.
THEOREM NotFoundIsHonest == Spec => []NotFoundIsThorough
  BY SpecIInv, IInvImplies, PTL

\* However many HTTP routers fail, the caller sees an error of the DHT only.
THEOREM HttpNeverFails == Spec => []OnlyTheDHTFails
  BY SpecIInv, IInvImplies, PTL

LEMMA StepClient ==
  ASSUME IInv, [Next]_vars
  PROVE  [/\ client = "none" /\ client' = "full" => ready
          /\ client # "none" => client' = client]_vars
<1>1. ASSUME NEW r \in routers, Ask(r), client' # client
      PROVE  client = "none" /\ (client' = "full" => ready)
  BY <1>1 DEF Ask, getDHT, IInv, Chosen
<1>2. ASSUME NEW r \in routers, Answers(r) \/ Fails(r) \/ TimesOut(r) \/ Take(r)
      PROVE  client' = client
  BY <1>2 DEF Answers, Fails, TimesOut, Take
<1>3. ASSUME AllGone \/ Cancel \/ Crawl \/ UNCHANGED vars
      PROVE  client' = client
  BY <1>3 DEF AllGone, Cancel, Crawl, vars
<1> QED BY <1>1, <1>2, <1>3 DEF Next, RouterStep

\* The full client is asked only when it was ready, and a lookup that has begun
\* keeps the client it began with, however often the table comes and goes.
THEOREM ClientStays == Spec => ClientIsReady
  BY SpecIInv, StepClient, PTL DEF Spec, ClientIsReady

-----------------------------------------------------------------------------
(* How long a lookup can last *)

\* What a call to r has before it: to be made, to be answered, to be taken.
CallsLeft(r) ==
  CASE call[r] = "waiting" -> 3
    [] call[r] = "running" -> 2
    [] call[r] = "offers"  -> 1
    [] OTHER               -> 0

\* No call is made twice or comes back, and an outcome is final: the caller does
\* not see a value give way to an error, or the reverse.
OnlyForward ==
  [][/\ \A r \in routers :
          CallsLeft(r)' < CallsLeft(r) \/ call'[r] = call[r]
     /\ result # "none" => result' = result]_vars

\* A lookup without a DHT that is not over can go on, and at each of its calls
\* somebody is bound to act: the goroutine that makes it, its timeout, or the
\* caller who takes the value.
HttpCanGoOn ==
  DHT \notin routers /\ result = "none" =>
    \/ \A r \in routers : call[r] = "gone"
    \/ \E r \in routers : \/ call[r] \in {"waiting", "offers"}
                          \/ call[r] = "running" /\ HasTimeout(r)

LEMMA StepForward ==
  ASSUME TypeOK, [Next]_vars
  PROVE  /\ \A r \in routers : CallsLeft(r)' < CallsLeft(r) \/ call'[r] = call[r]
         /\ result # "none" => result' = result
<1>1. ASSUME NEW r \in routers, RouterStep(r)
      PROVE  /\ \A q \in routers : CallsLeft(q)' < CallsLeft(q) \/ call'[q] = call[q]
             /\ result # "none" => result' = result
  <2>1. \A q \in routers : q # r => call'[q] = call[q]
    BY <1>1 DEF RouterStep, Ask, Answers, Fails, TimesOut, Take, Becomes, TypeOK
  <2>2. CASE Take(r)
    BY <2>2 DEF Take
  <2>3. CASE Ask(r)
    <3>1. call[r] = "waiting" /\ call'[r] = "running" /\ result = "none"
      BY <2>3 DEF Ask, Becomes, TypeOK
    <3> QED BY <2>1, <3>1 DEF CallsLeft
  <2>4. CASE Answers(r) \/ Fails(r)
    <3>1. /\ call[r] = "running" /\ call'[r] \in {"offers", "errs", "gone"}
          /\ result' = result
      BY <2>4 DEF Answers, Fails, Becomes, TypeOK
    <3> QED BY <2>1, <3>1 DEF CallsLeft
  <2>5. CASE TimesOut(r)
    <3>1. call[r] \in {"running", "offers"} /\ call'[r] = "gone" /\ result' = result
      BY <2>5 DEF TimesOut, Becomes, TypeOK
    <3> QED BY <2>1, <3>1 DEF CallsLeft
  <2> QED BY <1>1, <2>2, <2>3, <2>4, <2>5 DEF RouterStep
<1>2. ASSUME AllGone \/ Cancel \/ Crawl \/ UNCHANGED vars
      PROVE  call' = call /\ (result # "none" => result' = result)
  BY <1>2 DEF AllGone, Cancel, Crawl, vars
<1> QED BY <1>1, <1>2 DEF Next

\* A lookup makes at most three steps for each of its routers before its one and
\* only outcome.
THEOREM CallsOnlyAdvance == Spec => OnlyForward
  BY TypeCorrect, StepForward, PTL DEF Spec, OnlyForward

\* Without a DHT no lookup gets stuck: the part of HttpLookupEnds that needs no
\* fairness.
THEOREM HttpNeverStuck == Spec => []HttpCanGoOn
<1>1. IInv => HttpCanGoOn
  BY DEF IInv, TypeOK, OnlyTheDHTErrs, HttpCanGoOn, HasTimeout
<1> QED BY <1>1, SpecIInv, PTL

================================================================================
