------------------------------ MODULE DaemonProofs ------------------------------
(***************************************************************************)
(* Proofs about module Daemon, for every capacity of quit and every number *)
(* of signals.                                                             *)
(***************************************************************************)
EXTENDS Daemon, Integers, TLAPS

(***************************************************************************)
(* What is behind the properties.                                          *)
(*  - The timer's goroutine runs exactly while main waits or hands over,   *)
(*    and never without an interval.                                       *)
(*  - main tells systemd READY when it starts to wait, STOPPING when it    *)
(*    stops.                                                               *)
(*  - What is in quit, and the value main took, was sent by a signal or by *)
(*    a server that has returned since.                                    *)
(***************************************************************************)
Took == main \notin {"start", "initialGC", "waiting"}
Sent(s) == IF server[s] = "returned" THEN 1 ELSE 0

TimerInv ==
  /\ main \in {"start", "initialGC"} => gc = "none"
  /\ ~interval => gc = "none"
  /\ main \in {"stopTimer", "handshake"} => interval
  /\ NoCollectionAfterHandshake

NotifyInv ==
  /\ main \in {"start", "initialGC"} => notified = "nothing"
  /\ main = "waiting" => notified = "READY"
  /\ Took => notified = "STOPPING"
  /\ main = "exited" => \A s \in Servers : server[s] = "returned"

BornInv ==
  /\ main = "start" => server["gateway"] = "unborn"
  /\ main \in {"start", "initialGC"} => server["api"] = "unborn"

QuitInv ==
  quit + (IF Took THEN 1 ELSE 0) <= signals + Sent("gateway") + Sent("api")

DaemonInv == TypeOK /\ TimerInv /\ NotifyInv /\ BornInv /\ QuitInv

LEMMA InitInv == Init => DaemonInv
  BY DaemonAssumption
  DEF DaemonAssumption, Init, DaemonInv, TypeOK, TimerInv, NotifyInv, BornInv, QuitInv,
      NoCollectionAfterHandshake, Took, Sent, Servers

LEMMA StepInv == DaemonInv /\ [Next]_vars => DaemonInv'
<1> SUFFICES ASSUME DaemonInv, [Next]_vars PROVE DaemonInv'
  OBVIOUS
<1> USE DaemonAssumption
    DEF DaemonAssumption, DaemonInv, TypeOK, TimerInv, NotifyInv, BornInv, QuitInv,
        NoCollectionAfterHandshake, Took, Sent, Servers, Alive, serverVars, gcVars
<1>1. CASE Signal
  BY <1>1 DEF Signal, Room
<1>2. ASSUME NEW s \in Servers, ServerStep(s) PROVE DaemonInv'
  <2>1. CASE ListenAndServe(s)
    BY <1>2, <2>1 DEF ListenAndServe
  <2>2. CASE Bind(s)
    BY <1>2, <2>2 DEF Bind
  <2>3. CASE Serve(s)
    BY <1>2, <2>3 DEF Serve
  <2>4. CASE SendQuit(s)
    BY <1>2, <2>4 DEF SendQuit, Room
  <2>5. CASE Close(s)
    BY <1>2, <2>5 DEF Close
  <2> QED BY <1>2, <2>1, <2>2, <2>3, <2>4, <2>5 DEF ServerStep
<1>3. CASE TimerExpires
  BY <1>3 DEF TimerExpires
<1>4. CASE Tick
  BY <1>4 DEF Tick
<1>5. CASE CollectionEnds
  BY <1>5 DEF CollectionEnds
<1>6. CASE StartGateway
  BY <1>6 DEF StartGateway
<1>7. CASE InitialGCEnds
  <2>1. notified' = "READY"
    BY <1>7 DEF InitialGCEnds
  <2> QED BY <1>7, <2>1 DEF InitialGCEnds
<1>8. CASE ReceiveQuit
  <2>1. notified' = "STOPPING"
    BY <1>8 DEF ReceiveQuit
  <2>2. /\ main = "waiting" /\ main' \in {"stopTimer", "subs"}
        /\ UNCHANGED signals
    BY <1>8 DEF ReceiveQuit
  <2>3. /\ quit' \in 0..QuitCap
        /\ server' \in [Servers -> {"unborn", "starting", "binding", "serving",
                                   "failed", "blocked", "returned"}]
        /\ QuitInv'
    <3>1. CASE quit > 0 /\ quit' = quit - 1 /\ UNCHANGED server
      BY <2>2, <3>1
    <3>2. ASSUME NEW s \in Servers, server[s] = "blocked", UNCHANGED quit,
                 server' = [server EXCEPT ![s] = "returned"]
          PROVE  quit' \in 0..QuitCap /\ QuitInv' /\ server' \in
                   [Servers -> {"unborn", "starting", "binding", "serving",
                                "failed", "blocked", "returned"}]
      BY <2>2, <3>2
    <3> QED BY <1>8, <3>1, <3>2 DEF ReceiveQuit, Receive
  <2> QED BY <1>8, <2>1, <2>2, <2>3 DEF ReceiveQuit
<1>9. CASE StopTimer
  BY <1>9 DEF StopTimer
<1>10. CASE Handshake
  BY <1>10 DEF Handshake
<1>11. CASE StopSubs
  BY <1>11 DEF StopSubs
<1>12. CASE Exit
  BY <1>12 DEF Exit, WaitedFor
<1>13. CASE UNCHANGED vars
  BY <1>13 DEF vars
<1> QED BY <1>1, <1>2, <1>3, <1>4, <1>5, <1>6, <1>7, <1>8, <1>9, <1>10, <1>11,
           <1>12, <1>13 DEF Next, MainStep

LEMMA Invariant == Spec => []DaemonInv
<1>1. Init => DaemonInv
  BY InitInv
<1>2. DaemonInv /\ [Next]_vars => DaemonInv'
  BY StepInv
<1> QED BY <1>1, <1>2, PTL DEF Spec

\* Every channel holds what its capacity allows, every goroutine and server is
\* where its code can be.
THEOREM TypeCorrect == Spec => []TypeOK
<1>1. DaemonInv => TypeOK
  BY DEF DaemonInv
<1> QED BY <1>1, Invariant, PTL

\* After the handover of gcTickerDone no collection runs, whatever the timer does.
THEOREM HandshakeStopsCollections == Spec => []NoCollectionAfterHandshake
<1>1. DaemonInv => NoCollectionAfterHandshake
  BY DEF DaemonInv, TimerInv
<1> QED BY <1>1, Invariant, PTL

\* The process ends with both servers returned, no collection under way, and
\* STOPPING told.
THEOREM ExitIsClean == Spec => []CleanExit
<1>1. DaemonInv => CleanExit
  BY DEF DaemonInv, TimerInv, NotifyInv, NoCollectionAfterHandshake, CleanExit, Took
<1> QED BY <1>1, Invariant, PTL

\* A shutdown that hangs was sent at least as many signals as quit holds.
THEOREM FewSignalsNeverJam == Spec => []JamTakesSignals
<1>1. DaemonInv => JamTakesSignals
  BY DaemonAssumption
  DEF DaemonAssumption, DaemonInv, TypeOK, QuitInv, JamTakesSignals, Jammed, Took,
      Sent, Servers
<1> QED BY <1>1, Invariant, PTL

-----------------------------------------------------------------------------
(***************************************************************************)
(* Why the shutdown gets stuck in no other way than by being jammed: what  *)
(* each goroutine waits for is there, or is made by one that can run.      *)
(*  - Servers and timer are born before main waits for them.               *)
(*  - Behind main's receive there is a Close for every server, made or to  *)
(*    be made.                                                             *)
(*  - A server is blocked only on a channel that is full.                  *)
(***************************************************************************)
WaitInv ==
  /\ main # "start" => server["gateway"] # "unborn"
  /\ main \notin {"start", "initialGC"} => server["api"] # "unborn"
  /\ interval /\ main \in {"waiting", "stopTimer", "handshake"} =>
       gc \in {"select", "collecting"}
  /\ Took => \A s \in Servers : closer[s] # "unborn"
  /\ \A s \in Servers : closer[s] = "returned" => closing[s]
  /\ \A s \in Servers : server[s] = "blocked" => quit = QuitCap

\* Somebody can run who brings the shutdown on: main itself, the collection it
\* waits for, or a server or its Close.
SomebodyRuns ==
  \/ main \in {"start", "initialGC", "stopTimer", "subs"}
  \/ main = "waiting" /\ quit > 0
  \/ main = "handshake" /\ gc \in {"select", "collecting"}
  \/ main = "waitGroup" /\ gc \in {"none", "returned"}
       /\ \A s \in Servers : server[s] = "returned"
  \/ \E s \in Servers : \/ server[s] \in {"starting", "binding", "failed"}
                        \/ server[s] = "serving" /\ closing[s]
                        \/ closer[s] = "running"

NeverStuck ==
  main # "exited" /\ (main = "waiting" => AskedToStop) => SomebodyRuns \/ Jammed

LEMMA InitWait == Init => WaitInv
  BY DEF Init, WaitInv, Took, Servers

LEMMA StepWait == DaemonInv /\ WaitInv /\ [Next]_vars => WaitInv'
<1> SUFFICES ASSUME DaemonInv, WaitInv, [Next]_vars PROVE WaitInv'
  OBVIOUS
<1> USE DaemonAssumption
    DEF DaemonAssumption, DaemonInv, TypeOK, TimerInv, WaitInv, Took, Servers, Alive,
        serverVars, gcVars
<1>1. CASE Signal
  BY <1>1 DEF Signal, Room
<1>2. ASSUME NEW s \in Servers, ServerStep(s) PROVE WaitInv'
  <2>1. CASE ListenAndServe(s)
    BY <1>2, <2>1 DEF ListenAndServe
  <2>2. CASE Bind(s)
    BY <1>2, <2>2 DEF Bind
  <2>3. CASE Serve(s)
    BY <1>2, <2>3 DEF Serve
  <2>4. CASE SendQuit(s)
    BY <1>2, <2>4 DEF SendQuit, Room
  <2>5. CASE Close(s)
    BY <1>2, <2>5 DEF Close
  <2> QED BY <1>2, <2>1, <2>2, <2>3, <2>4, <2>5 DEF ServerStep
<1>3. CASE TimerExpires \/ Tick \/ CollectionEnds
  BY <1>3 DEF TimerExpires, Tick, CollectionEnds
<1>4. CASE StartGateway
  BY <1>4 DEF StartGateway
<1>5. CASE InitialGCEnds
  BY <1>5 DEF InitialGCEnds
<1>6. CASE ReceiveQuit
  BY <1>6 DEF ReceiveQuit, Receive
<1>7. CASE StopTimer
  BY <1>7 DEF StopTimer
<1>8. CASE Handshake
  BY <1>8 DEF Handshake
<1>9. CASE StopSubs \/ Exit
  BY <1>9 DEF StopSubs, Exit
<1>10. CASE UNCHANGED vars
  BY <1>10 DEF vars
<1> QED BY <1>1, <1>2, <1>3, <1>4, <1>5, <1>6, <1>7, <1>8, <1>9, <1>10 DEF Next, MainStep

\* Whenever main has not ended and was asked to, somebody can run, unless more
\* signals came than quit holds and a server failed on top of them: the part of
\* ShutdownUnlessJammed that holds without any fairness.
THEOREM ShutdownNeverStuck == Spec => []NeverStuck
<1>1. DaemonInv /\ WaitInv => NeverStuck
  <2> SUFFICES ASSUME DaemonInv, WaitInv, main # "exited", ~Jammed, ~SomebodyRuns,
                      main = "waiting" => AskedToStop
               PROVE  FALSE
    BY DEF NeverStuck
  <2>1. main \in {"waiting", "handshake", "waitGroup"}
    BY DEF DaemonInv, TypeOK, SomebodyRuns
  <2>2. main # "handshake"
    BY DEF DaemonInv, TimerInv, WaitInv, SomebodyRuns
  <2>3. CASE main = "waiting"
    <3>1. quit = 0
      BY <2>3 DEF DaemonInv, TypeOK, SomebodyRuns
    <3>2. PICK s \in Servers : server[s] = "blocked"
      BY <2>3, <3>1 DEF AskedToStop, SomebodyRuns
    <3> QED BY <3>1, <3>2, DaemonAssumption DEF DaemonAssumption, WaitInv
  <2>4. CASE main = "waitGroup"
    <3>1. \A s \in Servers : server[s] # "blocked"
      BY <2>4 DEF Jammed, WaitInv
    <3>2. \A s \in Servers : closing[s]
      BY <2>4 DEF DaemonInv, TypeOK, WaitInv, Took, SomebodyRuns
    <3>3. \A s \in Servers : server[s] # "unborn"
      BY <2>4 DEF WaitInv, Servers
    <3>4. \A s \in Servers : server[s] = "returned"
      BY <3>1, <3>2, <3>3 DEF DaemonInv, TypeOK, SomebodyRuns
    <3>5. gc \in {"none", "returned"}
      BY <2>4 DEF DaemonInv, TimerInv, NoCollectionAfterHandshake
    <3> QED BY <2>4, <3>4, <3>5 DEF SomebodyRuns
  <2> QED BY <2>1, <2>2, <2>3, <2>4
<1>2. DaemonInv /\ WaitInv /\ [Next]_vars => WaitInv'
  BY StepWait
<1> QED BY <1>1, <1>2, InitWait, Invariant, PTL DEF Spec

-----------------------------------------------------------------------------
(***************************************************************************)
(* How long the life of the process is, not counting what may repeat: the  *)
(* signals, and the ticks and collections of the timer.                    *)
(***************************************************************************)
MainLeft ==
  CASE main = "start"     -> 7
    [] main = "initialGC" -> 6
    [] main = "waiting"   -> 5
    [] main = "stopTimer" -> 4
    [] main = "handshake" -> 3
    [] main = "subs"      -> 2
    [] main = "waitGroup" -> 1
    [] OTHER              -> 0

ServerLeft(s) ==
  CASE server[s] = "unborn"   -> 5
    [] server[s] = "starting" -> 4
    [] server[s] = "binding"  -> 3
    [] server[s] \in {"serving", "failed"} -> 2
    [] server[s] = "blocked"  -> 1
    [] OTHER                  -> 0

CloserLeft(s) ==
  CASE closer[s] = "unborn"  -> 2
    [] closer[s] = "running" -> 1
    [] OTHER                 -> 0

\* What main, the servers and their Close have before them: at most 21 steps.
StepsToExit ==
  MainLeft + ServerLeft("gateway") + ServerLeft("api")
    + CloserLeft("gateway") + CloserLeft("api")

\* Every step of theirs brings the end nearer; signals, ticks and collections
\* change nothing about it.
NearerToExit ==
  IF UNCHANGED <<main, server, closer>> THEN StepsToExit' = StepsToExit
  ELSE StepsToExit' < StepsToExit

\* main closes each server once: before it woke up there was no Close.
NoCloseBefore == ~Took => \A s \in Servers : closer[s] = "unborn"

LEMMA StepNoClose == TypeOK /\ NoCloseBefore /\ [Next]_vars => NoCloseBefore'
<1> SUFFICES ASSUME TypeOK, NoCloseBefore, [Next]_vars PROVE NoCloseBefore'
  OBVIOUS
<1> USE DEF NoCloseBefore, Took, serverVars
<1>1. ASSUME NEW s \in Servers, ServerStep(s) PROVE NoCloseBefore'
  BY <1>1 DEF ServerStep, ListenAndServe, Bind, Serve, SendQuit, Close, TypeOK
<1>2. CASE MainStep \/ Handshake
  BY <1>2 DEF MainStep, StartGateway, InitialGCEnds, ReceiveQuit, StopTimer, StopSubs,
              Exit, Handshake
<1>3. CASE Signal \/ TimerExpires \/ Tick \/ CollectionEnds \/ UNCHANGED vars
  BY <1>3 DEF Signal, TimerExpires, Tick, CollectionEnds, vars
<1> QED BY <1>1, <1>2, <1>3 DEF Next

\* One server's goroutine.
LEMMA ServerLeftType ==
  ASSUME TypeOK, NEW s \in Servers
  PROVE  ServerLeft(s) \in 0..5 /\ CloserLeft(s) \in 0..2
BY DEF TypeOK, ServerLeft, CloserLeft

LEMMA MainLeftType == TypeOK => MainLeft \in 0..7
BY DEF TypeOK, MainLeft

LEMMA StepIsNearer ==
  DaemonInv /\ TypeOK' /\ NoCloseBefore /\ [Next]_vars => NearerToExit
<1> SUFFICES ASSUME TypeOK, BornInv, TypeOK', NoCloseBefore, [Next]_vars PROVE NearerToExit
  BY DEF DaemonInv
<1>0. /\ \A s \in Servers : /\ ServerLeft(s) \in Int /\ ServerLeft(s)' \in Int
                            /\ CloserLeft(s) \in Int /\ CloserLeft(s)' \in Int
      /\ MainLeft \in Int /\ MainLeft' \in Int
      /\ "gateway" \in Servers /\ "api" \in Servers
  <2>1. \A s \in Servers : ServerLeft(s) \in 0..5 /\ CloserLeft(s) \in 0..2
    BY ServerLeftType
  <2>2. \A s \in Servers : ServerLeft(s)' \in 0..5 /\ CloserLeft(s)' \in 0..2
    BY DEF TypeOK, ServerLeft, CloserLeft
  <2>3. MainLeft \in 0..7 /\ MainLeft' \in 0..7
    BY DEF TypeOK, MainLeft
  <2> QED BY <2>1, <2>2, <2>3 DEF Servers
<1>1. ASSUME UNCHANGED main, NEW s \in Servers,
             \A r \in Servers \ {s} : server'[r] = server[r] /\ closer'[r] = closer[r],
             ServerLeft(s)' + CloserLeft(s)' < ServerLeft(s) + CloserLeft(s)
      PROVE  NearerToExit
  <2>1. MainLeft' = MainLeft
    BY <1>1 DEF MainLeft
  <2>2. \A r \in Servers \ {s} : ServerLeft(r)' = ServerLeft(r) /\ CloserLeft(r)' = CloserLeft(r)
    BY <1>1 DEF ServerLeft, CloserLeft
  <2>3. StepsToExit' < StepsToExit
    BY <1>0, <1>1, <2>1, <2>2 DEF StepsToExit, Servers
  <2>4. ~UNCHANGED <<main, server, closer>>
    BY <1>1 DEF ServerLeft, CloserLeft
  <2> QED BY <2>3, <2>4 DEF NearerToExit
<1>2. ASSUME \A s \in Servers : /\ ServerLeft(s)' <= ServerLeft(s)
                                /\ CloserLeft(s)' <= CloserLeft(s),
             MainLeft' < MainLeft
      PROVE  NearerToExit
  <2>1. StepsToExit' < StepsToExit
    BY <1>0, <1>2 DEF StepsToExit
  <2>2. ~UNCHANGED main
    BY <1>0, <1>2 DEF MainLeft
  <2> QED BY <2>1, <2>2 DEF NearerToExit
<1>3. ASSUME UNCHANGED <<main, server, closer>> PROVE NearerToExit
  BY <1>3 DEF NearerToExit, StepsToExit, MainLeft, ServerLeft, CloserLeft
<1>4. ASSUME NEW s \in Servers, ServerStep(s) PROVE NearerToExit
  <2>1. CASE Close(s)
    <3>1. /\ closer[s] = "running" /\ closer' = [closer EXCEPT ![s] = "returned"]
          /\ UNCHANGED <<main, server>>
      BY <2>1 DEF Close
    <3>2. closer'[s] = "returned" /\ \A r \in Servers \ {s} : closer'[r] = closer[r]
      BY <3>1 DEF TypeOK
    <3>3. CloserLeft(s) = 1 /\ CloserLeft(s)' = 0 /\ ServerLeft(s)' = ServerLeft(s)
      BY <3>1, <3>2 DEF CloserLeft, ServerLeft
    <3> QED BY <1>0, <1>1, <3>1, <3>2, <3>3
  <2>2. CASE ~Close(s)
    <3>1. /\ UNCHANGED <<main, closer>>
          /\ \E l \in {"returned", "binding", "serving", "failed", "blocked"} :
               server' = [server EXCEPT ![s] = l]
      BY <1>4, <2>2 DEF ServerStep, ListenAndServe, Bind, Serve, SendQuit
    <3>2. \A r \in Servers \ {s} : server'[r] = server[r]
      BY <3>1 DEF TypeOK
    <3>3. \/ server[s] = "starting" /\ server'[s] \in {"returned", "binding"}
          \/ server[s] = "binding" /\ server'[s] \in {"serving", "failed"}
          \/ server[s] = "serving" /\ server'[s] = "returned"
          \/ server[s] = "failed" /\ server'[s] \in {"returned", "blocked"}
      BY <1>4, <2>2 DEF ServerStep, ListenAndServe, Bind, Serve, SendQuit, TypeOK
    <3>4. ServerLeft(s)' < ServerLeft(s)
      BY <3>3 DEF ServerLeft
    <3>5. CloserLeft(s)' = CloserLeft(s)
      BY <3>1 DEF CloserLeft
    <3> QED BY <1>0, <1>1, <3>1, <3>2, <3>4, <3>5
  <2> QED BY <2>1, <2>2
<1>5. CASE StartGateway \/ InitialGCEnds
  <2>1. PICK s \in Servers : server' = [server EXCEPT ![s] = "starting"] /\ server[s] = "unborn"
    BY <1>0, <1>5 DEF StartGateway, InitialGCEnds, BornInv
  <2>2. closer' = closer /\ MainLeft' < MainLeft
    BY <1>5 DEF StartGateway, InitialGCEnds, MainLeft
  <2>3. server'[s] = "starting" /\ \A r \in Servers \ {s} : server'[r] = server[r]
    BY <2>1 DEF TypeOK
  <2>4. ServerLeft(s) = 5 /\ ServerLeft(s)' = 4
    BY <2>1, <2>3 DEF ServerLeft
  <2>5. \A r \in Servers \ {s} : ServerLeft(r)' = ServerLeft(r)
    BY <2>3 DEF ServerLeft
  <2>6. \A r \in Servers : CloserLeft(r)' = CloserLeft(r)
    BY <2>2 DEF CloserLeft
  <2> QED BY <1>0, <1>2, <2>2, <2>4, <2>5, <2>6
<1>6. CASE ReceiveQuit
  <2>1. \A s \in Servers : ServerLeft(s)' <= ServerLeft(s)
    <3>1. CASE UNCHANGED server
      BY <1>0, <3>1 DEF ServerLeft
    <3>2. ASSUME NEW s \in Servers, server[s] = "blocked",
                 server' = [server EXCEPT ![s] = "returned"]
          PROVE  \A r \in Servers : ServerLeft(r)' <= ServerLeft(r)
      <4>1. server'[s] = "returned" /\ \A r \in Servers \ {s} : server'[r] = server[r]
        BY <3>2 DEF TypeOK
      <4>2. ServerLeft(s) = 1 /\ ServerLeft(s)' = 0
        BY <3>2, <4>1 DEF ServerLeft
      <4>3. \A r \in Servers \ {s} : ServerLeft(r)' = ServerLeft(r)
        BY <4>1 DEF ServerLeft
      <4> QED BY <1>0, <4>2, <4>3
    <3> QED BY <1>6, <3>1, <3>2 DEF ReceiveQuit, Receive
  <2>2. \A s \in Servers : CloserLeft(s) = 2 /\ CloserLeft(s)' = 1
    BY <1>6 DEF ReceiveQuit, NoCloseBefore, Took, CloserLeft
  <2>3. MainLeft = 5 /\ MainLeft' \in {2, 4}
    BY <1>6 DEF ReceiveQuit, MainLeft
  <2> QED BY <1>2, <2>1, <2>2, <2>3
<1>7. CASE StopTimer \/ StopSubs \/ Exit \/ Handshake
  <2>1. UNCHANGED <<server, closer>>
    BY <1>7 DEF StopTimer, StopSubs, Exit, Handshake, serverVars
  <2>2. \A s \in Servers : ServerLeft(s)' = ServerLeft(s) /\ CloserLeft(s)' = CloserLeft(s)
    BY <2>1 DEF ServerLeft, CloserLeft
  <2>3. MainLeft' < MainLeft
    BY <1>7 DEF StopTimer, StopSubs, Exit, Handshake, MainLeft
  <2> QED BY <1>0, <1>2, <2>2, <2>3
<1>8. CASE Signal \/ TimerExpires \/ Tick \/ CollectionEnds \/ UNCHANGED vars
  BY <1>3, <1>8 DEF Signal, TimerExpires, Tick, CollectionEnds, vars, serverVars
<1> QED BY <1>4, <1>5, <1>6, <1>7, <1>8 DEF Next, MainStep

\* A process takes at most 21 steps of its own, whatever the capacity of quit and
\* however many signals and collections come in between: no goroutine of the
\* shutdown can go round in a circle.  With ShutdownNeverStuck this leaves to
\* fairness only that goroutines are scheduled.
THEOREM ShutdownIsBounded == Spec => [][NearerToExit]_vars /\ [](StepsToExit \in 0..21)
<1>1. Init => NoCloseBefore
  BY DEF Init, NoCloseBefore
<1>2. TypeOK => StepsToExit \in 0..21
  <2> SUFFICES ASSUME TypeOK PROVE StepsToExit \in 0..21
    OBVIOUS
  <2>1. /\ ServerLeft("gateway") \in 0..5 /\ ServerLeft("api") \in 0..5
        /\ CloserLeft("gateway") \in 0..2 /\ CloserLeft("api") \in 0..2
    BY ServerLeftType DEF Servers
  <2> QED BY <2>1, MainLeftType DEF StepsToExit
<1>3. DaemonInv /\ TypeOK' /\ NoCloseBefore /\ [Next]_vars => [NearerToExit]_vars
  BY StepIsNearer
<1> QED BY <1>1, <1>2, <1>3, StepNoClose, TypeCorrect, Invariant, PTL DEF Spec

=============================================================================
