--------------------------------- MODULE Daemon ---------------------------------
(***************************************************************************)
(* The life of the rainbow process, from the moment its node is set up     *)
(* (src/main.go, the end of app.Action): the main goroutine, the two HTTP  *)
(* servers, the GC timer's goroutine, the channel `quit' that both the     *)
(* signals and the failing servers send to, and the shutdown.              *)
(*                                                                         *)
(* What the servers serve, and what a collection does, is not here: see    *)
(* module BlockCache for a collection (and why it ends).                   *)
(***************************************************************************)
EXTENDS Naturals

CONSTANTS
  QuitCap,    (* capacity of quit; 3 in the code                            *)
  MaxSignals  (* bound: signals the process is sent                         *)

ASSUME DaemonAssumption ==
  /\ QuitCap \in Nat \ {0}
  /\ MaxSignals \in Nat

Servers == {"gateway", "api"}

VARIABLES
  main,       (* where the main goroutine is                                *)
  server,     (* where each server's goroutine is                           *)
  closing,    (* the server's Close has marked it as shutting down          *)
  closer,     (* the goroutine that calls Close                             *)
  quit,       (* how many values are in the channel                         *)
  interval,   (* whether GCInterval > 0, chosen once                        *)
  timer,      (* gcTicker                                                   *)
  gc,         (* where the goroutine of the GC timer is                     *)
  notified,   (* what systemd was told last                                 *)
  signals     (* how many signals were sent                                 *)

serverVars == <<server, closing, closer>>
gcVars == <<timer, gc>>
vars == <<main, serverVars, quit, interval, gcVars, notified, signals>>

TypeOK ==
  /\ main \in {"start", "initialGC", "waiting", "stopTimer", "handshake",
               "subs", "waitGroup", "exited"}
  /\ server \in [Servers -> {"unborn", "starting", "binding", "serving",
                             "failed", "blocked", "returned"}]
  /\ closing \in [Servers -> BOOLEAN]
  /\ closer \in [Servers -> {"unborn", "running", "returned"}]
  /\ quit \in 0..QuitCap
  /\ interval \in BOOLEAN
  /\ timer \in {"none", "armed", "expired", "stopped"}
  /\ gc \in {"none", "select", "collecting", "returned"}
  /\ notified \in {"nothing", "READY", "STOPPING"}
  /\ signals \in 0..MaxSignals

\* signal.Notify and the making of quit come first.
Init ==
  /\ main = "start"
  /\ server = [s \in Servers |-> "unborn"]
  /\ closing = [s \in Servers |-> FALSE]
  /\ closer = [s \in Servers |-> "unborn"]
  /\ quit = 0
  /\ interval \in BOOLEAN
  /\ timer = "none"
  /\ gc = "none"
  /\ notified = "nothing"
  /\ signals = 0

Alive == main # "exited"

-----------------------------------------------------------------------------
(* Signals *)

\* Defect: one value more than the channel holds.
RoomForMore == quit <= QuitCap
Room == quit < QuitCap

\* signal.Notify does not block: a signal that finds the channel full is lost.
Signal ==
  /\ Alive
  /\ signals < MaxSignals
  /\ signals' = signals + 1
  /\ quit' = IF Room THEN quit + 1 ELSE quit
  /\ UNCHANGED <<main, serverVars, interval, gcVars, notified>>

-----------------------------------------------------------------------------
(* The servers: wg.Go(func() { srv.ListenAndServe() ... }) *)

\* External: net/http looks whether Close came first, then binds the port.
ListenAndServe(s) ==
  /\ Alive
  /\ server[s] = "starting"
  /\ server' = [server EXCEPT ![s] = IF closing[s] THEN "returned" ELSE "binding"]
  /\ UNCHANGED <<main, closing, closer, quit, interval, gcVars, notified, signals>>

\* External: the port is bound, or taken by somebody else.
Bind(s) ==
  /\ Alive
  /\ server[s] = "binding"
  /\ \E l \in {"serving", "failed"} : server' = [server EXCEPT ![s] = l]
  /\ UNCHANGED <<main, closing, closer, quit, interval, gcVars, notified, signals>>

\* External: Close ends the accept loop with ErrServerClosed.
Serve(s) ==
  /\ Alive
  /\ server[s] = "serving"
  /\ closing[s]
  /\ server' = [server EXCEPT ![s] = "returned"]
  /\ UNCHANGED <<main, closing, closer, quit, interval, gcVars, notified, signals>>

\* quit <- os.Interrupt, by a server that failed: blocks while quit is full.
SendQuit(s) ==
  /\ Alive
  /\ server[s] = "failed"
  /\ IF Room
     THEN /\ quit' = quit + 1
          /\ server' = [server EXCEPT ![s] = "returned"]
     ELSE /\ server' = [server EXCEPT ![s] = "blocked"]
          /\ UNCHANGED quit
  /\ UNCHANGED <<main, closing, closer, interval, gcVars, notified, signals>>

\* go srv.Close()
Close(s) ==
  /\ Alive
  /\ closer[s] = "running"
  /\ closer' = [closer EXCEPT ![s] = "returned"]
  /\ closing' = [closing EXCEPT ![s] = TRUE]
  /\ UNCHANGED <<main, server, quit, interval, gcVars, notified, signals>>

-----------------------------------------------------------------------------
(* The GC timer's goroutine *)

TimerExpires ==
  /\ Alive
  /\ timer = "armed"
  /\ timer' = "expired"
  /\ UNCHANGED <<main, serverVars, quit, interval, gc, notified, signals>>

\* case <-gcTicker.C
Tick ==
  /\ Alive
  /\ gc = "select"
  /\ timer = "expired"
  /\ gc' = "collecting"
  /\ timer' = "stopped"
  /\ UNCHANGED <<main, serverVars, quit, interval, notified, signals>>

\* Defect: the goroutine ends when periodicGC fails.
CollectionMayEndAll ==
  /\ Alive
  /\ gc = "collecting"
  /\ gc' \in {"select", "returned"}
  /\ timer' = "armed"
  /\ UNCHANGED <<main, serverVars, quit, interval, notified, signals>>

\* periodicGC returns, with an error or without, and the timer is set again,
\* even if main has stopped it meanwhile.
CollectionEnds ==
  /\ Alive
  /\ gc = "collecting"
  /\ gc' = "select"
  /\ timer' = "armed"
  /\ UNCHANGED <<main, serverVars, quit, interval, notified, signals>>

-----------------------------------------------------------------------------
(* The main goroutine *)

StartGateway ==
  /\ main = "start"
  /\ main' = "initialGC"
  /\ server' = [server EXCEPT !["gateway"] = "starting"]
  /\ UNCHANGED <<closing, closer, quit, interval, gcVars, notified, signals>>

\* The collection main makes itself is over; the rest of the start-up never
\* waits: the API server, the timer and its goroutine, READY.
InitialGCEnds ==
  /\ main = "initialGC"
  /\ main' = "waiting"
  /\ server' = [server EXCEPT !["api"] = "starting"]
  /\ IF interval
     THEN timer' = "armed" /\ gc' = "select"
     ELSE UNCHANGED gcVars
  /\ notified' = "READY"
  /\ UNCHANGED <<closing, closer, quit, interval, signals>>

\* Defect: main wakes up but leaves the value where it is.
Peek == quit > 0 /\ UNCHANGED <<quit, server>>

\* What a receive takes from quit: a value, whose place the value of a blocked
\* server takes at once.
Receive ==
  /\ quit > 0
  /\ LET blocked == {s \in Servers : server[s] = "blocked"} IN
     IF blocked = {}
     THEN quit' = quit - 1 /\ UNCHANGED server
     ELSE /\ \E s \in blocked : server' = [server EXCEPT ![s] = "returned"]
          /\ UNCHANGED quit

\* <-quit, STOPPING, and the two goroutines that close the servers
ReceiveQuit ==
  /\ main = "waiting"
  /\ Receive
  /\ main' = IF interval THEN "stopTimer" ELSE "subs"
  /\ notified' = "STOPPING"
  /\ closer' = [s \in Servers |-> "running"]
  /\ UNCHANGED <<closing, interval, gcVars, signals>>

\* gcTicker.Stop()
StopTimer ==
  /\ main = "stopTimer"
  /\ main' = "handshake"
  /\ timer' = "stopped"
  /\ UNCHANGED <<serverVars, quit, interval, gc, notified, signals>>

\* Defect: gcTickerDone with a buffer, so that main does not wait.
SendDone ==
  /\ main = "handshake"
  /\ main' = "subs"
  /\ gc' = IF gc = "select" THEN "returned" ELSE gc
  /\ UNCHANGED <<serverVars, quit, interval, timer, notified, signals>>

\* gcTickerDone <- true meets case <-gcTickerDone: the channel has no buffer.
Handshake ==
  /\ main = "handshake"
  /\ gc = "select"
  /\ main' = "subs"
  /\ gc' = "returned"
  /\ UNCHANGED <<serverVars, quit, interval, timer, notified, signals>>

\* The denylist subscriptions are stopped one after the other.
StopSubs ==
  /\ main = "subs"
  /\ main' = "waitGroup"
  /\ UNCHANGED <<serverVars, quit, interval, gcVars, notified, signals>>

\* Defect: a server started by `go' instead of wg.Go.
WaitedForGateway == {"gateway"}
WaitedFor == Servers

\* wg.Wait() and the return from app.Action: the process ends.
Exit ==
  /\ main = "waitGroup"
  /\ \A s \in WaitedFor : server[s] = "returned"
  /\ gc \in {"none", "returned"}
  /\ main' = "exited"
  /\ UNCHANGED <<serverVars, quit, interval, gcVars, notified, signals>>

-----------------------------------------------------------------------------

MainStep ==
  \/ StartGateway
  \/ InitialGCEnds
  \/ ReceiveQuit
  \/ StopTimer
  \/ StopSubs
  \/ Exit

ServerStep(s) ==
  \/ ListenAndServe(s)
  \/ Bind(s)
  \/ Serve(s)
  \/ SendQuit(s)
  \/ Close(s)

Next ==
  \/ Signal
  \/ \E s \in Servers : ServerStep(s)
  \/ TimerExpires
  \/ Tick
  \/ CollectionEnds
  \/ MainStep
  \/ Handshake

(***************************************************************************)
(* Every goroutine is scheduled, and every collection ends.  Handshake is  *)
(* one of two branches of a select that may both be ready, again and again *)
(* when the interval is short: select picks at random, so not always the   *)
(* other one.                                                              *)
(***************************************************************************)
Fairness ==
  /\ WF_vars(MainStep)
  /\ \A s \in Servers : WF_vars(ListenAndServe(s) \/ Bind(s) \/ Serve(s) \/ SendQuit(s))
  /\ \A s \in Servers : WF_vars(Close(s))
  /\ WF_vars(CollectionEnds)
  /\ SF_vars(Handshake)

Spec == Init /\ [][Next]_vars /\ Fairness

-----------------------------------------------------------------------------
(* Properties *)

(***************************************************************************)
(* Once main has handed over gcTickerDone, no collection is under way and  *)
(* none can begin, although a collection that ended during the shutdown    *)
(* has set the timer again.                                                *)
(***************************************************************************)
NoCollectionAfterHandshake ==
  main \in {"subs", "waitGroup", "exited"} => gc \in {"none", "returned"}

(***************************************************************************)
(* The process never ends under a server that is still starting, serving   *)
(* or reporting its failure, nor under a collection of the timer's, nor    *)
(* without having told systemd that it is stopping.                        *)
(***************************************************************************)
CleanExit ==
  main = "exited" =>
    /\ \A s \in Servers : server[s] = "returned"
    /\ gc \in {"none", "returned"}
    /\ notified = "STOPPING"

(***************************************************************************)
(* The shutdown can hang in one way only: main receives from quit once, so *)
(* a server that fails while quit is full of signals waits for ever, and   *)
(* wg.Wait with it.                                                        *)
(***************************************************************************)
Jammed ==
  /\ main \notin {"start", "initialGC", "waiting"}
  /\ quit = QuitCap
  /\ \E s \in Servers : server[s] = "blocked"

(***************************************************************************)
(* That takes at least as many signals as quit holds.                      *)
(***************************************************************************)
JamTakesSignals == Jammed => signals >= QuitCap

(***************************************************************************)
(* A process that was asked to stop, by a signal or by a server that could *)
(* not start, stops.                                                       *)
(***************************************************************************)
AskedToStop == quit > 0 \/ \E s \in Servers : server[s] \in {"failed", "blocked"}

ShutdownCompletes == AskedToStop ~> main = "exited"

ShutdownUnlessJammed == AskedToStop ~> main = "exited" \/ Jammed
=============================================================================
