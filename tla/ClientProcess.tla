----------------------------- MODULE ClientProcess -----------------------------
(***************************************************************************)
(* The order-entry client process, cmd/oe-client run with -watchdog and    *)
(* its goroutines:                                                         *)
(*                                                                         *)
(*   main      run: starts the supervisor and the watchdog, waits for a    *)
(*             signal, then runs the deferred Stops in reverse order;      *)
(*   loop      sendOrders: waits for the Logon and places orders;          *)
(*   wd        the watchdog's goroutine: check, and Supervisor.Restart;    *)
(*   inbound   the engine's goroutine of the current Initiator's session.  *)
(*                                                                         *)
(* A clock tick is the watchdog's Interval, Timeout/4 by default.  A step  *)
(* is a critical section of Watchdog.mu, a receive or a select, or a call  *)
(* into the engine.  Supervisor.mu is held exactly while wd is in Restart. *)
(***************************************************************************)
EXTENDS Integers, Sequences

CONSTANTS
    Timeout,   \* Watchdog.Timeout, in ticks
    Repeats,   \* -every is positive: the loop goes on placing orders
    MaxSeq,    \* ClOrdIDs one OrderEntry hands out (bound)
    MaxStall   \* ticks one Restart may take (bound)

ASSUME TimeoutAssumption == Timeout \in Nat /\ Timeout > 1
ASSUME BoundAssumption == Repeats \in BOOLEAN /\ MaxSeq \in Nat /\ MaxStall \in Nat

VARIABLES
    main, loop, wd, inbound,  \* control points; inbound is the class being delivered
    initiator,  \* Supervisor.current
    loggedOn,   \* Client.loggedOn of the current OrderEntry
    wired,      \* WatchClient was called for the current OrderEntry
    seq,        \* OrderEntry.seq of the current OrderEntry
    number,     \* the ClOrdID Send has made up
    placed,     \* how often each ClOrdID was accepted by SendToTarget (2: more than once)
    silent,     \* ticks since Watchdog.lastApp
    tick,       \* age of the ticker's undelivered or unchecked tick, or NoTick
    closing,    \* the channel stopping is closed
    pending,    \* the channel stop holds a signal
    waiters,    \* goroutines blocked on stop, first in first out
    quiet,      \* history: ticks, at most Timeout, since an app message or a reconnect
    signalled   \* history: a signal has been sent

mainVars    == <<main, closing, signalled>>
loopVars    == <<loop, seq, number, placed>>
stopVars    == <<pending, waiters>>
sessionVars == <<inbound, initiator, loggedOn, wired>>
clockVars   == <<silent, tick, quiet>>
vars == <<mainVars, loopVars, wd, stopVars, sessionVars, clockVars>>

NoTick == -1
InboundApp == "app"
InboundAdmin == "admin"

\* Who waits on stop, in the order of arrival.
WaitOrders == {<< >>, <<"main">>, <<"loop">>, <<"main", "loop">>, <<"loop", "main">>}

TypeOK ==
    /\ main \in {"start", "arm", "spawn", "await", "waiting", "disarm", "join",
                 "teardown", "exited"}
    /\ loop \in {"off", "poll", "polling", "send", "sendto", "rest", "resting", "done"}
    /\ wd \in {"off", "select", "check", "locked", "stop", "build", "gone"}
    /\ inbound \in {"idle", InboundApp, InboundAdmin}
    /\ initiator \in {"none", "up"}
    /\ loggedOn \in BOOLEAN /\ (loggedOn => initiator = "up")
    /\ wired \in BOOLEAN
    /\ seq \in 0..MaxSeq
    /\ number \in 0..MaxSeq
    /\ placed \in [1..MaxSeq -> 0..2]
    /\ silent \in Nat
    /\ tick \in NoTick..MaxStall
    /\ closing \in BOOLEAN
    /\ pending \in BOOLEAN
    /\ waiters \in WaitOrders
    /\ quiet \in 0..Timeout
    /\ signalled \in BOOLEAN

Init ==
    /\ main = "start" /\ loop = "off" /\ wd = "off" /\ inbound = "idle"
    /\ initiator = "none" /\ loggedOn = FALSE /\ wired = FALSE
    /\ seq = 0 /\ number = 0 /\ placed = [n \in 1..MaxSeq |-> 0]
    /\ silent = 0 /\ tick = NoTick /\ quiet = 0
    /\ closing = FALSE
    /\ pending = FALSE /\ waiters = << >>
    /\ signalled = FALSE

Alive == main # "exited"

\* The Supervisor is stopped first.
WrongDeferred == [await |-> "teardown", join |-> "exited", teardown |-> "disarm"]

\* What follows each step of run: the defers run last in, first out.
Deferred == [await |-> "disarm", join |-> "teardown", teardown |-> "exited"]

----------------------------------------------------------------------------
(* Supervisor.                                                              *)

\* The watchdog is created after the first Initiator.
WrongWired == main # "start"

\* build wires whatever watchdog exists: run creates it before the first Start.
Wired == TRUE

\* startLocked: Build stores a new OrderEntry, whose counter starts at 0,
\* before NewInitiator or Start can fail.
startLocked(ok) ==
    /\ seq' = 0
    /\ wired' = Wired
    /\ initiator' = IF ok THEN "up" ELSE "none"

\* OnLogout leaves loggedOn alone.
WrongStopLocked ==
    /\ initiator = "up" => inbound = "idle"
    /\ initiator' = "none"
    /\ UNCHANGED loggedOn

\* Initiator.Stop waits for the session's goroutine to leave its callback;
\* OnLogout then clears loggedOn.
stopLocked ==
    /\ initiator = "up" => inbound = "idle"
    /\ initiator' = "none"
    /\ loggedOn' = FALSE

\* Restart holds Supervisor.mu throughout: first stopLocked, then startLocked.
WrongRestartStop ==
    /\ Alive /\ wd = "stop"
    /\ stopLocked
    /\ wd' = IF initiator = "none" THEN "select" ELSE "build"
    /\ UNCHANGED <<mainVars, loopVars, stopVars, inbound, wired, clockVars>>

RestartStop ==
    /\ Alive /\ wd = "stop"
    /\ stopLocked
    /\ wd' = "build"
    /\ UNCHANGED <<mainVars, loopVars, stopVars, inbound, wired, clockVars>>

\* A failed Restart leaves no Initiator; check logs the error and returns.
RestartBuild(ok) ==
    /\ Alive /\ wd = "build"
    /\ startLocked(ok)
    /\ wd' = "select"
    /\ UNCHANGED <<mainVars, loop, number, placed, stopVars, inbound, loggedOn, clockVars>>

----------------------------------------------------------------------------
(* The engine's session of the current Initiator.                           *)

OnLogon ==
    /\ Alive /\ initiator = "up" /\ ~ loggedOn
    /\ loggedOn' = TRUE
    /\ UNCHANGED <<mainVars, loopVars, wd, stopVars, inbound, initiator, wired, clockVars>>

OnLogout ==
    /\ Alive /\ loggedOn /\ inbound = "idle"
    /\ loggedOn' = FALSE
    /\ UNCHANGED <<mainVars, loopVars, wd, stopVars, inbound, initiator, wired, clockVars>>

\* FromApp or FromAdmin calls NoteInbound.
Receive(class) ==
    /\ Alive /\ loggedOn /\ inbound = "idle"
    /\ inbound' = class
    /\ quiet' = IF class = InboundApp THEN 0 ELSE quiet
    /\ UNCHANGED <<mainVars, loopVars, wd, stopVars, initiator, loggedOn, wired,
                   silent, tick>>

\* check keeps Watchdog.mu until Restart has returned.
WrongHeld == wd \in {"locked", "stop", "build"}

\* Watchdog.Stop keeps it until the goroutine has.
StopHeld == wd = "locked" \/ main = "join"

\* Watchdog.mu is taken.
Held == wd = "locked"

WrongCounts(class) == TRUE

\* WatchClient's callback passes on business traffic only.
Counts(class) == class = InboundApp

NoteInbound ==
    /\ Alive /\ inbound # "idle"
    /\ IF wired /\ Counts(inbound) THEN ~ Held /\ silent' = 0
                                   ELSE UNCHANGED silent
    /\ inbound' = "idle"
    /\ UNCHANGED <<mainVars, loopVars, wd, stopVars, initiator, loggedOn, wired,
                   tick, quiet>>

----------------------------------------------------------------------------
(* Watchdog.                                                                *)

Restarting == wd \in {"stop", "build"}

\* The ticker keeps one tick and drops those that find it full.  The goroutine
\* takes a tick before the next one unless it is in Restart.
Clock ==
    /\ Alive
    /\ \/ wd = "select" /\ tick = NoTick
       \/ Restarting /\ tick < MaxStall - 1
    /\ silent' = silent + 1
    /\ tick' = tick + 1
    /\ quiet' = IF quiet < Timeout THEN quiet + 1 ELSE quiet
    /\ UNCHANGED <<mainVars, loopVars, wd, stopVars, sessionVars>>

TakeTick ==
    /\ Alive /\ wd = "select" /\ tick # NoTick
    /\ wd' = "check"
    /\ UNCHANGED <<mainVars, loopVars, stopVars, sessionVars, clockVars>>

Lock ==
    /\ Alive /\ wd = "check" /\ ~ Held
    /\ wd' = "locked"
    /\ UNCHANGED <<mainVars, loopVars, stopVars, sessionVars, clockVars>>

\* The silence is measured at the tick, and a reconnect dates lastApp there.
check ==
    /\ Alive /\ wd = "locked"
    /\ IF silent - tick < Timeout
       THEN wd' = "select" /\ UNCHANGED <<silent, quiet>>
       ELSE wd' = "stop" /\ silent' = tick /\ quiet' = 0
    /\ tick' = NoTick
    /\ UNCHANGED <<mainVars, loopVars, stopVars, sessionVars>>

\* The select finds stopping closed.
Return ==
    /\ Alive /\ wd = "select" /\ closing
    /\ wd' = "gone"
    /\ UNCHANGED <<mainVars, loopVars, stopVars, sessionVars, clockVars>>

----------------------------------------------------------------------------
(* The channel stop, of capacity one, that main and the loop both receive   *)
(* from.                                                                    *)

\* Goroutine g stops waiting on stop.
Leave(g) ==
    \E n \in DOMAIN waiters :
        /\ waiters[n] = g
        /\ waiters' = [i \in 1..(Len(waiters) - 1) |-> waiters[IF i < n THEN i ELSE i + 1]]

\* make(chan os.Signal): a signal nobody is waiting for is dropped.
WrongBuffered == FALSE

Buffered == TRUE

\* signal.Notify never blocks: the first waiter gets the signal, else the
\* buffer, else nobody.
Signal ==
    /\ Alive /\ main \notin {"start", "arm", "spawn"}
    /\ signalled' = TRUE
    /\ IF waiters = << >>
       THEN pending' = Buffered /\ UNCHANGED <<waiters, main, loop>>
       ELSE /\ main' = IF Head(waiters) = "main" THEN Deferred["await"] ELSE main
            /\ loop' = IF Head(waiters) = "loop" THEN "done" ELSE loop
            /\ waiters' = Tail(waiters)
            /\ UNCHANGED pending
    /\ UNCHANGED <<closing, seq, number, placed, wd, sessionVars, clockVars>>

----------------------------------------------------------------------------
(* sendOrders.                                                              *)

\* waitForLogon asks the OrderEntry of the moment.
Poll ==
    /\ Alive /\ loop = "poll" /\ loggedOn
    /\ loop' = "send"
    /\ UNCHANGED <<mainVars, seq, number, placed, wd, stopVars, sessionVars, clockVars>>

\* The select on stop and time.After: a signal already there ends the loop.
Select ==
    /\ Alive
    /\ loop = "rest" \/ (loop = "poll" /\ ~ loggedOn)
    /\ pending' = FALSE
    /\ IF pending THEN loop' = "done" /\ UNCHANGED waiters
                  ELSE /\ loop' = IF loop = "poll" THEN "polling" ELSE "resting"
                       /\ waiters' = Append(waiters, "loop")
    /\ UNCHANGED <<mainVars, seq, number, placed, wd, sessionVars, clockVars>>

After ==
    /\ Alive /\ loop \in {"polling", "resting"}
    /\ loop' = IF loop = "polling" THEN "poll" ELSE "send"
    /\ Leave("loop")
    /\ UNCHANGED <<mainVars, seq, number, placed, wd, pending, sessionVars, clockVars>>

\* Send numbers the order on the OrderEntry of the moment.  Every OrderEntry of
\* the process has the same prefix, so the number is the ClOrdID.
Number ==
    /\ Alive /\ loop = "send" /\ seq < MaxSeq
    /\ seq' = seq + 1
    /\ number' = seq + 1
    /\ loop' = "sendto"
    /\ UNCHANGED <<mainVars, placed, wd, stopVars, sessionVars, clockVars>>

\* SendToTarget goes through the registry: it fails while no Initiator owns the
\* session, and the loop logs that and carries on.
SendToTarget ==
    /\ Alive /\ loop = "sendto"
    /\ placed' = IF initiator = "up"
                 THEN [placed EXCEPT ![number] = IF @ = 0 THEN 1 ELSE 2] ELSE placed
    /\ number' = 0
    /\ loop' = IF Repeats THEN "rest" ELSE "done"
    /\ UNCHANGED <<mainVars, seq, wd, stopVars, sessionVars, clockVars>>

----------------------------------------------------------------------------
(* run.                                                                     *)

\* A failure is fatal: nothing has been deferred yet.
StartSupervisor(ok) ==
    /\ main = "start"
    /\ startLocked(ok)
    /\ main' = IF ok THEN "arm" ELSE "exited"
    /\ UNCHANGED <<closing, signalled, loop, number, placed, wd, stopVars, inbound,
                   loggedOn, clockVars>>

StartWatchdog ==
    /\ main = "arm"
    /\ main' = "spawn"
    /\ wd' = "select"
    /\ silent' = 0 /\ quiet' = 0
    /\ UNCHANGED <<closing, signalled, loopVars, stopVars, sessionVars, tick>>

Spawn ==
    /\ main = "spawn"
    /\ main' = "await"
    /\ loop' = "poll"
    /\ UNCHANGED <<closing, signalled, seq, number, placed, wd, stopVars, sessionVars,
                   clockVars>>

\* <-stop.
Await ==
    /\ main = "await"
    /\ pending' = FALSE
    /\ IF pending THEN main' = Deferred["await"] /\ UNCHANGED waiters
                  ELSE main' = "waiting" /\ waiters' = Append(waiters, "main")
    /\ UNCHANGED <<closing, signalled, loopVars, wd, sessionVars, clockVars>>

\* Watchdog.Stop closes stopping under its lock, and waits for stopped outside.
StopWatchdog ==
    /\ main = "disarm" /\ ~ Held
    /\ main' = "join"
    /\ closing' = TRUE
    /\ UNCHANGED <<signalled, loopVars, wd, stopVars, sessionVars, clockVars>>

Join ==
    /\ main = "join" /\ wd = "gone"
    /\ main' = Deferred["join"]
    /\ UNCHANGED <<closing, signalled, loopVars, wd, stopVars, sessionVars, clockVars>>

StopSupervisor ==
    /\ main = "teardown" /\ ~ Restarting
    /\ stopLocked
    /\ main' = Deferred["teardown"]
    /\ UNCHANGED <<closing, signalled, loopVars, wd, stopVars, inbound, wired, clockVars>>

----------------------------------------------------------------------------
Main     == \/ \E ok \in BOOLEAN : StartSupervisor(ok)
            \/ StartWatchdog \/ Spawn \/ Await \/ StopWatchdog \/ Join \/ StopSupervisor
Watchdog == TakeTick \/ Lock \/ check \/ Return \/ RestartStop
            \/ \E ok \in BOOLEAN : RestartBuild(ok)
Loop     == Poll \/ Select \/ After \/ Number \/ SendToTarget
Session  == OnLogon \/ OnLogout \/ NoteInbound
            \/ \E class \in {InboundApp, InboundAdmin} : Receive(class)

Next == Main \/ Watchdog \/ Loop \/ Session \/ Clock \/ Signal

Spec == Init /\ [][Next]_vars

\* Goroutines run and time passes.  Strong fairness where a step competes with
\* others: Go's mutexes starve nobody, its select picks among ready cases at
\* random, the session's loop takes the stop request the same way, and a build
\* that is tried for ever is assumed to succeed some time.  No Logon, message or signal is assumed.
Fairness ==
    /\ WF_vars(Main) /\ WF_vars(Watchdog) /\ WF_vars(Loop)
    /\ WF_vars(Clock)
    /\ SF_vars(NoteInbound) /\ SF_vars(StopWatchdog)
    /\ SF_vars(Return) /\ SF_vars(RestartStop) /\ SF_vars(StopSupervisor)
    /\ SF_vars(RestartBuild(TRUE))

FairSpec == Spec /\ Fairness

----------------------------------------------------------------------------
\* When run has returned, nothing it started is left: the watchdog cannot
\* bring an Initiator back after the Supervisor was told to stop.
NothingLeftRunning ==
    main = "exited" => initiator = "none" /\ wd \in {"off", "gone"}

\* The watchdog reconnects only after a full Timeout with neither a business
\* message, of the first client or of a rebuilt one, nor an earlier reconnect;
\* a message just handed to NoteInbound may come too late.
QuietBeforeReconnect ==
    [][(wd = "locked" /\ wd' = "stop") => (quiet = Timeout \/ inbound = InboundApp)]_vars

\* A reconnect ends, with a new Initiator or an error: the session whose
\* goroutine Initiator.Stop waits for may be calling Notify just then.
RestartReturns == wd = "stop" ~> wd = "select"

\* Once run has its signal it returns, whatever the watchdog was doing.
ShutdownCompletes == main = "disarm" ~> main = "exited"

\* Watchdog: heartbeats never stop, and do not keep a session alive that has
\* delivered no business message for a Timeout.
StuckSessionIsRestarted ==
    (wd = "select" /\ quiet = Timeout) ~> (quiet < Timeout \/ closing)

\* A Restart that failed left nothing to stop; the watchdog tries again until
\* an Initiator is up.
InitiatorComesBack ==
    (main = "waiting" /\ initiator = "none") ~> (main # "waiting" \/ initiator = "up")

\* A signal ends the sending of orders, even one that arrives when neither
\* goroutine is waiting for it.  (It need not end the process: the loop may be
\* the one that received it.)
SignalStopsTrading == signalled ~> (loop = "done" \/ main = "exited")

----------------------------------------------------------------------------
(* What a comment says of the process and this code does not keep.          *)

\* oe.go on OrderEntry.prefix: "ClOrdID must be unique for the life of the
\* venue's order book, not just for the life of your process".
ClOrdIDsUnique == \A n \in 1..MaxSeq : placed[n] < 2
=============================================================================
