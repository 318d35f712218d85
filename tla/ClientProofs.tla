----------------------------- MODULE ClientProofs -----------------------------
(***************************************************************************)
(* Theorems about the order-entry client process, for any watchdog         *)
(* timeout, number of orders and length of a Restart.                      *)
(***************************************************************************)
EXTENDS ClientProcess, TLAPS

USE TimeoutAssumption, BoundAssumption DEF InboundApp, InboundAdmin, NoTick

----------------------------------------------------------------------------
(* Invariants.                                                              *)

\* Who waits on stop is at the select, or at the receive, that waits.
WaitersInv ==
    waiters \in IF main = "waiting"
                THEN IF loop \in {"polling", "resting"}
                     THEN {<<"main", "loop">>, <<"loop", "main">>} ELSE {<<"main">>}
                ELSE IF loop \in {"polling", "resting"} THEN {<<"loop">>} ELSE {<< >>}

\* The watchdog's goroutine lives from StartWatchdog to Join, and Restart is
\* never left half done.
GoroutineInv ==
    /\ main \in {"start", "arm"} => wd = "off"
    /\ main \in {"start", "arm", "spawn"} => loop = "off"
    /\ main = "start" => initiator = "none"
    /\ main \in {"teardown", "exited"} => wd \in {"off", "gone"}
    /\ main = "exited" => initiator = "none"
    /\ wd = "build" => initiator = "none"
    /\ wd \in {"check", "locked"} => tick # NoTick
    /\ loop = "sendto" => number # 0

\* The client that the engine calls is wired to the watchdog.
WiredInv ==
    /\ initiator = "up" => wired
    /\ inbound # "idle" => initiator = "up"

\* lastApp lags behind the last business message only while NoteInbound is
\* being called; and a tick that waited in the channel was born in a Restart,
\* which has just dated lastApp.
QuietInv ==
    /\ quiet = Timeout \/ inbound = InboundApp \/ silent <= quiet
    /\ Restarting \/ tick > 0 => silent - tick <= 1

Inv == TypeOK /\ WaitersInv /\ GoroutineInv /\ WiredInv /\ QuietInv

LEMMA Waiting ==
  ASSUME NEW g, NEW h
  PROVE  /\ Append(<< >>, g) = <<g>> /\ Append(<<g>>, h) = <<g, h>>
         /\ Tail(<<g>>) = << >> /\ Tail(<<g, h>>) = <<h>>
         /\ Head(<<g>>) = g /\ Head(<<g, h>>) = g
<1>1. ASSUME NEW s \in Seq({g, h}), Len(s) = 2 PROVE s = <<s[1], s[2]>>
  BY <1>1
<1>2. Append(<<g>>, h) \in Seq({g, h}) /\ Len(Append(<<g>>, h)) = 2
      /\ Append(<<g>>, h)[1] = g /\ Append(<<g>>, h)[2] = h
  OBVIOUS
<1>3. Append(<<g>>, h) = <<g, h>>
  BY <1>1, <1>2
<1> QED BY <1>3

LEMMA InitInv == Init => Inv
<1>1. ASSUME Init PROVE TypeOK
  <2>1. /\ placed \in [1..MaxSeq -> 0..2]
        /\ tick \in NoTick..MaxStall
        /\ quiet \in 0..Timeout /\ seq \in 0..MaxSeq /\ number \in 0..MaxSeq
    BY <1>1 DEF Init
  <2>2. waiters \in WaitOrders
    BY <1>1 DEF Init, WaitOrders
  <2> QED BY <1>1, <2>1, <2>2 DEF Init, TypeOK
<1>2. Init => WaitersInv /\ GoroutineInv /\ WiredInv /\ QuietInv
  BY DEF Init, WaitersInv, GoroutineInv, WiredInv, QuietInv, Restarting
<1> QED BY <1>1, <1>2 DEF Inv

----------------------------------------------------------------------------
(* The variables that one goroutine moves.                                  *)

LEMMA Idle == ASSUME Inv, UNCHANGED vars PROVE Inv'
  BY DEF vars, mainVars, loopVars, stopVars, sessionVars, clockVars,
         Inv, TypeOK, WaitersInv, GoroutineInv, WiredInv, QuietInv, Restarting

LEMMA MainStep == ASSUME Inv, Main PROVE Inv'
<1> USE DEF mainVars, loopVars, stopVars, sessionVars, clockVars, Restarting,
            Inv, TypeOK, WaitersInv, GoroutineInv, WiredInv, QuietInv
<1>1. ASSUME NEW ok \in BOOLEAN, StartSupervisor(ok) PROVE Inv'
  <2>1. TypeOK'
    BY <1>1 DEF StartSupervisor, startLocked, Wired
  <2>2. WaitersInv'
    BY <1>1 DEF StartSupervisor, startLocked, Wired
  <2>3. GoroutineInv' /\ WiredInv' /\ QuietInv'
    BY <1>1 DEF StartSupervisor, startLocked, Wired
  <2> QED BY <2>1, <2>2, <2>3
<1>2. CASE StartWatchdog
  BY <1>2 DEF StartWatchdog
<1>3. CASE Spawn
  BY <1>3 DEF Spawn
<1>4. CASE Await
  <2>1. WaitersInv'
    <3>1. CASE pending
      BY <1>4, <3>1 DEF Await, Deferred
    <3>2. CASE ~ pending
      BY <1>4, <3>2, Waiting DEF Await
    <3> QED BY <3>1, <3>2
  <2>2. TypeOK'
    <3>1. /\ main' \in {"disarm", "waiting"} /\ pending' = FALSE
          /\ UNCHANGED <<closing, signalled, loopVars, wd, sessionVars, clockVars>>
      BY ONLY <1>4 DEF Await, Deferred
    <3>2. waiters' \in WaitOrders
      BY ONLY <2>1 DEF WaitersInv, WaitOrders
    <3>3. TypeOK /\ main' \in {"start", "arm", "spawn", "await", "waiting", "disarm", "join",
                               "teardown", "exited"}
      BY ONLY <3>1, TypeOK
    <3>4. /\ UNCHANGED <<loop, wd, inbound, initiator, loggedOn, wired, seq, number>>
          /\ UNCHANGED <<placed, silent, tick, closing, quiet, signalled>>
      BY ONLY <3>1 DEF loopVars, sessionVars, clockVars
    <3>5. pending' \in BOOLEAN
      BY ONLY <3>1
    <3> QED BY ONLY <3>2, <3>3, <3>4, <3>5 DEF TypeOK
  <2>3. GoroutineInv' /\ WiredInv' /\ QuietInv'
    BY <1>4 DEF Await, Deferred
  <2> QED BY <2>1, <2>2, <2>3
<1>5. CASE StopWatchdog
  BY <1>5 DEF StopWatchdog
<1>6. CASE Join
  BY <1>6 DEF Join, Deferred
<1>7. CASE StopSupervisor
  <2>1. TypeOK'
    BY <1>7 DEF StopSupervisor, stopLocked, Deferred
  <2>2. WaitersInv'
    BY <1>7 DEF StopSupervisor, stopLocked, Deferred
  <2>3. GoroutineInv' /\ WiredInv' /\ QuietInv'
    BY <1>7 DEF StopSupervisor, stopLocked, Deferred
  <2> QED BY <2>1, <2>2, <2>3
<1> QED BY <1>1, <1>2, <1>3, <1>4, <1>5, <1>6, <1>7 DEF Main

LEMMA WatchdogStep == ASSUME Inv, Watchdog PROVE Inv'
<1> USE DEF mainVars, loopVars, stopVars, sessionVars, clockVars, Restarting,
            Inv, TypeOK, WaitersInv, GoroutineInv, WiredInv, QuietInv
<1>1. CASE TakeTick
  BY <1>1 DEF TakeTick, Alive
<1>2. CASE Lock
  BY <1>2 DEF Lock, Alive
<1>3. CASE check
  BY <1>3 DEF check, Alive
<1>4. CASE Return
  BY <1>4 DEF Return, Alive
<1>5. CASE RestartStop
  <2>1. WaitersInv'
    BY <1>5 DEF RestartStop, stopLocked, Alive
  <2>2. TypeOK'
    <3>1. /\ wd' = "build" /\ initiator' = "none" /\ ~ loggedOn' /\ loggedOn' \in BOOLEAN
          /\ UNCHANGED <<mainVars, loopVars, pending, inbound, wired, clockVars>>
      BY ONLY <1>5 DEF RestartStop, stopLocked, stopVars
    <3>2. waiters' \in WaitOrders
      BY ONLY <2>1 DEF WaitersInv, WaitOrders
    <3> QED BY ONLY <3>1, <3>2, TypeOK DEF TypeOK, mainVars, loopVars, clockVars
  <2>3. GoroutineInv' /\ WiredInv' /\ QuietInv'
    BY <1>5 DEF RestartStop, stopLocked, Alive
  <2> QED BY <2>1, <2>2, <2>3
<1>6. ASSUME NEW ok \in BOOLEAN, RestartBuild(ok) PROVE Inv'
  BY <1>6 DEF RestartBuild, startLocked, Wired, Alive
<1> QED BY <1>1, <1>2, <1>3, <1>4, <1>5, <1>6 DEF Watchdog

LEMMA LoopStep == ASSUME Inv, Loop PROVE Inv'
<1> USE DEF mainVars, loopVars, stopVars, sessionVars, clockVars, Restarting,
            Inv, TypeOK, WaitersInv, GoroutineInv, WiredInv, QuietInv
<1>1. CASE Poll
  BY <1>1 DEF Poll
<1>2. CASE Select
  <2>1. WaitersInv'
    <3>1. CASE pending
      BY <1>2, <3>1 DEF Select
    <3>2. CASE ~ pending
      BY <1>2, <3>2, Waiting DEF Select
    <3> QED BY <3>1, <3>2
  <2>2. TypeOK'
    <3>1. /\ loop' \in {"done", "polling", "resting"} /\ pending' \in BOOLEAN
          /\ UNCHANGED <<mainVars, seq, number, placed, wd, sessionVars, clockVars>>
      BY ONLY <1>2 DEF Select
    <3>2. waiters' \in WaitOrders
      BY ONLY <2>1 DEF WaitersInv, WaitOrders
    <3> QED BY ONLY <3>1, <3>2, TypeOK DEF TypeOK, mainVars, sessionVars, clockVars
  <2>3. GoroutineInv' /\ WiredInv' /\ QuietInv'
    BY <1>2 DEF Select
  <2> QED BY <2>1, <2>2, <2>3
<1>3. CASE After
  <2>1. PICK n \in DOMAIN waiters :
          /\ waiters[n] = "loop"
          /\ waiters' = [i \in 1..(Len(waiters) - 1) |-> waiters[IF i < n THEN i ELSE i + 1]]
    BY <1>3 DEF After, Leave
  <2>2. WaitersInv'
    <3>1. CASE main = "waiting"
      <4>1. waiters' = <<"main">>
        <5>1. CASE waiters = <<"main", "loop">>
          BY <2>1, <5>1
        <5>2. CASE waiters = <<"loop", "main">>
          BY <2>1, <5>2
        <5> QED BY <1>3, <3>1, <5>1, <5>2 DEF After
      <4> QED BY <1>3, <3>1, <4>1 DEF After
    <3>2. CASE main # "waiting"
      <4>1. waiters = <<"loop">>
        BY <1>3, <3>2 DEF After
      <4>2. waiters' = << >>
        BY <2>1, <4>1
      <4> QED BY <1>3, <3>2, <4>2 DEF After
    <3> QED BY <3>1, <3>2
  <2>3. TypeOK'
    <3>1. /\ loop' \in {"poll", "send"}
          /\ UNCHANGED <<mainVars, seq, number, placed, wd, pending, sessionVars, clockVars>>
      BY ONLY <1>3 DEF After
    <3>2. waiters' \in WaitOrders
      BY ONLY <2>2 DEF WaitersInv, WaitOrders
    <3> QED BY ONLY <3>1, <3>2, TypeOK DEF TypeOK, mainVars, sessionVars, clockVars
  <2>4. GoroutineInv' /\ WiredInv' /\ QuietInv'
    BY <1>3 DEF After
  <2> QED BY <2>2, <2>3, <2>4
<1>4. CASE Number
  BY <1>4 DEF Number
<1>5. CASE SendToTarget
  BY <1>5 DEF SendToTarget
<1> QED BY <1>1, <1>2, <1>3, <1>4, <1>5 DEF Loop

LEMMA SessionStep == ASSUME Inv, Session PROVE Inv'
<1> USE DEF mainVars, loopVars, stopVars, sessionVars, clockVars, Restarting,
            Inv, TypeOK, WaitersInv, GoroutineInv, WiredInv, QuietInv
<1>1. CASE OnLogon
  BY <1>1 DEF OnLogon, Alive
<1>2. CASE OnLogout
  <2>1. /\ loggedOn' = FALSE /\ inbound' = inbound /\ initiator' = initiator
        /\ wired' = wired /\ wd' = wd
        /\ UNCHANGED <<mainVars, loopVars, stopVars, clockVars>>
    BY <1>2 DEF OnLogout
  <2>2. waiters' \in WaitOrders
    BY <2>1
  <2>3. placed' \in [1..MaxSeq -> 0..2]
    BY <2>1
  <2>4. TypeOK'
    <3>1. loggedOn' \in BOOLEAN /\ ~ loggedOn'
      BY <2>1
    <3>2. closing' \in BOOLEAN /\ pending' \in BOOLEAN /\ signalled' \in BOOLEAN /\ wired' \in BOOLEAN
      BY <2>1
    <3>3. tick' \in NoTick..MaxStall /\ silent' \in Nat /\ quiet' \in 0..Timeout
      BY <2>1
    <3> HIDE DEF WaitersInv, GoroutineInv, WiredInv, QuietInv
    <3> QED BY <2>1, <2>2, <2>3, <3>1, <3>2, <3>3
  <2>5. WaitersInv'
    BY <2>1
  <2>6. GoroutineInv' /\ WiredInv' /\ QuietInv'
    BY <2>1
  <2> QED BY <2>4, <2>5, <2>6
<1>3. CASE NoteInbound
  BY <1>3 DEF NoteInbound, Counts, Held
<1>4. ASSUME NEW class \in {InboundApp, InboundAdmin}, Receive(class) PROVE Inv'
  BY <1>4 DEF Receive
<1> QED BY <1>1, <1>2, <1>3, <1>4 DEF Session

LEMMA EnvironmentStep == ASSUME Inv, Clock \/ Signal PROVE Inv'
<1> USE DEF mainVars, loopVars, stopVars, sessionVars, clockVars, Restarting,
            Inv, TypeOK, WaitersInv, GoroutineInv, WiredInv, QuietInv
<1>1. CASE Clock
  BY <1>1 DEF Clock, Alive
<1>2. CASE Signal
  <2>1. WaitersInv'
    <3>1. CASE waiters = << >>
      BY <1>2, <3>1 DEF Signal
    <3>2. ASSUME NEW g \in {"main", "loop"}, waiters # << >>, Head(waiters) = g
          PROVE  /\ main' = IF g = "main" THEN "disarm" ELSE main
                 /\ loop' = IF g = "loop" THEN "done" ELSE loop
                 /\ waiters' = Tail(waiters)
      BY <1>2, <3>2 DEF Signal, Deferred
    <3>3. CASE main = "waiting"
      <4>1. CASE waiters = <<"main", "loop">>
        <5>1. waiters # << >> /\ Head(waiters) = "main" /\ Tail(waiters) = <<"loop">>
          BY <4>1, Waiting
        <5>2. main' = "disarm" /\ loop' = loop /\ waiters' = <<"loop">>
          BY <3>2, <5>1
        <5>3. loop \in {"polling", "resting"}
          BY <3>3, <4>1
        <5> QED BY <5>2, <5>3
      <4>2. CASE waiters = <<"loop", "main">>
        BY <1>2, <3>2, <3>3, <4>2, Waiting
      <4>3. CASE waiters = <<"main">>
        BY <1>2, <3>2, <3>3, <4>3, Waiting
      <4> QED BY <3>3, <4>1, <4>2, <4>3
    <3>4. CASE waiters = <<"loop">>
      BY <1>2, <3>2, <3>4, Waiting
    <3> QED BY <3>1, <3>3, <3>4
  <2>2. TypeOK'
    <3>1. /\ main' \in {main, "disarm"} /\ loop' \in {loop, "done"}
          /\ pending' \in BOOLEAN /\ signalled' \in BOOLEAN
      BY <1>2 DEF Signal, Deferred, Buffered
    <3>2. waiters' \in WaitOrders
      BY ONLY <2>1 DEF WaitersInv, WaitOrders
    <3>3. placed' \in [1..MaxSeq -> 0..2]
      BY <1>2 DEF Signal
    <3> HIDE DEF WaitersInv, GoroutineInv, WiredInv, QuietInv
    <3> QED BY <1>2, <3>1, <3>2, <3>3 DEF Signal
  <2>3. GoroutineInv' /\ WiredInv' /\ QuietInv'
    BY <1>2 DEF Signal, Deferred, Buffered
  <2> QED BY <2>1, <2>2, <2>3
<1> QED BY <1>1, <1>2

LEMMA Invariance == Spec => []Inv
<1>1. Inv /\ [Next]_vars => Inv'
  BY Idle, MainStep, WatchdogStep, LoopStep, SessionStep, EnvironmentStep DEF Next
<1> QED BY InitInv, <1>1, PTL DEF Spec

----------------------------------------------------------------------------
(* Theorems.                                                                *)

\* The goroutines stay in their control flow: a queue of waiters holds those
\* that wait, and a session that is logged on has an Initiator.
THEOREM Typing == Spec => []TypeOK
<1>1. Inv => TypeOK
  BY DEF Inv
<1> QED BY <1>1, Invariance, PTL

\* When run has returned nothing it started is left, wherever the signal found
\* the watchdog.
THEOREM Teardown == Spec => []NothingLeftRunning
<1>1. Inv => NothingLeftRunning
  BY DEF Inv, GoroutineInv, NothingLeftRunning
<1> QED BY <1>1, Invariance, PTL

\* The watchdog reconnects only after a full Timeout of silence, whatever
\* Timeout is and however late its ticks are.
THEOREM Patience == Spec => QuietBeforeReconnect
<1>1. Inv /\ [Next]_vars =>
        [(wd = "locked" /\ wd' = "stop") => (quiet = Timeout \/ inbound = InboundApp)]_vars
  <2> SUFFICES ASSUME Inv, Next, wd = "locked", wd' = "stop"
               PROVE  quiet = Timeout \/ inbound = InboundApp
    OBVIOUS
  <2>1. check
    BY DEF Next, Main, StartSupervisor, StartWatchdog, Spawn, Await, StopWatchdog, Join,
           StopSupervisor, Watchdog, TakeTick, Lock, Return, RestartStop, RestartBuild,
           Loop, Poll, Select, After, Number, SendToTarget, Session, OnLogon, OnLogout,
           NoteInbound, Receive, Clock, Signal
  <2>2. silent - tick >= Timeout /\ tick >= 0
    BY <2>1 DEF check, Inv, TypeOK, GoroutineInv
  <2> QED BY <2>2 DEF Inv, TypeOK, QuietInv
<1> QED BY <1>1, Invariance, PTL DEF Spec, QuietBeforeReconnect
=============================================================================
