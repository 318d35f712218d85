# TLA+ models of fix-session-lab

fix-session-lab is a small FIX 4.4 venue and two clients, built on quickfixgo.
This directory models the parts that carry its own logic: the order book and
the fanout of execution reports, cancel on disconnect, the client process with
its watchdog, a session's messages from the sender's store to the reader's
memory through drops and gaps, the Logon, who answers what with a reject, and
the pure functions (AvgPx, password masking, settings). TLC checks the models on
small instances; TLAPS proves, for every value of the constants, the safety
properties of the venue, of a session, of the Logon and the rejects, of the
client process and of the pure functions, and that the venue and the session
implement what they promise their readers.

    tlc -config recovery.cfg MCWire      # model-check one run
    tlapm WireProofs.tla                 # check the proofs of one module

The cfg is named after the run; PROJECT.json names the module of each.

## 1. The system

| Part | Code | State | Operations |
|---|---|---|---|
| Order book | `internal/exchange/book.go`, `const.go` | orders by ClOrdID, insertion order, two counters; `Book.mu` | Insert, Get, Update, OpenDayOrders, NextExecID |
| Exchange application | `internal/exchange/exchange.go`, `reports.go`, `commands.go` | loggedOn, cod, seqnums, expect, rejectLogons, silenced; `App.mu` | engine callbacks, publish, Fill, Partial, Cancel, Reject, CancelAllOpenDay, switches |
| Cancel on disconnect | `reports.go:181-228` | one `time.AfterFunc` goroutine per disconnect | wait the window, look at loggedOn, cancel |
| Admin control plane | `internal/admin/admin.go` | none of its own | one goroutine per HTTP request calls one command |
| Client session layer | `internal/session/client.go`, `logon.go` | loggedOn, callbacks, credentials | OnLogon, OnLogout, NoteInbound, InjectLogon |
| Supervisor | `internal/session/supervisor.go` | the current Initiator; `Supervisor.mu` | Start, Stop, Restart |
| Watchdog | `internal/session/watchdog.go` | lastApp, stopping, stopped; `Watchdog.mu` | Start, Notify, check, Stop |
| oe-client process | `cmd/oe-client/main.go` | atomic pointer to the OrderEntry, the channel `stop` | run, build, sendOrders, waitForLogon |
| Order-entry client | `internal/client/oe.go` | ClOrdID counter, order view, replay count | Send, FromApp |
| Drop-copy client | `internal/client/dc.go`, `cmd/dc-client/main.go` | seen ExecIDs, reports | FromApp |
| Settings, redaction | `session/settings.go`, `fixlog/redact.go` | none | pure functions |
| quickfixgo (external) | go.mod | sequence numbers, message stores, sockets | callbacks, SendToTarget, Initiator.Stop |

How they interact. The engine calls the venue's `App` from one goroutine per
session; HTTP goroutines call its commands; AfterFunc goroutines call
`CancelAllOpenDay`. All three meet in `Book.mu`, `App.mu` and `publish`, which
sends each report on the order-entry and then on the drop-copy session. On the
client's side the engine calls `Client` and `OrderEntry`; the watchdog's
goroutine calls `Supervisor.Restart`, which stops the Initiator (waiting for the
session's goroutine), builds a new `OrderEntry` and a new Initiator; the send
loop reads the current `OrderEntry` through an atomic pointer; main waits for a
signal on a channel the send loop listens to as well.

What is hard. No lock spans an update of the book and the report that tells of
it. Timers outlive the disconnect they belong to. The book and its counters die
with the exchange process while the FIX session and its message store go on.
The watchdog restarts the very goroutine that notifies it. Shutdown meets a
restart half-way. A replay mixes with live messages, and a process may die
between reading a message and counting it. Each side can reject what the other
sends, rejects included. PROJECT.json lists these hazards at the lines where they bite.

What makes each part correct:

- *book*: a status that agrees with the quantities, closed orders stay closed;
- *fanout*: one event, one ExecID, the same report on both feeds, nothing lost
  because a session is down;
- *cancel on disconnect*: who is gone loses its day orders, who came back in
  time does not, good-till orders survive;
- *watchdog and supervisor*: a silent session is replaced, a lively one is not,
  nobody waits for ever, and nothing survives the shutdown;
- *session*: whatever was sent reaches the reader once and in order, whatever
  becomes of the connection; a replay moves no order view back and makes no
  duplicate;
- *clients*: ClOrdIDs are unique; the drop copy answers nothing it can read;
- *Logon*: what the flags ask for is what the venue arms;
- *rejects*: a message is answered at most once for each time it is read, no
  answer is answered;
- *pure functions*: AvgPx is the average, exactly the passwords are masked, a
  client dials where it was told to.

## 2. Modules

| Module | Models | State and actions |
|---|---|---|
| `Orders` | OrderState and the guards and effects on one order | pure operators (`IsOpen`, `LeavesQty`, `MayTrade`, `Traded`, `OpenDayOrders`) |
| `Venue` | book, application, commands, COD timers | `book`, `orderSeq`, `execSeq` under Book.mu; `silenced`, `rejectLogons`, `loggedOn`, `cod` under App.mu; `sent`, the message store of each session; `pc` and local variables of every goroutine |
| `ReportFeed` | what the venue promises a reader: an append-only log per session, one copy of each issued report | `Issue`, `Post` |
| `VenueFeed` | the refinement mapping from `Venue` to `ReportFeed` | a report is issued when it takes its ExecID, posted by each SendToTarget |
| `Wire` | one direction of a session: `publish` or `Send`, `AdvanceSeqNum`, the engines, and the reader: `OrderEntry`, `DropCopy` or the book | `counter` (execSeq or seq), `stored` (message store by MsgSeqNum), `net`, `asked`, `replay` (the connection), `next`, `resendEnd`, `stash`, `reading` (the receiving engine), `mem` (the application) |
| `Delivery` | what a session promises a reader: a log, handed over once and in order | `Post`, `Hand`, `NewLife` |
| `Handshake` | InjectLogon, ParseLogon, checkPassword, LoadKinds, the reject-logon switch | `env` and `expect` (passwords), `creds`, `line` (the Logon under way), `loggedOn`, `cod` |
| `Dialogue` | both FromApp handlers, the silenced branch of `publish` and the engines' automatic rejects, on a session that `Handshake` brings up | `toVenue`, `toClient`, `book`, `silenced`; `reading`, the message each side has and its engine has not counted: a kill hands it over again; `sent`, what became of every message |
| `Decimals` | quotients and rounding of decimal.Decimal | operators |
| `Fills` | CumQty and AvgPx over a series of fills, and AvgPx in a report | operators |
| `Redact` | `Redact` by turns of its loop (`Turn`), `isSecret`, `atoiStrict` with an int that wraps at `Modulus`; the reference definition splits a message into fields first | operators |
| `Settings` | OverrideConnectHost, SoleSession, and the order in which each client calls them | operators |
| `MCVenue`, `MCVenueFeed`, `MCWire` | values for TLC (Logon inputs, gaps, symmetry) | |
| `MCAlgorithms` | `Fills`, `Redact` and `Settings` over inputs that grow step by step, and their properties | |
| `VenueProofs` | inductive invariant of the book; the kinds of step the venue takes | |
| `FeedProofs` | inductive invariant of the fanout, and the refinement of `ReportFeed` | |
| `OrderProofs` | an order's life cycle, the two halves of a fill, the grace of a timer, good-till orders | |
| `AccountProofs` | what the reports add up to | |
| `DialogueProofs` | the Logon, and who answers what | |
| `ClientProofs` | the goroutines of oe-client | |
| `AlgorithmProofs` | AvgPx over any series of fills, what a client dials, and what of any message is masked | |
| `WireProofs` | the session and its readers, and the refinement of `Delivery` | |
| `ClientProcess` | oe-client's main, send loop, watchdog goroutine, and the engine's goroutine of the current session | `initiator` (Supervisor.current), `loggedOn`, `wired`, `seq`, `silent` (lastApp), `tick` (the ticker's channel), `closing` (stopping), `pending` and `waiters` (the channel stop) |

Atomicity in `Venue`. A step is one critical section of `Book.mu` or `App.mu`
or one `SendToTarget`, with the goroutine's local work before the next one.
`publish` is therefore four steps (read `silenced`, take the ExecID, send,
send), `Fill` two (snapshot, trade) and `CancelAllOpenDay` one for the snapshot
and five for each order. The acknowledgement of a new order copies `*o` without
a lock while handlers may write it: `CopyStatus` and `CopyCumQty` read its two
relevant fields one at a time in either order, which gives every outcome the
data race can produce for the fields kept.

Atomicity in `ClientProcess`. A step is a critical section of `Watchdog.mu`, a
channel operation, or a call of the engine. `Watchdog.mu` is held over two
steps of `check`, so that a callback can be seen waiting for it.
`Supervisor.mu` needs no variable: after Start only Restart and Stop take it,
and it is held exactly while the watchdog is in `stop` or `build`.

Atomicity in `Wire`. A step is what one engine or application does with one
message. `FromApp` and the count of its message are two, since quickfix counts
after the callback returns: a kill in between hands the message over again.
The engine is not part of the repository; its steps follow the configuration
files (ResetOnLogon=N, PersistMessages=Y, MaxMessagesInResendRequest never
reached), the traces of drills 06 to 08 and what `src` relies on, and their
"map" entries are external. Where versions of the engine differ (is a message
above the expected number kept for later or left to the replay?) the model
allows both.

Atomicity in `Dialogue`. Reading a message and answering it is one step: the
engine does both on the session's goroutine, and `silenced` is read once for an
answer. The count of the message is a step of its own, as in `Wire`: whoever is
killed before it reads the message again when it is back, the venue with an
empty book. Its lines lose nothing over
disconnects, which is what `ImplementsDelivery` shows of `Wire`. A decision the
handlers take case by case is written as nested IFs: in TLA+ a CASE whose guards
overlap is not bound to take the first that holds, as Go's switch is. The Logon's
two OnLogon callbacks are one step with the venue's FromAdmin, since nothing is
sent on a session before both.

What stays out, and why it may:

- Prices, symbols and texts decide no branch of the modelled handlers.
  Quantities are decimals: integers in steps of which `PerShare` make a share,
  rounded where a report shows them (`ShownQty`).
- In `Venue` the engine's store is a sequence per session. Whether and when a
  stored report crosses the wire is `Wire`'s subject.
- A Logon arrives only while the session is down (the engine admits one
  connection per session).
- `ClientProcess` is the process run with `-watchdog`; without it there is no
  second goroutine to race the loop. A signal before `signal.Notify` kills the
  process, which is not modelled. Go's FIFO order of blocked receivers is.
- `Active` is nil in oe-client, the only program with a watchdog.

Some modules contain, just before a definition, another one with the same
parameters that nothing uses (`WrongSend`, `StaleTrade`, ...). They are slips
the code could have had; PROJECT.json pairs each with the property that a run
then finds violated:

| Slip | Instead of | Breaks |
|---|---|---|
| `WrongNewOrder`: no status set by Insert | `NewOrder` | `TypeOK` |
| `WrongMayTrade`: leaves not compared | `MayTrade` | `BookConsistent`, `FillFillsOrRefuses` |
| `ClosedMayTrade`: status not looked at | `MayTrade` | `OrderLifecycle` |
| `WrongTraded`: CumQty assigned, not added | `Traded` | `TradesAddUp` |
| `StaleTrade`: the report shows the order before the trade | `Trade` | `BookIsReported` |
| `WrongShownQty`: quantities cut, not rounded | `ShownQty` | `BookIsReported` |
| `WrongIsDay`: every order is a day order | `IsDay` | `GoodTillSurvives` |
| `WrongNextExecID`: the counter stays | `NextExecID` | `ExecIDIdentity` |
| `RenumberingSend`: an ExecID per session | `Send` | `ImplementsReportFeed` |
| `WrongSend`: nothing stored for a session that is down | `Send` | `EveryReportArrives` |
| `RecheckingSend`: silenced looked at per session | `Send` | `FanoutComplete` |
| `WrongArmed`: mode 1 only | `Armed` | `ExposureIsRemoved` |
| `WrongStandsDown`: the timer does not look | `StandsDown` | `GraceHonoured` |
| `WrongStopLocked`: stopping leaves the client logged on | `stopLocked` | `TypeOK` |
| `WrongWired`: the watchdog made after the first client | `Wired` | `QuietBeforeReconnect` |
| `WrongDeferred`: the Supervisor stopped first | `Deferred` | `NothingLeftRunning` |
| `WrongHeld`: Watchdog.mu held over Restart | `Held` | `RestartReturns` |
| `StopHeld`: Watchdog.mu held while Stop waits | `Held` | `ShutdownCompletes` |
| `WrongCounts`: heartbeats counted | `Counts` | `StuckSessionIsRestarted` |
| `WrongRestartStop`: no restart when nothing runs | `RestartStop` | `InitiatorComesBack` |
| `WrongBuffered`: an unbuffered signal channel | `Buffered` | `SignalStopsTrading` |
| `LateNumber`: a number read before it is counted up | `Number` | `Wire`'s `TypeOK` |
| `ResettingLogon`: ResetOnLogon=Y | `Logon` | `ImplementsDelivery` |
| `AnyAdvance`: a gap of -1 is made | `MayAdvance` | `NeverTooLow` |
| `SkippingReport`: a replayed report is taken for a known one | `ViewReport` | `ViewIsLatest` |
| `SeenOrder`: deduplication by order, not by ExecID | `Seen` | `CopyIsComplete` |
| `NeverReplayed`: PossDupFlag not read | `Replayed` | `HistoryIsFlagged` |
| `ShortGapFill`: NewSeqNo one too small | `GapFill` | `Recovers` |
| `HastyInjectLogon`: no password, no COD fields | `InjectLogon` | `ArmedAsAsked` |
| `RereadPassword`: the environment read at every Logon | `checkPassword` | `VenueJudgesAlike` |
| `UncheckedFromApp`: any message is an order | `VenueFromApp` | `Dialogue`'s `TypeOK` |
| `StormyOrderEntryFromApp`: rejects are rejected | `OrderEntryFromApp` | `AnsweredOnce` |
| `RejectInvalidEverywhere`: RejectInvalidMessage=Y for the drop copy too | `RejectInvalidMessage` | `DropCopyIsSilent` |
| `RejectingDropCopyFromApp`: unknown types rejected | `DropCopyFromApp` | `FallsSilent` |
| `MiddlePrice`: fills not weighted | `Fills!Trade` | `AvgPxIsTheAverage` |
| `PerFill`: divided by this fill's quantity | `Fills!Trade` | `AvgPxIsWithinPrices` |
| `RedactFieldAtLast`: the tag ends at the last '=' | `RedactField` | `SecretsAreHidden` |
| `LenientIsSecret`: bytes that are no digits skipped | `isSecret` | `OnlySecretsAreHidden` |
| `OverrideClones`: the host written to a clone | `OverrideConnectHost` | `DialsAsTold` |

Two of these are bugs the repository tells of having had: `OverrideClones`
(`settings.go:25-30`) and `StormyOrderEntryFromApp` (`oe.go:116-126`).

## 3. Runs that pass

| Run | Asks | Bounds and why they are enough |
|---|---|---|
| `trading` | Does the book stay consistent, do the two feeds carry exactly what happened, do the reports show it when quantities are fractions, and does `Venue` implement `ReportFeed`? | One order, of nothing, of a share and three quarters or of two, two requests at once of every kind (fill, partial fill of one share, cancel, reject, mass cancel), silencing at any time; order entry comes and goes, the drop copy is stored for a session that is down. Every race is between two actors on one order; these quantities allow a partial fill, two that complete the order, one too many, and a fill that is rounded where `BookIsReported` must still hold. Partial fills are of whole shares, which is what `TradesAddUp` asks for. |
| `disconnect` | Who does cancel on disconnect spare, and who must lose its orders? Does every report arrive? | One order, day or good-till; modes 0, 1 with no window and 3 with a window of one tick, so that a tick can come before or after every other step, and logouts and drops, so that mode 1 covers one ending and mode 3 both; two timers, so that a second disconnect meets the timer of the first; Logons refused now and then. `MaxExecID` only bounds the reports the property follows. |
| `client` | What may a reconnect and a shutdown never do, and can the process block itself? | Timeout of 3 ticks, a Restart of up to 2, one order per OrderEntry. Time, restarts and signals are unbounded. |
| `recovery` | Does every message reach its reader once and in order, and is what the reader keeps right, through drops, gaps, kills and rebuilds? | Five sequence numbers for posts, gaps and Logons (heartbeats that show a loss come on top): two Logons, a gap and two items, or one Logon and four items with a drop among them. Two orders for the order view, one where orders are not told apart. |
| `dialogue` | Does the venue arm what the flags ask for and judge a password as it did before; do the sides stop answering each other, is every message answered, and what does a drop copy say? | One password or none on either side, changed at any time; COD off or mode 1; venue and client restarts, lost and refused Logons. Two messages that are not answers, of every type and flaw, and all their answers: the second order may repeat the first one's ClOrdID. Or one message that is handed over twice (`Room`), since a kill can come between FromApp and the count; what becomes of one message depends on another only through the book, which a kill of the venue empties. The venue is silenced at any time. Answers are followed to the third in a row: the storm is endless, and a third already breaks `AnsweredOnce`. |
| `algorithms` | Are AvgPx, Redact and the choice of what to dial what they should be? | Four fills at four prices (one negative, one zero) and averages kept to a tenth of a tick, so that nearly every quotient is cut. Messages of six bytes over the delimiter, '=', the digits of 96 and 554 and a letter; integers of 10 bits, so that the tag 4650 wraps to 554 as a tag of twenty digits may in 64 bits. Files with up to two sessions, with and without a host of their own. |

`Venue` has finitely many reachable states for each instance without a counter
bound: an order closes after finitely many trades, and only reports create
ExecIDs. Where sessions may flap for ever (`disconnect`) nothing
counts the disconnects. Symmetry of orders, handlers and timers is used only in
the run without liveness (`trading`).

`ClientProcess` bounds the ClOrdIDs one OrderEntry hands out (`MaxSeq`: the
loop then stays where it is, and the watchdog's rebuild starts it again at 0)
and the ticks a Restart may take (`MaxStall`). A tick is the watchdog's
Interval; outside Restart its goroutine takes a tick before the next comes.
Deadlock is not checked there: the process ends.

Fairness. `Venue!Fairness` is weak fairness of what a goroutine does once
something has started it, and of the clock: the Go scheduler runs every ready
goroutine, and the critical sections are short and never wait for each other.
No request, order, Logon or disconnect is ever assumed. `ClientProcess!Fairness`
adds strong fairness where a step competes with others again and again: Go's
mutexes starve no waiter, its select chooses among ready cases at random, the
engine's session loop takes the stop request the same way. `Wire!FairSpec` is weak fairness of each engine in
what it is in the middle of (answering a ResendRequest, reading what has
arrived) and of the heartbeat that shows a receiver it has missed something;
both are loops on the session's goroutine. `Recovers` asks nothing of a
connection that ends. `Dialogue` has weak fairness of either side reading what has
arrived and in counting it, while nobody need send, log on or stay. One assumption is
about the world: a rebuild that is tried for ever succeeds some time
(`SF_vars(RestartBuild(TRUE))`); without it nothing can bring a client back.

## 4. Runs that find a counterexample

Each states what a comment, a drill or a flag's help says, and finds an
execution of the code that does otherwise. PROJECT.json quotes the lines.

| Run | Property | What happens |
|---|---|---|
| `cod_mode` | `ModeCoversEnding` | The timer starts for mode 1 on a logout, as it does for mode 2 on a dropped connection: OnLogout compares the mode with 0 only. |
| `race_fanout` | `FanoutInOrder` | Two requests trade one order; the second one's report is sent first. A client that keeps the last report ends with the older state. |
| `race_masscancel` | `ClosedIsFinal` | The mass cancel takes its snapshot, the order fills, the mass cancel sets it to cancelled. |
| `cod_flapping` | `ReconnectAborts` | Disconnect, reconnect in time, disconnect again: the first timer finds the session off and cancels at once. |
| `clordid_reuse` | `ClOrdIDsUnique` | The watchdog rebuilds the client; the new OrderEntry counts from 1 under the same prefix. |
| `dropcopy_restart` | `EveryReportIsKept` | The exchange restarts and issues EXE000001 again on the same session; the drop copy takes the report of the new event for a duplicate. |

Seven more disagreements have a cfg each, outside the runs; TLC finds a
counterexample to each in the same way:

| cfg (module) | Property | What happens |
|---|---|---|
| `fraction_sums` (`MCVenue`) | `LastQtyIsTheIncrement` | Two fills of half a share: each report shows LastQty 1, the order has traded one share. Drill 04 calls LastQty the increment. |
| `dropcopy_reject` (`Dialogue`) | `DropCopyNeverRejects` | A report lacks a field, RejectInvalidMessage=N lets it through, FromApp returns the error and the engine answers it. This venue sends every field; drill 11 speaks of venues in general. |
| `reject_rejected` (`Dialogue`) | `NoRejectIsRejected` | That reject reaches the venue, whose branch for the drop-copy session comes first: it is answered with another. `exchange.go:283` says "Never reject a reject". The client's silence ends it there. |
| `rebuilt_view` (`MCWire`) | `ViewIsRebuilt` | The client has read a report; the watchdog rebuilds it; the engine goes on at the next number, nothing is replayed, and the new order view stays empty, though `main.go:109-111` has a client rebuild it from the replay. |
| `cod_dropcopy` (`MCVenue`) | `DropCopyCODDoesNothing` | A drop-copy session armed COD and drops: the order-entry client's orders are cancelled, though drill 10 says that "COD on it does nothing". dc-client never arms it. |
| `ack_race` (`MCVenue`) | `AckShowsNew` | A request trades the order between Insert and the copy in its acknowledgement. |
| `restart` (`MCVenue`) | `ExecIDsNeverRepeat` | The venue's half of `dropcopy_restart`. |

Smaller ones have no run, since a property would only restate a line or two:
`POST /admin/cancel-all` publishes 378=100, which `const.go:31-33` reserves for a
lost session; and `check` dates `lastApp` before `Restart` begins, so the time a
rebuild takes is deducted from the "full timeout" (`watchdog.go:144`) of the new
session.

## 5. Proofs

Every safety invariant and action property that a passing run checks is a
theorem, for every value of the constants.

| Theorem | Property | Rests on |
|---|---|---|
| `VenueProofs!Typing`, `Consistency` | `TypeOK`, `BookConsistent` | `Inv` |
| `FeedProofs!Identity`, `Fanout`, `Refinement` | `ExecIDIdentity`, `FanoutComplete`, `ImplementsReportFeed` | `Inv`, `FeedInv` |
| `OrderProofs!Lifecycle` | `OrderLifecycle` | `Inv` |
| `OrderProofs!FillCompletes` | `FillFillsOrRefuses` | `Inv`, `WantInv` |
| `OrderProofs!Grace` | `GraceHonoured` | `Inv`, `GraceInv` |
| `OrderProofs!GoodTill` | `GoodTillSurvives` | `Inv`, `GoodTillInv` |
| `AccountProofs!Accounting` | `TradesAddUp` | `FeedInv`, `WantInv`, `WholeInv`, `AccountInv`, `ToldInv` |
| `AccountProofs!Reported` | `BookIsReported` | `FeedInv`, `ReportedInv` |
| `DialogueProofs!Arming`, `Judging` | `ArmedAsAsked`, `VenueJudgesAlike` | `HandshakeInv` |
| `DialogueProofs!Typing`, `Answers`, `DropCopySilence` | `TypeOK`, `AnsweredOnce`, `DropCopyIsSilent` | `HandshakeInv`, `DialogueInv` |
| `ClientProofs!Typing`, `Teardown`, `Patience` | `TypeOK`, `NothingLeftRunning`, `QuietBeforeReconnect` | `Inv` |
| `WireProofs!Typing`, `InSequence`, `View`, `Copy`, `History`, `Refinement` | `TypeOK`, `NeverTooLow`, `ViewIsLatest`, `CopyIsComplete`, `HistoryIsFlagged`, `ImplementsDelivery` | `Inv` |
| `AlgorithmProofs!Average`, `PriceRange`, `Dialling` | `AvgPxIsTheAverage`, `AvgPxIsWithinPrices`, `DialsAsTold` | `InputInv` |
| `AlgorithmProofs!Hiding`, `OnlyHiding` | `SecretsAreHidden`, `OnlySecretsAreHidden` | `InputInv`, `Secrets`, `OnScreen` |

**Assumptions.** The named assumptions on the constants: in `Venue`, goroutine
sets are disjoint, quantities are integers and some number of them makes a
share, Logon inputs are Logon requests; in
`Wire`, gaps are integers and readers are among the three; in `Handshake`,
`Dialogue` and `ClientProcess`, that bounds are natural numbers and inputs have
their types; in `Fills` and `MCAlgorithms`, that averages are kept to some whole
number of steps, that quantities are positive (Partial refuses others), that a
message is made of bytes and that a settings file has finitely many sessions; in
`Redact`, that an int holds the secret tags. No other set need be finite, and no
bound small. All theorems rest on
`Send` and `Post`, the model of quickfix's SendToTarget: a message is stored
whether or not the session is connected, and storing does not fail.

**The book** (`VenueProofs`). `BookConsistent` is not inductive by itself:
`FillTrade` trades a quantity read earlier, so `Inv` must know that this
quantity is positive and belongs to a ClOrdID (`LocalsOK`: what each control
point implies for the goroutine's local variables). The module ends with
`StepKinds`: for the book and the reports, a step is a trade, a close, a new
order, one stage of the acknowledgement or of `publish`, or nothing. The
modules built on it argue by these kinds and not by the single actions.

**The fanout** (`FeedProofs`). What makes a posted number unique is that the
goroutines about to post hold different ones. `FeedInv` adds that every number
in use is at most `execSeq`, that goroutines in the fanout hold different
numbers (`Numbered`), and that a report about to be sent is new on the session
it is about to be sent on (`Fresh`).

**Orders** (`OrderProofs`). Each property needs what a goroutine remembers to
be still true when it acts. `WantInv`: leaves only shrink, so a quantity read
by `Fill` is never below what is left, and the trade completes the order or is
refused. `GraceInv`: a timer marked as spared is waiting and its session up, so
its look at loggedOn cancels nothing. `GoodTillInv`: the snapshot of a mass
cancel, the reports on their way and those sent are about day orders, and
TimeInForce never changes (`StepAges`).

**Accounts** (`AccountProofs`). `TradesAddUp` counts reports wherever they are,
with the goroutine that made them or sent. `AccountInv` says that no two of
these are of one unit and none is of more than the book shows as traded; `ToldInv` that a
unit with no report betrays itself as a hole in the numbers, and holes stay
(`HolesStay`: a number taken and dropped is never taken again). All this is
about what reports show. `WholeInv` says that with partial fills in whole shares
an order that may still trade has traded whole shares: only the trade that fills
it can be of a fraction, which `WantInv` shows of the second half of a fill. A
trade after whole shares moves the CumQty shown by the LastQty it shows
(`ShownSum`); after a fraction the statement is false, which `fraction_sums`
shows. `ReportedInv` is the same argument for where an order
stands, and needs no whole shares: rounding takes at most half a share
(`ShownNear`).

**Logon and rejects** (`DialogueProofs`). `ArmedAsAsked` is inductive with the
Logon under way (`LogonInv`: it asks for what the running client was started
with, since a client with a Logon out is not replaced). `AnsweredOnce` follows
from what each side can be handed (`DialogueInv`). `MailInv`: it is what the
other began with, an answer of a type its reader takes in silence, or, between
a drop copy and the venue, the reject of a broken report and the venue's answer
to that; and of what a side began with, nothing is waiting or being read twice.
`SentInv` counts with it: the answers to a message are at most its readings,
one more than its redeliveries once it is read. This is the storm the code has
to avoid: but for that one reject, an answer that its reader would answer is in
no reachable queue. `DropCopyIsSilent` is the same invariant: what the client's
side of a drop-copy session answers is a broken report.

**oe-client** (`ClientProofs`). `GoroutineInv` relates the control points of
main, watchdog and loop; `WaitersInv` says who can be blocked on the channel
`stop`, and `WiredInv` that the client the engine calls is the one the watchdog
knows. `QuietBeforeReconnect` needs `QuietInv`: `lastApp` is never older than
the last business message except while `NoteInbound` is being called, and a
tick that waited in the ticker's channel was born in a Restart, whose end has
just dated `lastApp`. Without the second part a late tick could tear down a
fresh session.

**The session** (`WireProofs`). The proof has three layers.

- *Numbers.* `SessionInv` and `LineOK`: every message on the line or kept
  agrees with the store at its number, or fills over numbers that hold no item
  and do not end beyond the store; an unflagged one is above the number
  expected and above all that precede it. One lemma for each step of an engine.
- *Kinds of step* (`Steps`). Each step posts one item, leaves items and memory
  alone, hands over the item at `next`, or forgets (a rebuild, a kill).
- *Items.* The k-th item of the store is the one with k - 1 items below it;
  `Ranking`, `Finding`, `Placing` and `Counting` say that this lists the items
  in order, without gaps, and that growing the store by an item appends it.
  `ItemInv`: the sender's numbers rise with the store's. `MemoryInv`: the order
  view is the latest of the items from `first` to `Handed`, and what the drop
  copy or the book keeps is exactly these, in order.

`Refinement` reads off the kinds: a post is `Delivery`'s `Post`, a hand-over its
`Hand`, forgetting its `NewLife`, and everything else a stutter. `Items` counts
with Cardinality, and a model of it by SelectSeq (to the prover an operator
without properties) agrees with it on every state of `recovery`.

**AvgPx** (`AlgorithmProofs`). `Executed` and `Total` are recursive functions;
that they exist, and what they compute for every series of fills, is proved by
induction on the length, which comes down to a set of numbers having a least
one (`Least`, `Upwards`, `Iteration`: the steps are data, a function, so that no
operator need be passed). One fill adds at most half a step at the quantity
reached (`TradeError`), and a rounded quotient stays between whole bounds
(`Within`), so neither the kept average nor the one shown leaves the prices.

**Redaction** (`AlgorithmProofs`). The proof has three layers, for messages and
ints of any length.

- *Tags.* The loop of atoiStrict, without the wrap, is `Value`. What
  the first digits of a tag spell is no larger than what all do (`Growing`), so a
  number below `Modulus` is found without a wrap (`NoWrap`); and `Value` is 96 or 554 exactly for tags spelled so, after
  any number of zeros (`SecretNumbers`). Together: `isSecret` knows every secret
  tag, and no other that fits an int (`Secrets`).
- *Fields.* The tag is what precedes the first '=' (`Tagging`), so `RedactField`
  masks a field exactly when `isSecret` knows its tag (`FieldShown`).
- *The loop.* The reference definition finds the fields by counting delimiters:
  consecutive ones have consecutive ranks, and every rank up to their number is
  taken (`NextRank`, `EndOfRank`, `Ranked`). A turn goes from a delimiter to the
  next (`Turning`), and what the loop has written at a delimiter is the screen up to
  that field (`Writing`); as each turn gets past a byte at least, Len(raw) turns
  reach the end (`Redacting`). A delimiter that ends the message is the case apart:
  the loop stops before the empty field after it, which shows as nothing.

**Only model-checked.** Liveness (`ExposureIsRemoved`, `EveryReportArrives`,
`RestartReturns`, `ShutdownCompletes`, `StuckSessionIsRestarted`,
`InitiatorComesBack`, `SignalStopsTrading`, `Recovers`, `FallsSilent`): fairness
and ENABLED are out of the prover's reach. No module uses a RECURSIVE operator.

## 6. Not modelled

- The observed numbers (`noteSent`, `noteReceived`, `SeqNums`): only
  `GET /admin/sessions` shows them, nothing decides by them.
- The data race of `AdvanceSeqNum` with the session's goroutine: its comment
  limits the call to quiet sessions, and the model calls it while disconnected.
- quickfixgo itself, sockets, HTTP, the file store's own recovery after a kill
  in the middle of a write, scheduled session times (the configuration has none).
- oe-client without a watchdog, parsing of flags and query parameters,
  `Book.All` and the other read-only routes, the drills and the FIX dictionary.

## 7. What is left

Nothing of the plan but what section 6 leaves out, and the liveness properties,
which stay with TLC. Were the observed numbers or oe-client without a watchdog to
decide anything, `Venue` and `ClientProcess` are where they would go.
