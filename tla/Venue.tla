-------------------------------- MODULE Venue --------------------------------
(***************************************************************************)
(* The exchange simulator: src/internal/exchange (App and Book) driven by  *)
(* its three kinds of goroutine.                                           *)
(*                                                                         *)
(*   Session   the engine's goroutine of each acceptor session, which      *)
(*             calls FromAdmin, OnLogon, FromApp and OnLogout;             *)
(*   Handlers  net/http goroutines of the admin control plane;             *)
(*   Timers    goroutines time.AfterFunc starts for cancel-on-disconnect.  *)
(*                                                                         *)
(* One step is one critical section of Book.mu or App.mu, or one call of   *)
(* quickfix.SendToTarget: everything between two of them touches only the  *)
(* goroutine's own variables.  The exception is the acknowledgement of a   *)
(* new order, which copies the order without the lock, a field at a time.  *)
(*                                                                         *)
(* As in Orders, a definition before an operator of the code that nothing  *)
(* uses (WrongSend, StaleTrade, ...) is a slip the code could have had.    *)
(***************************************************************************)
EXTENDS Orders, Decimals, Sequences, FiniteSets

CONSTANTS
    ClOrdIDs,     \* ClOrdIDs clients use (bound on the orders of a run)
    OrderQtys,    \* OrderQty values a NewOrderSingle carries; the venue checks none
    TimesInForce, \* TimeInForce values it carries
    PartialQtys,  \* qty arguments of POST /admin/partial
    PerShare,     \* quantities are decimals: so many steps of one make a share
    Handlers,     \* admin requests in progress at once (bound)
    AdminOps,     \* the admin routes this instance exercises (bound)
    Timers,       \* COD timers pending at once (bound)
    LogonInputs,  \* [Session -> set of records a Logon carries]
    MaxExecID,    \* ExecIDs EveryReportArrives follows (bound on the property alone)
    Endings,      \* how peers leave in this instance: "logout", "drop"
    Expect        \* [Session -> the password captured at startup, or NoPassword]

KindOrderEntry == "ORDER_ENTRY"
KindDropCopy   == "DROP_COPY"
Session        == {KindOrderEntry, KindDropCopy}
Threads        == Session \cup Handlers \cup Timers

CODDisabled == 0
CODOnDisconnect == 1
CODOnLogout == 2
CODOnDisconnectOrLogout == 3

NoPassword == "none"

\* What ParseLogon returns; window is CODTimeoutWindow in clock ticks.
LogonRequest == [password : STRING, codType : Int, window : Nat]

\* A session absent from App.cod: its zero value is never armed.
NoRequest == [password |-> NoPassword, codType |-> CODDisabled, window |-> 0]

LogonRequests == UNION {LogonInputs[s] : s \in Session}

ASSUME ThreadAssumption ==
    /\ Handlers \cap Timers = {}
    /\ Session \cap (Handlers \cup Timers) = {}

ASSUME PerShareAssumption == PerShare \in Nat \ {0}

ASSUME InputAssumption ==
    /\ OrderQtys \subseteq Int
    /\ PartialQtys \subseteq Int
    /\ TimesInForce \subseteq STRING
    /\ LogonInputs \in [Session -> SUBSET LogonRequest]
    /\ Expect \in [Session -> STRING]
    /\ MaxExecID \in Nat
    /\ Endings \subseteq {"logout", "drop"}

ASSUME AdminAssumption ==
    AdminOps \subseteq {"fill", "partial", "cancel", "reject", "cancel-all",
                        "silence", "reject-logon"}

VARIABLES
    \* Book, under Book.mu
    book,         \* orders: ClOrdID -> OrderState
    orderSeq,     \* orders inserted; OrderID is also the insertion order
    execSeq,      \* execution ids handed out
    \* App, under App.mu
    silenced, rejectLogons, loggedOn, cod,
    \* the engine's message store of each session: reports SendToTarget accepted
    sent,
    \* goroutines: control point and local variables
    pc,
    want,         \* Fill: the order and the leaves it read
    rep,          \* publish's argument r
    mute,         \* publish's local copy of silenced
    todo,         \* CancelAllOpenDay's orders still to visit
    timer,        \* AfterFunc: the session lost, the ticks left
    back,         \* history: did a timer's session return inside the window
    ended         \* history: how a session last ended, "drop" before it ever did

bookVars   == <<book, orderSeq, execSeq>>
appVars    == <<silenced, rejectLogons, loggedOn, cod>>
localVars  == <<want, mute, todo>>
timerVars  == <<timer, back, ended>>
vars == <<bookVars, appVars, sent, pc, rep, localVars, timerVars>>

----------------------------------------------------------------------------
\* An order of the book, and Absent for a ClOrdID it does not hold.
OrderState == [status : Statuses \cup {Absent}, orderID : Nat, qty : Int, cum : Int,
               tif : TimesInForce \cup {TIFNone}]

(* Reports.  restated is tag 378; execID 0 means not assigned yet. *)

Report == [id : ClOrdIDs, execType : ExecTypes, status : Statuses, cum : Int,
           lastQty : Int, restated : BOOLEAN, execID : Nat]

NoReport == [execType |-> "none", execID |-> 0]
NoWant   == [qty |-> 0]

\* A timer goroutine that does not exist.
NoTimer == [sess |-> KindOrderEntry, left |-> 0]

WrongShownQty(q) == PerShare * (q \div PerShare)

\* The quantity a reader sees: field.NewCumQty(q, 0) and field.NewLastQty(q, 0)
\* write whole shares.
ShownQty(q) == PerShare * DivRound(q, PerShare)

\* report{order: o, execType: ..., lastQty: ..., restatement: ...}, as message
\* writes it.
ReportOf(id, o, execType, lastQty, restated) ==
    [id |-> id, execType |-> execType, status |-> o.status, cum |-> ShownQty(o.cum),
     lastQty |-> ShownQty(lastQty), restated |-> restated, execID |-> 0]

ReportsIn(log) == {log[i] : i \in DOMAIN log}

\* Reports with an ExecID that publish has not handed to every session yet.
InFanout == {t \in Threads : pc[t] \in {"sendOE", "sendDC"}}

----------------------------------------------------------------------------
TypeOK ==
    /\ book \in [ClOrdIDs -> OrderState]
    /\ orderSeq \in Nat
    /\ execSeq \in Nat
    /\ silenced \in BOOLEAN
    /\ rejectLogons \in BOOLEAN
    /\ loggedOn \in [Session -> BOOLEAN]
    /\ cod \in [Session -> LogonRequests \cup {NoRequest}]
    /\ sent \in [Session -> Seq(Report)]
    /\ pc \in [Threads -> {"idle", "logon", "copy", "copyCum", "copyStatus", "trade",
                           "publish", "assign", "sendOE", "sendDC", "sweep",
                           "waiting", "lost"}]
    /\ want \in [Threads -> [id : ClOrdIDs, qty : Int] \cup {NoWant}]
    /\ rep \in [Threads -> Report \cup {NoReport}]
    /\ mute \in [Threads -> BOOLEAN]
    /\ todo \in [Threads -> SUBSET ClOrdIDs]
    /\ timer \in [Timers -> [sess : Session, left : Nat]]
    /\ back \in [Timers -> {"no", "stayed", "left again"}]
    /\ ended \in [Session -> {"logout", "drop"}]

Init ==
    /\ book = [id \in ClOrdIDs |-> NoOrder]
    /\ orderSeq = 0
    /\ execSeq = 0
    /\ silenced = FALSE
    /\ rejectLogons = FALSE
    /\ loggedOn = [s \in Session |-> FALSE]
    /\ cod = [s \in Session |-> NoRequest]
    /\ sent = [s \in Session |-> << >>]
    /\ pc = [t \in Threads |-> "idle"]
    /\ want = [t \in Threads |-> NoWant]
    /\ rep = [t \in Threads |-> NoReport]
    /\ mute = [t \in Threads |-> FALSE]
    /\ todo = [t \in Threads |-> {}]
    /\ timer = [k \in Timers |-> NoTimer]
    /\ back = [k \in Timers |-> "no"]
    /\ ended = [s \in Session |-> "drop"]

----------------------------------------------------------------------------
(* publish: read silenced, take an ExecID, send on each session in turn.    *)

\* Where publish returns to: the sweep that called it, or the end.
Resume(t) == IF todo[t] = {} THEN "idle" ELSE "sweep"

\* The goroutine t calls publish(r).
Publish(t, r) ==
    /\ rep' = [rep EXCEPT ![t] = r]
    /\ pc' = [pc EXCEPT ![t] = "publish"]

\* publish's first critical section: its own copy of silenced.
ReadSilenced(t) ==
    /\ pc[t] = "publish"
    /\ mute' = [mute EXCEPT ![t] = silenced]
    /\ pc' = [pc EXCEPT ![t] = "assign"]
    /\ UNCHANGED <<bookVars, appVars, sent, rep, want, todo, timerVars>>

WrongNextExecID == execSeq' = execSeq

NextExecID == execSeq' = execSeq + 1

\* The ExecID is taken before the silenced check, so a silenced venue still
\* consumes one, and drops the report for good.
AssignExecID(t) ==
    /\ pc[t] = "assign"
    /\ NextExecID
    /\ rep' = [rep EXCEPT ![t] = IF mute[t] THEN NoReport
                                 ELSE [rep[t] EXCEPT !.execID = execSeq']]
    /\ pc' = [pc EXCEPT ![t] = IF mute[t] THEN Resume(t) ELSE "sendOE"]
    /\ mute' = [mute EXCEPT ![t] = FALSE]
    /\ UNCHANGED <<book, orderSeq, appVars, sent, want, todo, timerVars>>

\* Nothing is stored for a session that is down.
WrongSend(s, r) == sent' = IF loggedOn[s] THEN [sent EXCEPT ![s] = Append(@, r)]
                                          ELSE sent

\* An ExecID per session rather than per event.
RenumberingSend(s, r) ==
    sent' = [sent EXCEPT ![s] = Append(@, [r EXCEPT !.execID = execSeq + Len(sent[s])])]

\* silenced looked at for each session.
RecheckingSend(s, r) == sent' = IF silenced THEN sent
                                            ELSE [sent EXCEPT ![s] = Append(@, r)]

\* SendToTarget stores the report whether or not the session is connected.
Send(s, r) == sent' = [sent EXCEPT ![s] = Append(@, r)]

SendOE(t) ==
    /\ pc[t] = "sendOE"
    /\ Send(KindOrderEntry, rep[t])
    /\ pc' = [pc EXCEPT ![t] = "sendDC"]
    /\ UNCHANGED <<bookVars, appVars, rep, localVars, timerVars>>

SendDC(t) ==
    /\ pc[t] = "sendDC"
    /\ Send(KindDropCopy, rep[t])
    /\ pc' = [pc EXCEPT ![t] = Resume(t)]
    /\ rep' = [rep EXCEPT ![t] = NoReport]
    /\ UNCHANGED <<bookVars, appVars, localVars, timerVars>>

PublishStep(t) == ReadSilenced(t) \/ AssignExecID(t) \/ SendOE(t) \/ SendDC(t)

----------------------------------------------------------------------------
(* Commanded behaviour: one HTTP goroutine per request.  A request that is  *)
(* refused without touching the book answers an error and changes nothing.  *)

\* Fill reads the leaves of a snapshot; Partial refuses a quantity <= 0.
Fill(h, id) ==
    /\ "fill" \in AdminOps
    /\ pc[h] = "idle"
    /\ LeavesQty(book[id]) > 0
    /\ want' = [want EXCEPT ![h] = [id |-> id, qty |-> LeavesQty(book[id])]]
    /\ pc' = [pc EXCEPT ![h] = "trade"]
    /\ UNCHANGED <<bookVars, appVars, sent, rep, mute, todo, timerVars>>

\* The report shows the order as it was before the trade.
StaleTrade(h, id, q) ==
    /\ book' = [book EXCEPT ![id] = Traded(book[id], q)]
    /\ Publish(h, ReportOf(id, book[id], ExecTypeTrade, q, FALSE))
    /\ UNCHANGED <<orderSeq, execSeq>>

\* Partial's Update: the order trades q, and publish follows.
Trade(h, id, q) ==
    /\ book' = [book EXCEPT ![id] = Traded(book[id], q)]
    /\ Publish(h, ReportOf(id, book'[id], ExecTypeTrade, q, FALSE))
    /\ UNCHANGED <<orderSeq, execSeq>>

\* The rest of Fill: the order may have moved since the snapshot was taken.
FillTrade(h) ==
    /\ pc[h] = "trade"
    /\ want' = [want EXCEPT ![h] = NoWant]
    /\ IF MayTrade(book[want[h].id], want[h].qty)
       THEN Trade(h, want[h].id, want[h].qty)
       ELSE /\ pc' = [pc EXCEPT ![h] = "idle"]
            /\ UNCHANGED <<bookVars, rep>>
    /\ UNCHANGED <<appVars, sent, mute, todo, timerVars>>

Partial(h, id, q) ==
    /\ "partial" \in AdminOps
    /\ pc[h] = "idle"
    /\ q > 0
    /\ MayTrade(book[id], q)
    /\ Trade(h, id, q)
    /\ UNCHANGED <<appVars, sent, localVars, timerVars>>

\* Cancel and Reject differ only in the status they set.
Close(h, id, status, execType) ==
    /\ pc[h] = "idle"
    /\ IsOpen(book[id])
    /\ book' = [book EXCEPT ![id] = WithStatus(book[id], status)]
    /\ Publish(h, ReportOf(id, book'[id], execType, 0, FALSE))
    /\ UNCHANGED <<orderSeq, execSeq, appVars, sent, localVars, timerVars>>

Cancel(h, id) ==
    "cancel" \in AdminOps /\ Close(h, id, StatusCanceled, ExecTypeCanceled)

Reject(h, id) ==
    "reject" \in AdminOps /\ Close(h, id, StatusRejected, ExecTypeRejected)

SetSilenced(v) ==
    /\ "silence" \in AdminOps
    /\ silenced' = v
    /\ UNCHANGED <<bookVars, rejectLogons, loggedOn, cod, sent, pc, rep,
                   localVars, timerVars>>

\* Any non-empty reason refuses every Logon until an empty one is set.
SetRejectLogons(v) ==
    /\ "reject-logon" \in AdminOps
    /\ rejectLogons' = v
    /\ UNCHANGED <<bookVars, silenced, loggedOn, cod, sent, pc, rep,
                   localVars, timerVars>>

----------------------------------------------------------------------------
(* CancelAllOpenDay, called by POST /admin/cancel-all and by a COD timer.   *)

\* The snapshot: its set of orders is fixed here, and acted on later.
Snapshot(t) ==
    /\ todo' = [todo EXCEPT ![t] = OpenDayOrders(book)]
    /\ pc' = [pc EXCEPT ![t] = IF OpenDayOrders(book) = {} THEN "idle" ELSE "sweep"]
    /\ UNCHANGED <<bookVars, appVars, sent, rep, want, mute>>

CancelAll(h) ==
    /\ "cancel-all" \in AdminOps
    /\ pc[h] = "idle"
    /\ Snapshot(h)
    /\ UNCHANGED timerVars

\* The loop body: the snapshot's next order, by insertion, is cancelled
\* whatever its status is by now, and reported with 378 set.
CancelNext(t) ==
    /\ pc[t] = "sweep"
    /\ \E id \in todo[t] :
        /\ \A other \in todo[t] : book[id].orderID <= book[other].orderID
        /\ todo' = [todo EXCEPT ![t] = @ \ {id}]
        /\ book' = [book EXCEPT ![id] = WithStatus(book[id], StatusCanceled)]
        /\ Publish(t, ReportOf(id, book'[id], ExecTypeCanceled, 0, TRUE))
    /\ UNCHANGED <<orderSeq, execSeq, appVars, sent, want, mute, timerVars>>

----------------------------------------------------------------------------
(* The order-entry session: a NewOrderSingle is inserted and acknowledged.  *)

\* FromApp with a ClOrdID the book does not hold (a known one gets a business
\* reject).  The drop-copy session refuses application messages.
NewOrderSingle(id, qty, tif) ==
    /\ loggedOn[KindOrderEntry]
    /\ pc[KindOrderEntry] = "idle"
    /\ book[id].status = Absent
    /\ orderSeq' = orderSeq + 1
    /\ book' = [book EXCEPT ![id] = NewOrder(orderSeq', qty, tif)]
    /\ rep' = [rep EXCEPT ![KindOrderEntry] =
                  ReportOf(id, book'[id], ExecTypeNew, 0, FALSE)]
    /\ pc' = [pc EXCEPT ![KindOrderEntry] = "copy"]
    /\ UNCHANGED <<execSeq, appVars, sent, localVars, timerVars>>

\* publish(report{order: *o}) copies the order after Insert has published the
\* pointer and without Book.mu: each field is read at a time of its own, in
\* either order, while a handler may be writing it.
CopyStatus ==
    /\ pc[KindOrderEntry] \in {"copy", "copyStatus"}
    /\ rep' = [rep EXCEPT ![KindOrderEntry].status =
                  book[rep[KindOrderEntry].id].status]
    /\ pc' = [pc EXCEPT ![KindOrderEntry] = IF @ = "copy" THEN "copyCum" ELSE "publish"]
    /\ UNCHANGED <<bookVars, appVars, sent, localVars, timerVars>>

CopyCumQty ==
    /\ pc[KindOrderEntry] \in {"copy", "copyCum"}
    /\ rep' = [rep EXCEPT ![KindOrderEntry].cum =
                  ShownQty(book[rep[KindOrderEntry].id].cum)]
    /\ pc' = [pc EXCEPT ![KindOrderEntry] = IF @ = "copy" THEN "copyStatus" ELSE "publish"]
    /\ UNCHANGED <<bookVars, appVars, sent, localVars, timerVars>>

----------------------------------------------------------------------------
(* Session callbacks and cancel-on-disconnect.                              *)

\* No credential configured for this counterparty: anything is accepted.
checkPassword(s, got) == Expect[s] = NoPassword \/ got = Expect[s]

\* FromAdmin accepts a Logon: what it asks of COD replaces what was armed.
\* A refused Logon changes nothing, and OnLogon follows only an accepted one.
FromAdminLogon(s, req) ==
    /\ pc[s] = "idle"
    /\ ~ loggedOn[s]
    /\ ~ rejectLogons
    /\ checkPassword(s, req.password)
    /\ cod' = [cod EXCEPT ![s] = req]
    /\ pc' = [pc EXCEPT ![s] = "logon"]
    /\ UNCHANGED <<bookVars, silenced, rejectLogons, loggedOn, sent, rep,
                   localVars, timerVars>>

\* The engine has answered the Logon.
OnLogon(s) ==
    /\ pc[s] = "logon"
    /\ loggedOn' = [loggedOn EXCEPT ![s] = TRUE]
    /\ pc' = [pc EXCEPT ![s] = "idle"]
    /\ back' = [k \in Timers |->
                  IF pc[k] = "waiting" /\ timer[k].sess = s /\ timer[k].left > 0
                  THEN "stayed" ELSE back[k]]
    /\ UNCHANGED <<bookVars, silenced, rejectLogons, cod, sent, rep, localVars,
                   timer, ended>>

WrongArmed(req) == req.codType = CODOnDisconnect

Armed(req) == req.codType # CODDisabled

\* The peer logged out or the connection dropped: the engine calls OnLogout
\* for both and does not say which.  An armed session starts a COD timer.
OnLogout(s, how) ==
    /\ pc[s] = "idle"
    /\ loggedOn[s]
    /\ loggedOn' = [loggedOn EXCEPT ![s] = FALSE]
    /\ ended' = [ended EXCEPT ![s] = how]
    /\ LET left == [k \in Timers |-> IF timer[k].sess = s /\ back[k] = "stayed"
                                     THEN "left again" ELSE back[k]]
       IN  IF Armed(cod[s])
           THEN \E k \in Timers :
                  /\ pc[k] = "idle"
                  /\ timer' = [timer EXCEPT ![k] = [sess |-> s, left |-> cod[s].window]]
                  /\ pc' = [pc EXCEPT ![k] = "waiting"]
                  /\ back' = [left EXCEPT ![k] = "no"]
           ELSE back' = left /\ UNCHANGED <<timer, pc>>
    /\ UNCHANGED <<bookVars, silenced, rejectLogons, cod, sent, rep, localVars>>

Running(k) == pc[k] = "waiting" /\ timer[k].left > 0

\* A millisecond tick of the clock, for every pending timer.
Tick ==
    /\ \E k \in Timers : Running(k)
    /\ timer' = [k \in Timers |-> IF Running(k)
                                  THEN [timer[k] EXCEPT !.left = @ - 1] ELSE timer[k]]
    /\ UNCHANGED <<bookVars, appVars, sent, pc, rep, localVars, back, ended>>

WrongStandsDown(k) == FALSE

\* The AfterFunc closure has no further use of its session.
DropTimer(k) ==
    /\ timer' = [timer EXCEPT ![k] = NoTimer]
    /\ back' = [back EXCEPT ![k] = "no"]
    /\ ended' = ended

\* The timer's one look at the session, after the window.
StandsDown(k) == loggedOn[timer[k].sess]

TimerFires(k) ==
    /\ pc[k] = "waiting"
    /\ timer[k].left = 0
    /\ IF StandsDown(k)
       THEN pc' = [pc EXCEPT ![k] = "idle"] /\ DropTimer(k)
       ELSE pc' = [pc EXCEPT ![k] = "lost"] /\ UNCHANGED timerVars
    /\ UNCHANGED <<bookVars, appVars, sent, rep, localVars>>

\* loggedOn is not looked at again: a session back by now changes nothing.
CancelOnDisconnect(k) ==
    /\ pc[k] = "lost"
    /\ Snapshot(k)
    /\ DropTimer(k)

----------------------------------------------------------------------------
\* What goroutine t does on its own once something has started it.
SessionStep(s) == OnLogon(s) \/ (s = KindOrderEntry /\ (CopyStatus \/ CopyCumQty))
TimerStep(k)   == TimerFires(k) \/ CancelOnDisconnect(k)

AdminRequest(h) ==
    \/ \E id \in ClOrdIDs : Fill(h, id) \/ Cancel(h, id) \/ Reject(h, id)
    \/ \E id \in ClOrdIDs, q \in PartialQtys : Partial(h, id, q)
    \/ CancelAll(h)

Next ==
    \/ \E t \in Threads : PublishStep(t)
    \/ \E t \in Handlers \cup Timers : CancelNext(t)
    \/ \E h \in Handlers : AdminRequest(h) \/ FillTrade(h)
    \/ \E v \in BOOLEAN : SetSilenced(v) \/ SetRejectLogons(v)
    \/ \E id \in ClOrdIDs, qty \in OrderQtys, tif \in TimesInForce :
          NewOrderSingle(id, qty, tif)
    \/ \E s \in Session : SessionStep(s)
    \/ \E s \in Session : \E req \in LogonInputs[s] : FromAdminLogon(s, req)
    \/ \E s \in Session, how \in Endings : OnLogout(s, how)
    \/ \E k \in Timers : TimerStep(k)
    \/ Tick

Spec == Init /\ [][Next]_vars

\* The Go scheduler runs every ready goroutine, and the clock advances.  No
\* request, order, Logon or disconnect is assumed ever to happen.
Fairness ==
    /\ \A t \in Threads : WF_vars(PublishStep(t))
    /\ \A t \in Handlers \cup Timers : WF_vars(CancelNext(t))
    /\ \A h \in Handlers : WF_vars(FillTrade(h))
    /\ \A s \in Session : WF_vars(SessionStep(s))
    /\ \A k \in Timers : WF_vars(TimerStep(k))
    /\ WF_vars(Tick)

FairSpec == Spec /\ Fairness

\* The exchange process is killed and started again.  Book and App live in
\* memory; the message store is a file (cmd/exchange/main.go, ResetOnLogon=N).
Restart ==
    /\ \E k \in Session : sent[k] # << >>
    /\ sent' = sent
    /\ book' = [id \in ClOrdIDs |-> NoOrder]
    /\ orderSeq' = 0
    /\ execSeq' = 0
    /\ silenced' = FALSE
    /\ rejectLogons' = FALSE
    /\ loggedOn' = [s \in Session |-> FALSE]
    /\ cod' = [s \in Session |-> NoRequest]
    /\ pc' = [t \in Threads |-> "idle"]
    /\ want' = [t \in Threads |-> NoWant]
    /\ rep' = [t \in Threads |-> NoReport]
    /\ mute' = [t \in Threads |-> FALSE]
    /\ todo' = [t \in Threads |-> {}]
    /\ timer' = [k \in Timers |-> NoTimer]
    /\ back' = [k \in Timers |-> "no"]
    /\ ended' = [s \in Session |-> "drop"]

RestartSpec == Init /\ [][Next \/ Restart]_vars

----------------------------------------------------------------------------
(*                         Safety of the order book                         *)

\* An order's status says how much of it has traded: nothing while New, some
\* but not all while PartiallyFilled, everything once Filled, and never more
\* than was ordered, whatever OrderQty was (the venue accepts zero and less).
\* Partial decides the status from a quantity that Fill read earlier.
BookConsistent == \A id \in ClOrdIDs : Consistent(book[id])

\* An order that has stopped working (filled, cancelled or rejected) never
\* works or trades again, and what the client fixed on the NewOrderSingle
\* never changes, whichever of the handlers, sweeps and timers touch it last.
OrderLifecycle ==
    [][\A id \in ClOrdIDs : book[id].status # Absent =>
         /\ book'[id].orderID = book[id].orderID
         /\ book'[id].qty = book[id].qty
         /\ book'[id].tif = book[id].tif
         /\ book'[id].cum >= book[id].cum
         /\ ~ IsOpen(book[id]) => ~ IsOpen(book'[id]) /\ book'[id].cum = book[id].cum
      ]_vars

\* POST /admin/fill reads the leaves in one critical section and trades in
\* another: it either fills the order or is refused, and never leaves it
\* partially filled because somebody else traded in between.
FillFillsOrRefuses ==
    [][\A h \in Handlers : pc[h] = "trade" /\ pc'[h] = "publish" =>
         book'[want[h].id].status = StatusFilled]_vars

----------------------------------------------------------------------------
(*                          Safety of the two feeds                         *)

\* book.go on NextExecID: "it must never repeat within a session", which is
\* what a drop-copy consumer's deduplication relies on.
ExecIDsNeverRepeat ==
    \A s \in Session : \A i, j \in DOMAIN sent[s] :
        sent[s][i].execID = sent[s][j].execID => i = j

\* ExecID names one event: it never repeats on a session, and the reports of
\* the two sessions that carry it are the same report.  That is what lets a
\* client deduplicate on it and reconcile the feeds.
ExecIDIdentity ==
    /\ ExecIDsNeverRepeat
    /\ \A p \in ReportsIn(sent[KindOrderEntry]), q \in ReportsIn(sent[KindDropCopy]) :
         p.execID = q.execID => p = q

\* Every report reaches both sessions or neither, connected or not, silenced
\* in between or not: the only ones on a single session are those whose
\* publisher is between its two sends.
FanoutComplete ==
    /\ ReportsIn(sent[KindDropCopy]) \subseteq ReportsIn(sent[KindOrderEntry])
    /\ ReportsIn(sent[KindOrderEntry]) \ ReportsIn(sent[KindDropCopy])
         = {rep[t] : t \in {u \in Threads : pc[u] = "sendDC"}}

\* Reports of trades in id: on the order-entry session or still with the
\* goroutine that will send them there.
TradesOf(id) ==
    {r \in ReportsIn(sent[KindOrderEntry])
             \cup {rep[t] : t \in {u \in Threads : pc[u] \in {"publish", "assign", "sendOE"}}} :
       r.id = id /\ r.execType = ExecTypeTrade}

\* ExecIDs a publisher has taken and not dropped: sent, or about to be.
Issued == {r.execID : r \in ReportsIn(sent[KindOrderEntry])}
            \cup {rep[t].execID : t \in InFanout}

\* What a reader can tell from the numbers alone: none is missing.
NoHole == Issued = 1..execSeq

\* Drill 04: "CumQty (14) and LeavesQty (151) are running totals; LastQty (32)
\* is the increment".  While the numbering shows no hole, each step of the
\* CumQty an order shows is in LastQty of exactly one report, so summing LastQty
\* gives CumQty in whatever order racing handlers publish; hole or not, no step
\* is reported twice.  Rounding breaks it: see WholePartials.
LastQtyIsTheIncrement ==
    \A id \in ClOrdIDs : \A n \in 1..ShownQty(book[id].cum) :
        LET telling == {r \in TradesOf(id) : r.cum - r.lastQty < n /\ n <= r.cum}
        IN  /\ Cardinality(telling) <= 1
            /\ NoHole => telling # {}

Whole(q) == q % PerShare = 0

\* Nobody asks POST /admin/partial for a fraction of a share, though it would
\* trade one.  An order may still be of one: only what fills it is a fraction.
WholePartials == \A q \in PartialQtys : Whole(q)

\* With partial fills in whole shares, a silenced report is gone for good, but
\* the ExecID it took is not, and the trades of an order add up to what the
\* venue says it has traded.
TradesAddUp == WholePartials => LastQtyIsTheIncrement

\* The CumQty r shows is the whole number of shares next to cum.
ShowsCum(r, cum) == Whole(r.cum) /\ 2 * Magnitude(r.cum - cum) <= PerShare

\* With no publish under way and no hole in the numbering, the venue has told
\* both sessions where every order stands, to half a share: some report of it
\* carries its status and its rounded CumQty.  So a silenced report that
\* mattered shows as a hole.
BookIsReported ==
    (NoHole /\ \A t \in Threads : pc[t] \in {"idle", "waiting", "logon"}) =>
      \A id \in ClOrdIDs : book[id].status # Absent =>
        \E r \in ReportsIn(sent[KindDropCopy]) :
          r.id = id /\ r.status = book[id].status /\ ShowsCum(r, book[id].cum)

----------------------------------------------------------------------------
(*                          Cancel on disconnect                            *)

\* A session that came back inside its window and has stayed since keeps its
\* orders: the timer of that disconnect does not go on to cancel.
GraceHonoured ==
    [][\A k \in Timers : back[k] = "stayed" => pc'[k] # "sweep"]_vars

\* Good-till orders survive every mass cancel.
GoodTillSurvives ==
    \A s \in Session : \A r \in ReportsIn(sent[s]) :
        r.restated => book[r.id].tif \in {TIFNone, TIFDay}

\* A report that was given an ExecID and not silenced reaches both sessions,
\* down or not.
EveryReportArrives ==
    \A n \in 1..MaxExecID :
        n \in Issued ~> \A s \in Session : \E r \in ReportsIn(sent[s]) : r.execID = n

\* The modes under which the end of a session cancels.
Covering(how) == {CODOnDisconnectOrLogout}
                   \cup (IF how = "logout" THEN {CODOnLogout} ELSE {CODOnDisconnect})

\* A client that armed COD for the way its session ended does not keep day
\* orders working for ever: it comes back, or none is left open.
ExposureIsRemoved ==
    (/\ ~ loggedOn[KindOrderEntry]
     /\ cod[KindOrderEntry].codType \in Covering(ended[KindOrderEntry]))
       ~> (loggedOn[KindOrderEntry] \/ OpenDayOrders(book) = {})

----------------------------------------------------------------------------
(* What comments and drills say of the venue and this code does not keep.   *)
(* Each has a cfg of its own, under which TLC finds a counterexample.        *)

\* book.go on Update: "Mutating through this method keeps every transition
\* serialized against the fanout that reports it".  Among the reports of the
\* transitions Update makes, a later one of an order never shows less traded,
\* nor an open order after a closed one.
FanoutInOrder ==
    \A s \in Session : \A i, j \in DOMAIN sent[s] :
      LET p == sent[s][i]
          q == sent[s][j]
      IN  (i < j /\ p.id = q.id /\ ExecTypeNew \notin {p.execType, q.execType}) =>
            /\ p.cum <= q.cum
            /\ p.status \in FinalStatuses => q.status \in FinalStatuses

\* book.go on IsOpen: "Cancel-on-disconnect acts on exactly this set".  An
\* order that is filled, rejected or cancelled keeps that status.
ClosedIsFinal ==
    [][\A id \in ClOrdIDs : book[id].status \in FinalStatuses =>
         book'[id].status = book[id].status]_vars

\* logon.go on CODTimeoutWindow: "A reconnect inside the window aborts it".
\* A timer whose session came back in time cancels nothing, even if that
\* session is gone again, with a window of its own, when the timer fires.
ReconnectAborts ==
    [][\A k \in Timers : back[k] # "no" => pc'[k] # "sweep"]_vars

\* Drill 10: "A drop-copy session owns no orders, so COD on it does nothing".
DropCopyCODDoesNothing ==
    [][\A k \in Timers : timer[k].sess = KindDropCopy => pc'[k] # "sweep"]_vars

\* Drill 10: "Modes are 1 cancel on hard disconnect, 2 cancel on logout, 3
\* either".  A timer starts only when the mode covers how the session ended.
ModeCoversEnding ==
    [][\A k \in Timers : (pc[k] = "idle" /\ pc'[k] = "waiting") =>
         cod[timer'[k].sess].codType \in Covering(ended'[timer'[k].sess])]_vars

\* Drill 04 on the acknowledgement: "150=0, 39=0, nothing traded".
AckShowsNew ==
    \A s \in Session : \A r \in ReportsIn(sent[s]) :
        r.execType = ExecTypeNew => r.status = StatusNew /\ r.cum = 0
=============================================================================
