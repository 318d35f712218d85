----------------------------- MODULE VenueProofs -----------------------------
(***************************************************************************)
(* Theorems about the venue, for any orders, quantities, requests and      *)
(* timers.                                                                 *)
(***************************************************************************)
EXTENDS Venue, TLAPS

Copying == {"copy", "copyCum", "copyStatus"}

\* Control points at which a goroutine holds a report it has yet to publish.
Reporting == Copying \cup {"publish", "assign", "sendOE", "sendDC"}

\* What the goroutines' local variables hold at each control point.
LocalsOK ==
    /\ \A t \in Threads : pc[t] \in Reporting => rep[t] \in Report
    /\ \A t \in Threads : pc[t] = "trade" =>
         want[t] \in [id : ClOrdIDs, qty : Int] /\ want[t].qty > 0
    /\ pc[KindOrderEntry] \in Copying => book[rep[KindOrderEntry].id].status # Absent

Inv == TypeOK /\ LocalsOK /\ BookConsistent

\* The control points, as TypeOK lists them.
Points == {"idle", "logon", "copy", "copyCum", "copyStatus", "trade", "publish",
           "assign", "sendOE", "sendDC", "sweep", "waiting", "lost"}

USE DEF Session, KindOrderEntry, KindDropCopy, Threads

LEMMA InitInv == Init => Inv
<1> SUFFICES ASSUME Init PROVE Inv
  OBVIOUS
<1>1. \A id \in ClOrdIDs : book[id] = [status |-> Absent, orderID |-> 0, qty |-> 0,
                                       cum |-> 0, tif |-> "none"]
  BY DEF Init, NoOrder, TIFNone
<1>2. book \in [ClOrdIDs -> OrderState]
  BY DEF Init, NoOrder, OrderState
<1>3. cod \in [Session -> LogonRequests \cup {NoRequest}]
  BY DEF Init
<1>4. timer \in [Timers -> [sess : Session, left : Nat]]
  BY DEF Init, NoTimer
<1>e. ended \in [Session -> {"logout", "drop"}]
  BY DEF Init
<1>5. /\ loggedOn \in [Session -> BOOLEAN]
      /\ sent \in [Session -> Seq(Report)]
      /\ pc \in [Threads -> Points]
      /\ want \in [Threads -> [id : ClOrdIDs, qty : Int] \cup {NoWant}]
      /\ rep \in [Threads -> Report \cup {NoReport}]
      /\ mute \in [Threads -> BOOLEAN]
      /\ todo \in [Threads -> SUBSET ClOrdIDs]
      /\ back \in [Timers -> {"no", "stayed", "left again"}]
  BY DEF Init, Points
<1>6. TypeOK
  BY <1>2, <1>3, <1>4, <1>5, <1>e DEF TypeOK, Init, Points
<1>7. LocalsOK
  BY DEF Init, LocalsOK, Reporting, Copying
<1>8. BookConsistent
  BY <1>1 DEF BookConsistent, Consistent, Absent, StatusNew, StatusPartiallyFilled, StatusFilled
<1> QED BY <1>6, <1>7, <1>8 DEF Inv

----------------------------------------------------------------------------
(* What a report shows of a quantity.                                       *)

\* Rounding a quotient is off by half the divisor at most.
LEMMA HalfAway ==
  ASSUME NEW n \in Int, NEW d \in Nat \ {0}
  PROVE  DivRound(n, d) \in Int /\ 2 * Magnitude(DivRound(n, d) * d - n) <= d
  BY DEF DivRound, Magnitude

LEMMA ShownIsInt == ASSUME NEW q \in Int PROVE ShownQty(q) \in Int
<1>1. DivRound(q, PerShare) \in Int /\ PerShare \in Int
  BY HalfAway, PerShareAssumption
<1> QED BY <1>1 DEF ShownQty

----------------------------------------------------------------------------
(* What the updates of one order preserve.                                  *)

USE DEF Statuses, OpenStatuses, FinalStatuses, StatusNew, StatusPartiallyFilled,
        StatusFilled, StatusCanceled, StatusRejected, Absent

\* A trade Partial allows keeps the order well formed and is not a new order.
LEMMA TradedOrder ==
  ASSUME NEW o \in OrderState, Consistent(o), NEW q \in Int, q > 0, MayTrade(o, q)
  PROVE  /\ Traded(o, q) \in OrderState
         /\ Consistent(Traded(o, q))
         /\ Traded(o, q).status \in Statuses
         /\ Traded(o, q).cum \in Int
<1>1. /\ o.cum \in Int /\ o.qty \in Int /\ 0 <= o.cum
      /\ o.cum + q <= o.qty
  BY DEF OrderState, Consistent, MayTrade, LeavesQty
<1> DEFINE n == Traded(o, q)
<1>2. n \in OrderState
  <2>1. \A c \in Int, st \in Statuses : [o EXCEPT !.cum = c, !.status = st] \in OrderState
    BY DEF OrderState
  <2>2. o.cum + q \in Int
    BY <1>1
  <2> QED BY <2>1, <2>2 DEF Traded
<1>3. n.cum = o.cum + q /\ n.qty = o.qty
  BY DEF OrderState, Traded
<1>4. n.status = IF o.cum + q = o.qty THEN StatusFilled ELSE StatusPartiallyFilled
  BY DEF OrderState, Traded
<1>5. n.cum > 0 /\ n.cum <= n.qty /\ n.cum \in Int
  BY <1>1, <1>3
<1>6. Consistent(n) /\ n.status \in Statuses
  <2> HIDE DEF n
  <2>1. CASE o.cum + q = o.qty
    BY <1>3, <1>4, <1>5, <2>1 DEF Consistent
  <2>2. CASE o.cum + q # o.qty
    BY <1>1, <1>3, <1>4, <1>5, <2>2 DEF Consistent
  <2> QED BY <2>1, <2>2
<1> QED BY <1>2, <1>5, <1>6

\* Cancelling and rejecting change nothing but the status, and may follow any.
LEMMA ClosedOrder ==
  ASSUME NEW o \in OrderState, Consistent(o), NEW status \in {StatusCanceled, StatusRejected}
  PROVE  /\ WithStatus(o, status) \in OrderState
         /\ Consistent(WithStatus(o, status))
         /\ WithStatus(o, status).status \in Statuses
         /\ WithStatus(o, status).cum \in Int
  BY DEF OrderState, Consistent, WithStatus

----------------------------------------------------------------------------
(* One lemma per action, or per group that changes the same variables.      *)

LEMMA PublishInv ==
  ASSUME Inv, NEW t \in Threads, PublishStep(t)
  PROVE  Inv'
<1> USE DEF Reporting, Copying
<1>1. CASE ReadSilenced(t)
  <2>1. TypeOK'
    BY <1>1 DEF ReadSilenced, Inv, TypeOK, bookVars, appVars, timerVars
  <2>2. LocalsOK'
    BY <1>1 DEF ReadSilenced, Inv, TypeOK, LocalsOK, bookVars, appVars, timerVars
  <2>3. BookConsistent'
    BY <1>1 DEF ReadSilenced, Inv, BookConsistent, bookVars
  <2> QED BY <2>1, <2>2, <2>3 DEF Inv
<1>2. CASE AssignExecID(t)
  <2>0. rep[t] \in Report
    BY <1>2 DEF AssignExecID, Inv, LocalsOK
  <2>1. execSeq' \in Nat
    <3>1. execSeq \in Nat
      BY DEF Inv, TypeOK
    <3>2. execSeq' = execSeq + 1
      BY <1>2 DEF AssignExecID, NextExecID
    <3> QED BY <3>1, <3>2
  <2>2. [rep[t] EXCEPT !.execID = execSeq'] \in Report
    BY <2>0, <2>1 DEF Report
  <2>3. TypeOK'
    BY <1>2, <2>1, <2>2 DEF AssignExecID, Resume, Inv, TypeOK, appVars, timerVars
  <2>4. LocalsOK'
    BY <1>2, <2>2 DEF AssignExecID, Resume, Inv, TypeOK, LocalsOK
  <2>5. BookConsistent'
    BY <1>2 DEF AssignExecID, Inv, BookConsistent
  <2> QED BY <2>3, <2>4, <2>5 DEF Inv
<1>3. CASE SendOE(t)
  <2>1. rep[t] \in Report
    BY <1>3 DEF SendOE, Inv, LocalsOK
  <2>a. Append(sent[KindOrderEntry], rep[t]) \in Seq(Report)
    <3>1. sent[KindOrderEntry] \in Seq(Report)
      BY DEF Inv, TypeOK
    <3> QED BY <2>1, <3>1
  <2>b. sent' \in [Session -> Seq(Report)]
    BY <1>3, <2>a DEF SendOE, Send, Inv, TypeOK
  <2>2. TypeOK'
    BY <1>3, <2>b DEF SendOE, Inv, TypeOK, bookVars, appVars, localVars, timerVars
  <2>3. LocalsOK'
    BY <1>3 DEF SendOE, Inv, TypeOK, LocalsOK, bookVars, localVars
  <2>4. BookConsistent'
    BY <1>3 DEF SendOE, Inv, BookConsistent, bookVars
  <2> QED BY <2>2, <2>3, <2>4 DEF Inv
<1>4. CASE SendDC(t)
  <2>1. rep[t] \in Report
    BY <1>4 DEF SendDC, Inv, LocalsOK
  <2>a. Append(sent[KindDropCopy], rep[t]) \in Seq(Report)
    <3>1. sent[KindDropCopy] \in Seq(Report)
      BY DEF Inv, TypeOK
    <3> QED BY <2>1, <3>1
  <2>b. sent' \in [Session -> Seq(Report)]
    BY <1>4, <2>a DEF SendDC, Send, Inv, TypeOK
  <2>2. TypeOK'
    BY <1>4, <2>b DEF SendDC, Resume, Inv, TypeOK, bookVars, appVars, localVars, timerVars
  <2>3. LocalsOK'
    BY <1>4 DEF SendDC, Resume, Inv, TypeOK, LocalsOK, bookVars, localVars
  <2>4. BookConsistent'
    BY <1>4 DEF SendDC, Inv, BookConsistent, bookVars
  <2> QED BY <2>2, <2>3, <2>4 DEF Inv
<1> QED BY <1>1, <1>2, <1>3, <1>4 DEF PublishStep
\* Replacing one order by a well formed one, and handing its report to
\* publish, is all that Partial, Cancel, Reject and the sweep do to the book.
LEMMA UpdateInv ==
  ASSUME Inv, NEW t \in Threads, t # KindOrderEntry, NEW id \in ClOrdIDs,
         NEW o \in OrderState, Consistent(o), o.status \in Statuses, o.cum \in Int,
         NEW execType \in ExecTypes, NEW lastQty \in Int, NEW restated \in BOOLEAN,
         book' = [book EXCEPT ![id] = o],
         Publish(t, ReportOf(id, o, execType, lastQty, restated)),
         want' \in [Threads -> [id : ClOrdIDs, qty : Int] \cup {NoWant}],
         \A u \in Threads : u # t => want'[u] = want[u],
         todo' \in [Threads -> SUBSET ClOrdIDs],
         UNCHANGED <<orderSeq, execSeq, appVars, sent, mute, timerVars>>
  PROVE  Inv'
<1> DEFINE r == ReportOf(id, o, execType, lastQty, restated)
<1>1. r \in Report
  <2>1. ShownQty(o.cum) \in Int /\ ShownQty(lastQty) \in Int
    BY ShownIsInt
  <2> QED BY <2>1 DEF ReportOf, Report
<1>2. rep' \in [Threads -> Report \cup {NoReport}] /\ rep'[t] = r
  BY <1>1 DEF Publish, Inv, TypeOK
<1>3. book' \in [ClOrdIDs -> OrderState]
  BY DEF Inv, TypeOK
<1>4. TypeOK'
  BY <1>2, <1>3 DEF Publish, Inv, TypeOK, appVars, timerVars
<1>5. LocalsOK'
  <2>1. \A u \in Threads : u # t => pc'[u] = pc[u] /\ rep'[u] = rep[u]
    BY DEF Publish, Inv, TypeOK
  <2>2. pc'[t] = "publish"
    BY DEF Publish, Inv, TypeOK
  <2>3. \A u \in Threads : pc'[u] \in Reporting => rep'[u] \in Report
    BY <1>1, <1>2, <2>1 DEF Inv, LocalsOK
  <2>4. \A u \in Threads : pc'[u] = "trade" =>
          want'[u] \in [id : ClOrdIDs, qty : Int] /\ want'[u].qty > 0
    BY <2>1, <2>2 DEF Inv, LocalsOK
  <2>5. pc'[KindOrderEntry] \in Copying => book'[rep'[KindOrderEntry].id].status # Absent
    <3> SUFFICES ASSUME pc'[KindOrderEntry] \in Copying
                 PROVE  book'[rep'[KindOrderEntry].id].status # Absent
      OBVIOUS
    <3>1. pc[KindOrderEntry] \in Copying /\ rep'[KindOrderEntry] = rep[KindOrderEntry]
      BY <2>1
    <3>2. rep[KindOrderEntry] \in Report /\ book[rep[KindOrderEntry].id].status # Absent
      BY <3>1 DEF Inv, LocalsOK, Reporting
    <3>3. rep[KindOrderEntry].id \in ClOrdIDs
      BY <3>2 DEF Report
    <3>4. book' \in [ClOrdIDs -> OrderState] /\ book \in [ClOrdIDs -> OrderState]
      BY <1>3 DEF Inv, TypeOK
    <3> QED BY <3>1, <3>2, <3>3, <3>4
  <2> QED BY <2>3, <2>4, <2>5 DEF LocalsOK
<1>6. BookConsistent'
  BY <1>3 DEF Inv, TypeOK, BookConsistent
<1> QED BY <1>4, <1>5, <1>6 DEF Inv
\* A session goroutine or timer moves between control points at which it has
\* neither a report nor a pending trade.
Quiet == Points \ (Reporting \cup {"trade"})

LEMMA QuietInv ==
  ASSUME Inv, NEW t \in Threads,
         pc' \in [Threads -> Points], pc'[t] \in Quiet,
         \A u \in Threads : u # t => pc'[u] = pc[u],
         UNCHANGED <<bookVars, sent, rep, want, mute>>,
         todo' \in [Threads -> SUBSET ClOrdIDs],
         silenced' \in BOOLEAN, rejectLogons' \in BOOLEAN,
         loggedOn' \in [Session -> BOOLEAN],
         cod' \in [Session -> LogonRequests \cup {NoRequest}],
         timer' \in [Timers -> [sess : Session, left : Nat]],
         back' \in [Timers -> {"no", "stayed", "left again"}],
         ended' \in [Session -> {"logout", "drop"}]
  PROVE  Inv'
<1>1. TypeOK'
  BY DEF Inv, TypeOK, Points, bookVars
<1>2. LocalsOK'
  BY DEF Inv, LocalsOK, Quiet, Reporting, Copying, bookVars
<1>3. BookConsistent'
  BY DEF Inv, BookConsistent, bookVars
<1> QED BY <1>1, <1>2, <1>3 DEF Inv

\* The mass cancel's snapshot, by a handler or by a COD timer.
LEMMA SnapshotInv ==
  ASSUME Inv, NEW t \in Threads, Snapshot(t),
         timer' \in [Timers -> [sess : Session, left : Nat]],
         back' \in [Timers -> {"no", "stayed", "left again"}],
         ended' \in [Session -> {"logout", "drop"}]
  PROVE  Inv'
<1>1. OpenDayOrders(book) \subseteq ClOrdIDs
  BY DEF Inv, TypeOK, OpenDayOrders
<1>2. todo' \in [Threads -> SUBSET ClOrdIDs]
  BY <1>1 DEF Snapshot, Inv, TypeOK
<1>3. /\ pc' \in [Threads -> Points]
      /\ pc'[t] \in Quiet
      /\ \A u \in Threads : u # t => pc'[u] = pc[u]
  BY DEF Snapshot, Inv, TypeOK, Points, Quiet, Reporting, Copying
<1>4. /\ silenced' \in BOOLEAN /\ rejectLogons' \in BOOLEAN
      /\ loggedOn' \in [Session -> BOOLEAN]
      /\ cod' \in [Session -> LogonRequests \cup {NoRequest}]
  BY DEF Snapshot, Inv, TypeOK, appVars
<1>5. UNCHANGED <<bookVars, sent, rep, want, mute>>
  BY DEF Snapshot
<1> QED BY <1>2, <1>3, <1>4, <1>5, QuietInv

\* Fill and what Partial, Cancel, Reject and cancel-all start.
LEMMA AdminInv ==
  ASSUME Inv, NEW h \in Handlers, AdminRequest(h) \/ FillTrade(h)
  PROVE  Inv'
<1> h \in Threads /\ h # KindOrderEntry
  BY ThreadAssumption
<1>1. ASSUME NEW id \in ClOrdIDs, Fill(h, id)
      PROVE  Inv'
  <2>1. book[id] \in OrderState
    BY DEF Inv, TypeOK
  <2>2. LeavesQty(book[id]) \in Int
    BY <2>1 DEF OrderState, LeavesQty
  <2>3. /\ want' \in [Threads -> [id : ClOrdIDs, qty : Int] \cup {NoWant}]
        /\ want'[h] \in [id : ClOrdIDs, qty : Int] /\ want'[h].qty > 0
        /\ \A u \in Threads : u # h => want'[u] = want[u]
    BY <1>1, <2>2 DEF Fill, Inv, TypeOK
  <2>4. TypeOK'
    BY <1>1, <2>3 DEF Fill, Inv, TypeOK, bookVars, appVars, timerVars
  <2>5. LocalsOK'
    BY <1>1, <2>3 DEF Fill, Inv, TypeOK, LocalsOK, Reporting, Copying, bookVars
  <2>6. BookConsistent'
    BY <1>1 DEF Fill, Inv, BookConsistent, bookVars
  <2> QED BY <2>4, <2>5, <2>6 DEF Inv
<1>2. ASSUME NEW id \in ClOrdIDs, NEW q \in Int, q > 0, MayTrade(book[id], q),
             Trade(h, id, q), UNCHANGED <<appVars, sent, mute, todo, timerVars>>,
             want' \in [Threads -> [id : ClOrdIDs, qty : Int] \cup {NoWant}],
             \A u \in Threads : u # h => want'[u] = want[u]
      PROVE  Inv'
  <2>1. book[id] \in OrderState /\ Consistent(book[id])
    BY DEF Inv, TypeOK, BookConsistent
  <2> DEFINE o == Traded(book[id], q)
  <2>2. o \in OrderState /\ Consistent(o) /\ o.status \in Statuses /\ o.cum \in Int
    BY <1>2, <2>1, TradedOrder
  <2>3. book' = [book EXCEPT ![id] = o] /\ book'[id] = o
    BY <1>2 DEF Trade, Inv, TypeOK
  <2>4. Publish(h, ReportOf(id, o, ExecTypeTrade, q, FALSE))
    BY <1>2, <2>3 DEF Trade
  <2>5. ExecTypeTrade \in ExecTypes
    BY DEF ExecTypes
  <2>6. todo' \in [Threads -> SUBSET ClOrdIDs]
    BY <1>2 DEF Inv, TypeOK
  <2> HIDE DEF o
  <2> QED BY <1>2, <2>2, <2>3, <2>4, <2>5, <2>6, UpdateInv DEF Trade
<1>3. ASSUME NEW id \in ClOrdIDs, NEW q \in PartialQtys, Partial(h, id, q)
      PROVE  Inv'
  <2>1. q \in Int /\ q > 0 /\ MayTrade(book[id], q) /\ Trade(h, id, q)
    BY <1>3, InputAssumption DEF Partial
  <2>2. UNCHANGED <<appVars, sent, mute, todo, timerVars, want>>
    BY <1>3 DEF Partial, localVars
  <2>3. want' \in [Threads -> [id : ClOrdIDs, qty : Int] \cup {NoWant}]
    BY <2>2 DEF Inv, TypeOK
  <2> QED BY <1>2, <2>1, <2>2, <2>3
<1>4. CASE FillTrade(h)
  <2> DEFINE id == want[h].id
             q  == want[h].qty
  <2>1. id \in ClOrdIDs /\ q \in Int /\ q > 0
    BY <1>4 DEF FillTrade, Inv, LocalsOK
  <2>2. /\ want' \in [Threads -> [id : ClOrdIDs, qty : Int] \cup {NoWant}]
        /\ \A u \in Threads : u # h => want'[u] = want[u]
    BY <1>4 DEF FillTrade, Inv, TypeOK
  <2>3. CASE MayTrade(book[id], q)
    <3>1. Trade(h, id, q) /\ UNCHANGED <<appVars, sent, mute, todo, timerVars>>
      BY <1>4, <2>3 DEF FillTrade
    <3> QED BY <1>2, <2>1, <2>2, <2>3, <3>1
  <2>4. CASE ~ MayTrade(book[id], q)
    <3>1. pc' = [pc EXCEPT ![h] = "idle"] /\ UNCHANGED <<bookVars, rep>>
      BY <1>4, <2>4 DEF FillTrade
    <3>2. TypeOK'
      BY <1>4, <2>2, <3>1 DEF FillTrade, Inv, TypeOK, bookVars, appVars, timerVars
    <3>3. LocalsOK'
      BY <2>2, <3>1 DEF Inv, TypeOK, LocalsOK, Reporting, Copying, bookVars
    <3>4. BookConsistent'
      BY <3>1 DEF Inv, BookConsistent, bookVars
    <3> QED BY <3>2, <3>3, <3>4 DEF Inv
  <2> QED BY <2>3, <2>4
<1>5. ASSUME NEW id \in ClOrdIDs, NEW status \in {StatusCanceled, StatusRejected},
             NEW execType \in ExecTypes, Close(h, id, status, execType)
      PROVE  Inv'
  <2>1. book[id] \in OrderState /\ Consistent(book[id])
    BY DEF Inv, TypeOK, BookConsistent
  <2> DEFINE o == WithStatus(book[id], status)
  <2>2. o \in OrderState /\ Consistent(o) /\ o.status \in Statuses /\ o.cum \in Int
    BY <2>1, ClosedOrder
  <2>3. book' = [book EXCEPT ![id] = o] /\ book'[id] = o
    BY <1>5 DEF Close, Inv, TypeOK
  <2>4. Publish(h, ReportOf(id, o, execType, 0, FALSE))
    BY <1>5, <2>3 DEF Close
  <2>5. UNCHANGED <<orderSeq, execSeq, appVars, sent, want, mute, todo, timerVars>>
    BY <1>5 DEF Close, localVars
  <2>6. /\ want' \in [Threads -> [id : ClOrdIDs, qty : Int] \cup {NoWant}]
        /\ todo' \in [Threads -> SUBSET ClOrdIDs]
    BY <2>5 DEF Inv, TypeOK
  <2>7. /\ \A u \in Threads : u # h => want'[u] = want[u]
        /\ UNCHANGED <<orderSeq, execSeq, appVars, sent, mute, timerVars>>
    BY <2>5
  <2>8. 0 \in Int /\ FALSE \in BOOLEAN
    OBVIOUS
  <2> HIDE DEF o
  <2> QED BY <1>5, <2>2, <2>3, <2>4, <2>6, <2>7, <2>8, UpdateInv
<1>6. CASE CancelAll(h)
  <2>1. Snapshot(h) /\ UNCHANGED timerVars
    BY <1>6 DEF CancelAll
  <2>2. /\ timer' \in [Timers -> [sess : Session, left : Nat]]
        /\ back' \in [Timers -> {"no", "stayed", "left again"}]
        /\ ended' \in [Session -> {"logout", "drop"}]
    BY <2>1 DEF timerVars, Inv, TypeOK
  <2> QED BY <2>1, <2>2, SnapshotInv
<1> QED
  <2>1. ASSUME NEW id \in ClOrdIDs, Cancel(h, id) PROVE Inv'
    BY <1>5, <2>1 DEF Cancel, ExecTypes
  <2>2. ASSUME NEW id \in ClOrdIDs, Reject(h, id) PROVE Inv'
    BY <1>5, <2>2 DEF Reject, ExecTypes
  <2> QED BY <1>1, <1>3, <1>4, <1>6, <2>1, <2>2 DEF AdminRequest
\* The loop body of the mass cancel cancels whatever the order has become.
LEMMA CancelNextInv ==
  ASSUME Inv, NEW t \in Handlers \cup Timers, CancelNext(t)
  PROVE  Inv'
<1> t \in Threads /\ t # KindOrderEntry
  BY ThreadAssumption
<1>1. PICK id \in todo[t] :
        /\ todo' = [todo EXCEPT ![t] = @ \ {id}]
        /\ book' = [book EXCEPT ![id] = WithStatus(book[id], StatusCanceled)]
        /\ Publish(t, ReportOf(id, book'[id], ExecTypeCanceled, 0, TRUE))
  BY DEF CancelNext
<1>2. id \in ClOrdIDs
  BY DEF Inv, TypeOK
<1>3. book[id] \in OrderState /\ Consistent(book[id])
  BY <1>2 DEF Inv, TypeOK, BookConsistent
<1> DEFINE o == WithStatus(book[id], StatusCanceled)
<1>4. o \in OrderState /\ Consistent(o) /\ o.status \in Statuses /\ o.cum \in Int
  BY <1>3, ClosedOrder
<1>5. book'[id] = o
  BY <1>1, <1>2 DEF Inv, TypeOK
<1>6. Publish(t, ReportOf(id, o, ExecTypeCanceled, 0, TRUE)) /\ ExecTypeCanceled \in ExecTypes
  BY <1>1, <1>5 DEF ExecTypes
<1>7. UNCHANGED <<orderSeq, execSeq, appVars, sent, want, mute, timerVars>>
  BY DEF CancelNext
<1>8. /\ want' \in [Threads -> [id : ClOrdIDs, qty : Int] \cup {NoWant}]
      /\ todo' \in [Threads -> SUBSET ClOrdIDs]
  BY <1>1, <1>7 DEF Inv, TypeOK
<1>9. book' = [book EXCEPT ![id] = o]
  BY <1>1
<1>10. /\ \A u \in Threads : u # t => want'[u] = want[u]
       /\ UNCHANGED <<orderSeq, execSeq, appVars, sent, mute, timerVars>>
  BY <1>7
<1>11. 0 \in Int /\ TRUE \in BOOLEAN
  OBVIOUS
<1> HIDE DEF o
<1> QED BY <1>2, <1>4, <1>6, <1>8, <1>9, <1>10, <1>11, UpdateInv

\* A new order, and the unlocked copy of it into its acknowledgement.
LEMMA OrderEntryInv ==
  ASSUME Inv,
         \/ \E id \in ClOrdIDs, qty \in OrderQtys, tif \in TimesInForce :
              NewOrderSingle(id, qty, tif)
         \/ CopyStatus
         \/ CopyCumQty
  PROVE  Inv'
<1> DEFINE oe == KindOrderEntry
<1>1. ASSUME NEW id \in ClOrdIDs, NEW qty \in OrderQtys, NEW tif \in TimesInForce,
             NewOrderSingle(id, qty, tif)
      PROVE  Inv'
  <2> DEFINE o == NewOrder(orderSeq', qty, tif)
  <2>1. orderSeq \in Nat /\ orderSeq' = orderSeq + 1
    BY <1>1 DEF NewOrderSingle, Inv, TypeOK
  <2>2. o \in OrderState /\ Consistent(o) /\ o.status = StatusNew /\ o.cum = 0
    BY <2>1, InputAssumption DEF NewOrder, OrderState, Consistent
  <2>3. book' = [book EXCEPT ![id] = o] /\ book'[id] = o
    BY <1>1 DEF NewOrderSingle, Inv, TypeOK
  <2> DEFINE r == ReportOf(id, o, ExecTypeNew, 0, FALSE)
  <2>4. r \in Report /\ r.id = id
    <3>1. ShownQty(o.cum) \in Int /\ ShownQty(0) \in Int
      BY <2>2, ShownIsInt
    <3>2. o.status \in Statuses /\ FALSE \in BOOLEAN
      BY <2>2
    <3> HIDE DEF o
    <3> QED BY <3>1, <3>2 DEF ReportOf, Report, ExecTypes
  <2>5. rep' = [rep EXCEPT ![oe] = r]
    BY <1>1, <2>3 DEF NewOrderSingle
  <2>6. pc' = [pc EXCEPT ![oe] = "copy"]
        /\ UNCHANGED <<execSeq, appVars, sent, localVars, timerVars>>
    BY <1>1 DEF NewOrderSingle
  <2> HIDE DEF o, r
  <2>a. orderSeq' \in Nat
    BY <2>1
  <2>b. /\ book' \in [ClOrdIDs -> OrderState]
        /\ rep' \in [Threads -> Report \cup {NoReport}]
    BY <2>2, <2>3, <2>4, <2>5 DEF Inv, TypeOK
  <2>7. TypeOK'
    BY <2>a, <2>b, <2>6 DEF Inv, TypeOK, appVars, localVars, timerVars
  <2>8. LocalsOK'
    BY <2>2, <2>3, <2>4, <2>5, <2>6 DEF Inv, TypeOK, LocalsOK, Reporting, Copying, localVars
  <2>9. BookConsistent'
    BY <2>2, <2>3 DEF Inv, TypeOK, BookConsistent
  <2> QED BY <2>7, <2>8, <2>9 DEF Inv
<1>2. CASE CopyStatus
  <2>1. rep[oe] \in Report /\ book[rep[oe].id].status # Absent
    BY <1>2 DEF CopyStatus, Inv, LocalsOK, Reporting, Copying
  <2>2. rep[oe].id \in ClOrdIDs
    BY <2>1 DEF Report
  <2>3. book[rep[oe].id].status \in Statuses
    BY <2>1, <2>2 DEF Inv, TypeOK, OrderState
  <2> DEFINE r == [rep[oe] EXCEPT !.status = book[rep[oe].id].status]
  <2>4. r \in Report /\ r.id = rep[oe].id
    BY <2>1, <2>3 DEF Report
  <2>5. /\ rep' = [rep EXCEPT ![oe] = r]
        /\ pc' = [pc EXCEPT ![oe] = IF @ = "copy" THEN "copyCum" ELSE "publish"]
        /\ UNCHANGED <<bookVars, appVars, sent, localVars, timerVars>>
    BY <1>2 DEF CopyStatus
  <2> HIDE DEF r
  <2>6. TypeOK'
    BY <2>4, <2>5 DEF Inv, TypeOK, bookVars, appVars, localVars, timerVars
  <2>7. LocalsOK'
    BY <2>1, <2>4, <2>5 DEF Inv, TypeOK, LocalsOK, Reporting, Copying, bookVars, localVars
  <2>8. BookConsistent'
    BY <2>5 DEF Inv, BookConsistent, bookVars
  <2> QED BY <2>6, <2>7, <2>8 DEF Inv
<1>3. CASE CopyCumQty
  <2>1. rep[oe] \in Report /\ book[rep[oe].id].status # Absent
    BY <1>3 DEF CopyCumQty, Inv, LocalsOK, Reporting, Copying
  <2>2. rep[oe].id \in ClOrdIDs
    BY <2>1 DEF Report
  <2>3. ShownQty(book[rep[oe].id].cum) \in Int
    <3>1. book[rep[oe].id].cum \in Int
      BY <2>2 DEF Inv, TypeOK, OrderState
    <3> QED BY <3>1, ShownIsInt
  <2> DEFINE r == [rep[oe] EXCEPT !.cum = ShownQty(book[rep[oe].id].cum)]
  <2>4. r \in Report /\ r.id = rep[oe].id
    BY <2>1, <2>3 DEF Report
  <2>5. /\ rep' = [rep EXCEPT ![oe] = r]
        /\ pc' = [pc EXCEPT ![oe] = IF @ = "copy" THEN "copyStatus" ELSE "publish"]
        /\ UNCHANGED <<bookVars, appVars, sent, localVars, timerVars>>
    BY <1>3 DEF CopyCumQty
  <2> HIDE DEF r
  <2>6. TypeOK'
    BY <2>4, <2>5 DEF Inv, TypeOK, bookVars, appVars, localVars, timerVars
  <2>7. LocalsOK'
    BY <2>1, <2>4, <2>5 DEF Inv, TypeOK, LocalsOK, Reporting, Copying, bookVars, localVars
  <2>8. BookConsistent'
    BY <2>5 DEF Inv, BookConsistent, bookVars
  <2> QED BY <2>6, <2>7, <2>8 DEF Inv
<1> QED BY <1>1, <1>2, <1>3
\* Steps that leave every control point alone.
LEMMA SwitchInv ==
  ASSUME Inv, UNCHANGED <<bookVars, sent, pc, rep, localVars>>,
         silenced' \in BOOLEAN, rejectLogons' \in BOOLEAN,
         loggedOn' = loggedOn, cod' = cod, back' = back, ended' = ended,
         timer' \in [Timers -> [sess : Session, left : Nat]]
  PROVE  Inv'
<1>1. TypeOK'
  BY DEF Inv, TypeOK, bookVars, localVars
<1>2. LocalsOK'
  BY DEF Inv, LocalsOK, bookVars, localVars
<1>3. BookConsistent'
  BY DEF Inv, BookConsistent, bookVars
<1> QED BY <1>1, <1>2, <1>3 DEF Inv

\* What the types of App's and the timers' state let every step assume.
LEMMA AppTypes ==
  ASSUME Inv
  PROVE  /\ pc \in [Threads -> Points]
         /\ todo \in [Threads -> SUBSET ClOrdIDs]
         /\ silenced \in BOOLEAN /\ rejectLogons \in BOOLEAN
         /\ loggedOn \in [Session -> BOOLEAN]
         /\ cod \in [Session -> LogonRequests \cup {NoRequest}]
         /\ timer \in [Timers -> [sess : Session, left : Nat]]
         /\ back \in [Timers -> {"no", "stayed", "left again"}]
         /\ ended \in [Session -> {"logout", "drop"}]
  BY DEF Inv, TypeOK, Points

\* An armed window is a natural number of ticks, whoever armed it.
LEMMA WindowType ==
  ASSUME Inv, NEW s \in Session
  PROVE  cod[s].window \in Nat
<1>1. cod[s] \in LogonRequests \cup {NoRequest}
  BY AppTypes
<1>2. LogonRequests \subseteq LogonRequest
  BY InputAssumption DEF LogonRequests
<1>3. NoRequest.window \in Nat
  BY DEF NoRequest
<1> QED BY <1>1, <1>2, <1>3 DEF LogonRequest

LEMMA SessionInv ==
  ASSUME Inv, NEW s \in Session,
         \/ \E req \in LogonInputs[s] : FromAdminLogon(s, req)
         \/ OnLogon(s)
         \/ \E how \in Endings : OnLogout(s, how)
  PROVE  Inv'
<1> s \in Threads
  OBVIOUS
<1>1. ASSUME NEW req \in LogonInputs[s], FromAdminLogon(s, req)
      PROVE  Inv'
  <2>1. req \in LogonRequests
    BY DEF LogonRequests
  <2>2. cod' \in [Session -> LogonRequests \cup {NoRequest}]
    BY <1>1, <2>1, AppTypes DEF FromAdminLogon
  <2>3. /\ pc' \in [Threads -> Points] /\ pc'[s] \in Quiet
        /\ \A u \in Threads : u # s => pc'[u] = pc[u]
    BY <1>1, AppTypes DEF FromAdminLogon, Points, Quiet, Reporting, Copying
  <2>4. UNCHANGED <<bookVars, sent, rep, want, mute, todo, timer, back, ended, silenced,
                    rejectLogons, loggedOn>>
    BY <1>1 DEF FromAdminLogon, localVars, timerVars
  <2> QED BY <2>2, <2>3, <2>4, AppTypes, QuietInv
<1>2. CASE OnLogon(s)
  <2>1. loggedOn' \in [Session -> BOOLEAN]
    BY <1>2, AppTypes DEF OnLogon
  <2>2. back' \in [Timers -> {"no", "stayed", "left again"}]
    BY <1>2, AppTypes DEF OnLogon
  <2>3. /\ pc' \in [Threads -> Points] /\ pc'[s] \in Quiet
        /\ \A u \in Threads : u # s => pc'[u] = pc[u]
    BY <1>2, AppTypes DEF OnLogon, Points, Quiet, Reporting, Copying
  <2>4. UNCHANGED <<bookVars, sent, rep, want, mute, todo, timer, ended, silenced,
                    rejectLogons, cod>>
    BY <1>2 DEF OnLogon, localVars
  <2> QED BY <2>1, <2>2, <2>3, <2>4, AppTypes, QuietInv
<1>3. ASSUME NEW how \in Endings, OnLogout(s, how)
      PROVE  Inv'
  <2> DEFINE left == [k \in Timers |-> IF timer[k].sess = s /\ back[k] = "stayed"
                                       THEN "left again" ELSE back[k]]
  <2>1. loggedOn' \in [Session -> BOOLEAN]
    BY <1>3, AppTypes DEF OnLogout
  <2>2. UNCHANGED <<bookVars, sent, rep, want, mute, todo, silenced, rejectLogons, cod>>
    BY <1>3 DEF OnLogout, localVars
  <2>3. left \in [Timers -> {"no", "stayed", "left again"}]
    BY AppTypes
  <2>e. ended' \in [Session -> {"logout", "drop"}]
    <3>1. how \in {"logout", "drop"} /\ ended' = [ended EXCEPT ![s] = how]
      BY <1>3, InputAssumption DEF OnLogout
    <3> QED BY <3>1, AppTypes
  <2>4. CASE Armed(cod[s])
    <3>1. PICK k \in Timers :
            /\ timer' = [timer EXCEPT ![k] = [sess |-> s, left |-> cod[s].window]]
            /\ pc' = [pc EXCEPT ![k] = "waiting"]
            /\ back' = [left EXCEPT ![k] = "no"]
      BY <1>3, <2>4 DEF OnLogout
    <3>3. timer' \in [Timers -> [sess : Session, left : Nat]]
      BY <3>1, AppTypes, WindowType
    <3>4. back' \in [Timers -> {"no", "stayed", "left again"}]
      BY <2>3, <3>1
    <3>5. k \in Threads /\ pc' \in [Threads -> Points] /\ pc'[k] \in Quiet
          /\ \A u \in Threads : u # k => pc'[u] = pc[u]
      BY <3>1, AppTypes DEF Points, Quiet, Reporting, Copying
    <3> HIDE DEF left
    <3> QED BY <2>1, <2>2, <2>e, <3>3, <3>4, <3>5, AppTypes, QuietInv
  <2>5. CASE ~ Armed(cod[s])
    <3>1. back' = left /\ UNCHANGED <<timer, pc>>
      BY <1>3, <2>5 DEF OnLogout
    <3>2. pc'[s] \in Quiet
      BY <1>3, <3>1 DEF OnLogout, Points, Quiet, Reporting, Copying
    <3> HIDE DEF left
    <3> QED BY <2>1, <2>2, <2>3, <2>e, <3>1, <3>2, AppTypes, QuietInv
  <2> QED BY <2>4, <2>5
<1> QED BY <1>1, <1>2, <1>3

LEMMA TimerInv ==
  ASSUME Inv, Tick \/ \E k \in Timers : TimerStep(k)
  PROVE  Inv'
<1>1. CASE Tick
  <2>1. timer' \in [Timers -> [sess : Session, left : Nat]]
    <3>1. \A k \in Timers : timer[k] \in [sess : Session, left : Nat]
      BY AppTypes
    <3>2. \A k \in Timers : Running(k) =>
            [timer[k] EXCEPT !.left = @ - 1]
              \in [sess : Session, left : Nat]
      BY <3>1 DEF Running
    <3> QED BY <1>1, <3>1, <3>2 DEF Tick
  <2>2. UNCHANGED <<bookVars, sent, pc, rep, localVars, silenced, rejectLogons,
                    loggedOn, cod, back, ended>>
    BY <1>1 DEF Tick, appVars
  <2> QED BY <2>1, <2>2, AppTypes, SwitchInv
<1>2. ASSUME NEW k \in Timers, TimerFires(k)
      PROVE  Inv'
  <2>1. /\ timer' \in [Timers -> [sess : Session, left : Nat]]
        /\ back' \in [Timers -> {"no", "stayed", "left again"}]
        /\ ended' = ended
    <3>1. CASE DropTimer(k)
      BY <3>1, AppTypes DEF DropTimer, NoTimer
    <3>2. CASE UNCHANGED timerVars
      BY <3>2, AppTypes DEF timerVars
    <3> QED BY <1>2, <3>1, <3>2 DEF TimerFires
  <2>2. k \in Threads /\ pc' \in [Threads -> Points] /\ pc'[k] \in Quiet
        /\ \A u \in Threads : u # k => pc'[u] = pc[u]
    BY <1>2, AppTypes DEF TimerFires, Points, Quiet, Reporting, Copying
  <2>3. UNCHANGED <<bookVars, sent, rep, want, mute, todo, silenced, rejectLogons,
                    loggedOn, cod>>
    BY <1>2 DEF TimerFires, appVars, localVars
  <2> QED BY <2>1, <2>2, <2>3, AppTypes, QuietInv
<1>3. ASSUME NEW k \in Timers, CancelOnDisconnect(k)
      PROVE  Inv'
  <2>1. /\ timer' \in [Timers -> [sess : Session, left : Nat]]
        /\ back' \in [Timers -> {"no", "stayed", "left again"}]
        /\ ended' \in [Session -> {"logout", "drop"}]
    BY <1>3, AppTypes DEF CancelOnDisconnect, DropTimer, NoTimer
  <2> QED BY <1>3, <2>1, SnapshotInv DEF CancelOnDisconnect
<1> QED BY <1>1, <1>2, <1>3 DEF TimerStep

LEMMA StepInv == Inv /\ [Next]_vars => Inv'
<1> SUFFICES ASSUME Inv, [Next]_vars PROVE Inv'
  OBVIOUS
<1>1. ASSUME NEW t \in Threads, PublishStep(t) PROVE Inv'
  BY <1>1, PublishInv
<1>2. ASSUME NEW t \in Handlers \cup Timers, CancelNext(t) PROVE Inv'
  BY <1>2, CancelNextInv
<1>3. ASSUME NEW h \in Handlers, AdminRequest(h) \/ FillTrade(h) PROVE Inv'
  BY <1>3, AdminInv
<1>4. ASSUME NEW v \in BOOLEAN, SetSilenced(v) \/ SetRejectLogons(v) PROVE Inv'
  <2>1. /\ UNCHANGED <<bookVars, sent, pc, rep, localVars, loggedOn, cod, timer, back, ended>>
        /\ silenced' \in BOOLEAN /\ rejectLogons' \in BOOLEAN
    BY <1>4, AppTypes DEF SetSilenced, SetRejectLogons, timerVars
  <2> QED BY <2>1, AppTypes, SwitchInv
<1>5. ASSUME NEW id \in ClOrdIDs, NEW qty \in OrderQtys, NEW tif \in TimesInForce,
             NewOrderSingle(id, qty, tif)
      PROVE  Inv'
  BY <1>5, OrderEntryInv
<1>6. ASSUME NEW s \in Session, SessionStep(s) PROVE Inv'
  BY <1>6, OrderEntryInv, SessionInv DEF SessionStep
<1>7. ASSUME NEW s \in Session, NEW req \in LogonInputs[s], FromAdminLogon(s, req)
      PROVE  Inv'
  BY <1>7, SessionInv
<1>8. ASSUME NEW s \in Session, NEW how \in Endings, OnLogout(s, how) PROVE Inv'
  BY <1>8, SessionInv
<1>9. ASSUME NEW k \in Timers, TimerStep(k) PROVE Inv'
  BY <1>9, TimerInv
<1>10. CASE Tick
  BY <1>10, TimerInv
<1>11. CASE UNCHANGED vars
  <2>1. UNCHANGED <<bookVars, sent, pc, rep, localVars, silenced, rejectLogons,
                    loggedOn, cod, timer, back, ended>>
    BY <1>11 DEF vars, appVars, timerVars
  <2> QED BY <2>1, AppTypes, SwitchInv
<1> QED
  BY <1>1, <1>2, <1>3, <1>4, <1>5, <1>6, <1>7, <1>8, <1>9, <1>10, <1>11 DEF Next

----------------------------------------------------------------------------
\* The inductive invariant holds of every behaviour.
THEOREM Invariance == Spec => []Inv
<1> QED BY InitInv, StepInv, PTL DEF Spec

\* Every variable keeps its type, and each goroutine's locals are what its
\* control point needs: publish never runs on a report that was not built.
THEOREM Typing == Spec => []TypeOK
<1>1. Inv => TypeOK
  BY DEF Inv
<1> QED BY <1>1, Invariance, PTL

\* No order is ever over-filled, or shows a status that contradicts what has
\* traded, however fills, cancels, rejects, mass cancels and COD timers race.
THEOREM Consistency == Spec => []BookConsistent
<1>1. Inv => BookConsistent
  BY DEF Inv
<1> QED BY <1>1, Invariance, PTL

----------------------------------------------------------------------------
(* What a step of the venue can be, for the book and the reports.           *)

\* A trade, by POST /admin/partial or the second half of /admin/fill.
Trading(h, id, q) ==
    /\ \/ pc[h] = "idle" /\ q \in PartialQtys
       \/ pc[h] = "trade" /\ id = want[h].id /\ q = want[h].qty
    /\ q > 0 /\ MayTrade(book[id], q)
    /\ Trade(h, id, q)
    /\ UNCHANGED <<sent, todo>>

\* A cancel, a reject, or one round of the mass cancel.
Closing(t, id, status, execType, restated) ==
    /\ pc[t] \in {"idle", "sweep"}
    /\ restated => id \in todo[t]
    /\ book' = [book EXCEPT ![id] = WithStatus(book[id], status)]
    /\ Publish(t, ReportOf(id, book'[id], execType, 0, restated))
    /\ todo' \in {todo, [todo EXCEPT ![t] = @ \ {id}]}
    /\ UNCHANGED <<orderSeq, execSeq, sent>>

\* No report is made, changed or published.
Still ==
    /\ UNCHANGED <<book, execSeq, sent>>
    /\ \A t \in Threads : pc[t] \in Reporting \/ pc'[t] \in Reporting =>
         pc'[t] = pc[t] /\ rep'[t] = rep[t]

StepKind ==
    \/ Still
    \/ \E h \in Handlers, id \in ClOrdIDs, q \in Int : Trading(h, id, q)
    \/ \E t \in Handlers \cup Timers, id \in ClOrdIDs,
          status \in {StatusCanceled, StatusRejected},
          execType \in {ExecTypeCanceled, ExecTypeRejected}, restated \in BOOLEAN :
         Closing(t, id, status, execType, restated)
    \/ \E id \in ClOrdIDs, qty \in OrderQtys, tif \in TimesInForce :
         NewOrderSingle(id, qty, tif)
    \/ CopyStatus
    \/ CopyCumQty
    \/ \E t \in Threads : PublishStep(t)

\* One goroutine moves, outside Reporting.
LEMMA OneMovesStill ==
  ASSUME Inv, NEW t \in Threads, NEW point \in Points,
         pc[t] \notin Reporting, point \notin Reporting,
         pc' = [pc EXCEPT ![t] = point], rep' = rep,
         UNCHANGED <<book, execSeq, sent>>
  PROVE  Still
<1>1. pc'[t] = point /\ \A u \in Threads : u # t => pc'[u] = pc[u]
  BY AppTypes
<1> QED BY <1>1 DEF Still

LEMMA SnapshotStill ==
  ASSUME Inv, NEW t \in Threads, pc[t] \in {"idle", "lost"}, Snapshot(t)
  PROVE  Still
<1> DEFINE point == IF OpenDayOrders(book) = {} THEN "idle" ELSE "sweep"
<1>1. pc' = [pc EXCEPT ![t] = point] /\ rep' = rep /\ UNCHANGED <<book, execSeq, sent>>
  BY DEF Snapshot, bookVars
<1>2. point \in Points /\ point \notin Reporting /\ pc[t] \notin Reporting
  BY DEF Points, Reporting, Copying
<1> HIDE DEF point
<1> QED BY <1>1, <1>2, OneMovesStill

LEMMA AdminKind ==
  ASSUME Inv, NEW h \in Handlers, AdminRequest(h) \/ FillTrade(h)
  PROVE  StepKind
<1> h \in Threads
  OBVIOUS
<1>1. ASSUME NEW id \in ClOrdIDs, Fill(h, id) PROVE Still
  <2>1. /\ pc[h] = "idle" /\ pc' = [pc EXCEPT ![h] = "trade"] /\ rep' = rep
        /\ UNCHANGED <<book, execSeq, sent>>
    BY <1>1 DEF Fill, bookVars
  <2> QED BY <2>1, OneMovesStill DEF Points, Reporting, Copying
<1>2. ASSUME NEW id \in ClOrdIDs, NEW q \in PartialQtys, Partial(h, id, q)
      PROVE  q \in Int /\ Trading(h, id, q)
  BY <1>2, InputAssumption DEF Partial, Trading, localVars
<1>3. CASE FillTrade(h)
  <2>1. CASE MayTrade(book[want[h].id], want[h].qty)
    <3>1. want[h].id \in ClOrdIDs /\ want[h].qty \in Int /\ want[h].qty > 0
      BY <1>3 DEF FillTrade, Inv, LocalsOK
    <3>2. Trading(h, want[h].id, want[h].qty)
      BY <1>3, <2>1, <3>1 DEF FillTrade, Trading
    <3> QED BY <3>1, <3>2 DEF StepKind
  <2>2. CASE ~ MayTrade(book[want[h].id], want[h].qty)
    <3>1. /\ pc[h] = "trade" /\ pc' = [pc EXCEPT ![h] = "idle"] /\ rep' = rep
          /\ UNCHANGED <<book, execSeq, sent>>
      BY <1>3, <2>2 DEF FillTrade, bookVars
    <3>2. Still
      BY <3>1, OneMovesStill DEF Points, Reporting, Copying
    <3> QED BY <3>2 DEF StepKind
  <2> QED BY <2>1, <2>2
<1>4. ASSUME NEW id \in ClOrdIDs, Cancel(h, id) \/ Reject(h, id)
      PROVE  \E status \in {StatusCanceled, StatusRejected},
                execType \in {ExecTypeCanceled, ExecTypeRejected} :
               Closing(h, id, status, execType, FALSE)
  BY <1>4 DEF Cancel, Reject, Close, Closing, localVars
<1>5. CASE CancelAll(h)
  BY <1>5, SnapshotStill DEF CancelAll, StepKind
<1> QED BY <1>1, <1>2, <1>3, <1>4, <1>5 DEF AdminRequest, StepKind

LEMMA SessionKind ==
  ASSUME Inv, NEW s \in Session,
         \/ \E req \in LogonInputs[s] : FromAdminLogon(s, req)
         \/ OnLogon(s)
         \/ \E how \in Endings : OnLogout(s, how)
  PROVE  Still
<1> s \in Threads
  OBVIOUS
<1>1. rep' = rep /\ UNCHANGED <<book, execSeq, sent>>
  BY DEF FromAdminLogon, OnLogon, OnLogout, bookVars
<1>2. ASSUME NEW req \in LogonInputs[s], FromAdminLogon(s, req) PROVE Still
  <2>1. pc[s] = "idle" /\ pc' = [pc EXCEPT ![s] = "logon"]
    BY <1>2 DEF FromAdminLogon
  <2> QED BY <1>1, <2>1, OneMovesStill DEF Points, Reporting, Copying
<1>3. CASE OnLogon(s)
  <2>1. pc[s] = "logon" /\ pc' = [pc EXCEPT ![s] = "idle"]
    BY <1>3 DEF OnLogon
  <2> QED BY <1>1, <2>1, OneMovesStill DEF Points, Reporting, Copying
<1>4. ASSUME NEW how \in Endings, OnLogout(s, how) PROVE Still
  <2>1. CASE Armed(cod[s])
    <3>1. PICK k \in Timers : pc[k] = "idle" /\ pc' = [pc EXCEPT ![k] = "waiting"]
      BY <1>4, <2>1 DEF OnLogout
    <3>2. k \in Threads
      OBVIOUS
    <3> QED BY <1>1, <3>1, <3>2, OneMovesStill DEF Points, Reporting, Copying
  <2>2. CASE ~ Armed(cod[s])
    <3>1. pc' = pc
      BY <1>4, <2>2 DEF OnLogout
    <3> QED BY <1>1, <3>1 DEF Still
  <2> QED BY <2>1, <2>2
<1> QED BY <1>2, <1>3, <1>4

LEMMA TimerKind ==
  ASSUME Inv, NEW k \in Timers, TimerStep(k)
  PROVE  Still
<1> k \in Threads
  OBVIOUS
<1>1. CASE TimerFires(k)
  <2>1. PICK point \in {"idle", "lost"} :
          /\ pc[k] = "waiting" /\ pc' = [pc EXCEPT ![k] = point] /\ rep' = rep
          /\ UNCHANGED <<book, execSeq, sent>>
    BY <1>1 DEF TimerFires, bookVars
  <2> QED BY <2>1, OneMovesStill DEF Points, Reporting, Copying
<1>2. CASE CancelOnDisconnect(k)
  BY <1>2, SnapshotStill DEF CancelOnDisconnect
<1> QED BY <1>1, <1>2 DEF TimerStep

\* Every step of the venue is of one of these kinds.
LEMMA StepKinds == ASSUME Inv, [Next]_vars PROVE StepKind
<1>1. ASSUME NEW t \in Handlers \cup Timers, CancelNext(t) PROVE StepKind
  <2>1. PICK id \in todo[t] :
          /\ todo' = [todo EXCEPT ![t] = @ \ {id}]
          /\ book' = [book EXCEPT ![id] = WithStatus(book[id], StatusCanceled)]
          /\ Publish(t, ReportOf(id, book'[id], ExecTypeCanceled, 0, TRUE))
    BY <1>1 DEF CancelNext
  <2>2. id \in ClOrdIDs
    BY <2>1, AppTypes
  <2>3. Closing(t, id, StatusCanceled, ExecTypeCanceled, TRUE)
    BY <1>1, <2>1 DEF CancelNext, Closing
  <2> QED BY <2>2, <2>3 DEF StepKind
<1>2. ASSUME NEW v \in BOOLEAN, SetSilenced(v) \/ SetRejectLogons(v) PROVE Still
  BY <1>2 DEF SetSilenced, SetRejectLogons, bookVars, Still
<1>3. ASSUME NEW s \in Session, SessionStep(s) PROVE StepKind
  BY <1>3, SessionKind DEF SessionStep, StepKind
<1>4. CASE Tick
  BY <1>4 DEF Tick, bookVars, Still, StepKind
<1>5. CASE UNCHANGED vars
  BY <1>5 DEF vars, bookVars, Still, StepKind
<1>6. ASSUME NEW h \in Handlers, AdminRequest(h) \/ FillTrade(h) PROVE StepKind
  BY <1>6, AdminKind
<1>7. ASSUME NEW s \in Session, NEW req \in LogonInputs[s], FromAdminLogon(s, req)
      PROVE  Still
  BY <1>7, SessionKind
<1>8. ASSUME NEW s \in Session, NEW how \in Endings, OnLogout(s, how) PROVE Still
  BY <1>8, SessionKind
<1>9. ASSUME NEW k \in Timers, TimerStep(k) PROVE Still
  BY <1>9, TimerKind
<1> QED
  BY <1>1, <1>2, <1>3, <1>4, <1>5, <1>6, <1>7, <1>8, <1>9 DEF Next, StepKind
=============================================================================
