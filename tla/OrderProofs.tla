----------------------------- MODULE OrderProofs -----------------------------
(***************************************************************************)
(* Theorems about what may become of an order: its life cycle, a fill that *)
(* reads and trades in two critical sections, the timers of cancel on      *)
(* disconnect, and the orders they must not touch.                         *)
(***************************************************************************)
EXTENDS FeedProofs

USE DEF Session, KindOrderEntry, KindDropCopy, Threads, oe, dc,
        Statuses, OpenStatuses, FinalStatuses, StatusNew, StatusPartiallyFilled,
        StatusFilled, StatusCanceled, StatusRejected, Absent

----------------------------------------------------------------------------
(* The life cycle.                                                          *)

\* What a step may do to an order the book holds.
Aged(old, new) ==
    /\ new.status # Absent
    /\ new.orderID = old.orderID /\ new.qty = old.qty /\ new.tif = old.tif
    /\ new.cum >= old.cum
    /\ ~ IsOpen(old) => ~ IsOpen(new) /\ new.cum = old.cum

Ageing == \A id \in ClOrdIDs : book[id].status # Absent => Aged(book[id], book'[id])

LEMMA TradedAges ==
  ASSUME NEW o \in OrderState, NEW q \in Int, q > 0, MayTrade(o, q)
  PROVE  Aged(o, Traded(o, q))
<1>1. IsOpen(o) /\ o.cum \in Int
  BY DEF MayTrade, OrderState
<1>2. /\ Traded(o, q).orderID = o.orderID /\ Traded(o, q).qty = o.qty
      /\ Traded(o, q).tif = o.tif /\ Traded(o, q).cum = o.cum + q
      /\ Traded(o, q).status \in {StatusFilled, StatusPartiallyFilled}
  BY DEF Traded, OrderState
<1> QED BY <1>1, <1>2 DEF Aged

LEMMA ClosedAges ==
  ASSUME NEW o \in OrderState, NEW status \in {StatusCanceled, StatusRejected}
  PROVE  Aged(o, WithStatus(o, status))
  BY DEF Aged, WithStatus, OrderState, IsOpen

LEMMA StepAges == ASSUME Inv, [Next]_vars PROVE Ageing
<1>0. \A id \in ClOrdIDs : book[id] \in OrderState
  BY DEF Inv, TypeOK
<1>1. CASE book' = book
  BY <1>0, <1>1 DEF Ageing, Aged, OrderState
<1>2. ASSUME NEW id \in ClOrdIDs, NEW o, book' = [book EXCEPT ![id] = o],
             book[id].status # Absent => Aged(book[id], o)
      PROVE  Ageing
  <2>1. book'[id] = o /\ \A other \in ClOrdIDs : other # id => book'[other] = book[other]
    BY <1>2 DEF Inv, TypeOK
  <2> QED BY <1>0, <1>2, <2>1 DEF Ageing, Aged, OrderState
<1>3. ASSUME NEW h \in Handlers, NEW id \in ClOrdIDs, NEW q \in Int, Trading(h, id, q)
      PROVE  Ageing
  BY <1>0, <1>2, <1>3, TradedAges DEF Trading, Trade
<1>4. ASSUME NEW t, NEW id \in ClOrdIDs, NEW status \in {StatusCanceled, StatusRejected},
             NEW execType, NEW restated, Closing(t, id, status, execType, restated)
      PROVE  Ageing
  BY <1>0, <1>2, <1>4, ClosedAges DEF Closing
<1>5. ASSUME NEW id \in ClOrdIDs, NEW qty, NEW tif, NewOrderSingle(id, qty, tif)
      PROVE  Ageing
  BY <1>2, <1>5 DEF NewOrderSingle
<1>6. CASE CopyStatus \/ CopyCumQty \/ \E t \in Threads : PublishStep(t)
  BY <1>1, <1>6 DEF CopyStatus, CopyCumQty, PublishStep, ReadSilenced, AssignExecID,
                    SendOE, SendDC, bookVars
<1> QED BY <1>1, <1>3, <1>4, <1>5, <1>6, StepKinds DEF StepKind, Still

\* A closed order never works or trades again, and what the client fixed never
\* changes, whichever handler, mass cancel or timer touches the order last.
THEOREM Lifecycle == Spec => OrderLifecycle
<1>1. Inv /\ [Next]_vars =>
        [\A id \in ClOrdIDs : book[id].status # Absent =>
           /\ book'[id].orderID = book[id].orderID
           /\ book'[id].qty = book[id].qty
           /\ book'[id].tif = book[id].tif
           /\ book'[id].cum >= book[id].cum
           /\ ~ IsOpen(book[id]) => ~ IsOpen(book'[id]) /\ book'[id].cum = book[id].cum
        ]_vars
  BY StepAges DEF Ageing, Aged
<1> QED BY <1>1, Invariance, PTL DEF Spec, OrderLifecycle

----------------------------------------------------------------------------
(* POST /admin/fill.                                                        *)

\* A pending fill is of an order that existed when its leaves were read, and
\* asks for no less than is left of it now.
WantInv ==
    \A h \in Handlers : pc[h] = "trade" =>
        /\ book[want[h].id].status # Absent
        /\ want[h].qty >= book[want[h].id].qty - book[want[h].id].cum

Pending(h) == (pc'[h] = "trade" <=> pc[h] = "trade") /\ want'[h] = want[h]

\* Only the two halves of its own Fill move a handler to or from the pending
\* trade.
LEMMA Wanting ==
  ASSUME Inv, [Next]_vars, NEW h \in Handlers
  PROVE  Pending(h) \/ FillTrade(h) \/ \E id \in ClOrdIDs : Fill(h, id)
<1> USE AppTypes DEF Pending
<1>0. h \in Threads /\ h \notin Session /\ h \notin Timers
  BY ThreadAssumption
<1>1. ASSUME NEW t \in Threads, PublishStep(t) \/ CancelNext(t)
      PROVE  Pending(h)
  BY <1>0, <1>1 DEF PublishStep, ReadSilenced, AssignExecID, SendOE, SendDC, Resume,
                    CancelNext, Publish, localVars
<1>2. ASSUME NEW g \in Handlers, AdminRequest(g) \/ FillTrade(g),
             ~ FillTrade(h), \A id \in ClOrdIDs : ~ Fill(h, id)
      PROVE  Pending(h)
  <2>1. ASSUME NEW id \in ClOrdIDs, Fill(g, id) PROVE Pending(h)
    BY <1>0, <1>2, <2>1 DEF Fill, Inv, TypeOK
  <2>2. ASSUME NEW id \in ClOrdIDs, NEW q, Partial(g, id, q)
        PROVE  Pending(h)
    BY <1>0, <2>2 DEF Partial, Trade, Publish, localVars
  <2>3. ASSUME NEW id \in ClOrdIDs, NEW st, NEW type, Close(g, id, st, type)
        PROVE  Pending(h)
    BY <1>0, <2>3 DEF Close, Publish, localVars
  <2>4. CASE CancelAll(g)
    BY <1>0, <2>4 DEF CancelAll, Snapshot
  <2>5. CASE FillTrade(g)
    <3>1. g # h
      BY <1>2, <2>5
    <3> QED BY <1>0, <2>5, <3>1 DEF FillTrade, Trade, Publish, Inv, TypeOK
  <2> QED BY <1>2, <2>1, <2>2, <2>3, <2>4, <2>5 DEF AdminRequest, Cancel, Reject
<1>3. ASSUME NEW v, SetSilenced(v) \/ SetRejectLogons(v) PROVE Pending(h)
  BY <1>3 DEF SetSilenced, SetRejectLogons, localVars
<1>4. ASSUME NEW id, NEW qty, NEW tif, NewOrderSingle(id, qty, tif)
      PROVE  Pending(h)
  BY <1>0, <1>4 DEF NewOrderSingle, localVars
<1>5. ASSUME NEW s \in Session, SessionStep(s) PROVE Pending(h)
  BY <1>0, <1>5 DEF SessionStep, OnLogon, CopyStatus, CopyCumQty, localVars
<1>6. ASSUME NEW s \in Session, NEW req, FromAdminLogon(s, req)
      PROVE  Pending(h)
  BY <1>0, <1>6 DEF FromAdminLogon, localVars
<1>7. ASSUME NEW s \in Session, NEW how, OnLogout(s, how) PROVE Pending(h)
  BY <1>0, <1>7 DEF OnLogout, localVars
<1>8. ASSUME NEW k \in Timers, TimerStep(k) PROVE Pending(h)
  BY <1>0, <1>8 DEF TimerStep, TimerFires, CancelOnDisconnect, Snapshot, localVars
<1>9. CASE Tick \/ UNCHANGED vars
  BY <1>9 DEF Tick, vars, localVars
<1> QED
  BY <1>1, <1>2, <1>3, <1>4, <1>5, <1>6, <1>7, <1>8, <1>9 DEF Next

LEMMA StepWant == Inv /\ WantInv /\ [Next]_vars => WantInv'
<1> SUFFICES ASSUME Inv, WantInv, [Next]_vars, NEW h \in Handlers, pc'[h] = "trade"
             PROVE  /\ book'[want'[h].id].status # Absent
                    /\ want'[h].qty >= book'[want'[h].id].qty - book'[want'[h].id].cum
  BY DEF WantInv
<1>1. CASE pc[h] = "trade" /\ want'[h] = want[h]
  <2> DEFINE id == want[h].id
  <2>1. id \in ClOrdIDs /\ want[h].qty \in Int
    BY <1>1 DEF Inv, LocalsOK
  <2>2. book[id] \in OrderState /\ book[id].status # Absent
        /\ want[h].qty >= book[id].qty - book[id].cum
    BY <1>1, <2>1 DEF Inv, TypeOK, WantInv
  <2>3. Aged(book[id], book'[id])
    BY <2>1, <2>2, StepAges DEF Ageing
  <2>4. book'[id] \in OrderState
    BY <2>1, StepInv DEF Inv, TypeOK
  <2> QED BY <1>1, <2>1, <2>2, <2>3, <2>4 DEF Aged, OrderState
<1>2. ASSUME NEW id \in ClOrdIDs, Fill(h, id)
      PROVE  /\ book'[want'[h].id].status # Absent
             /\ want'[h].qty >= book'[want'[h].id].qty - book'[want'[h].id].cum
  <2>1. /\ LeavesQty(book[id]) > 0 /\ book' = book
        /\ want'[h] = [id |-> id, qty |-> LeavesQty(book[id])]
    BY <1>2 DEF Fill, bookVars, Inv, TypeOK
  <2>2. book[id] \in OrderState
    BY DEF Inv, TypeOK
  <2>3. IsOpen(book[id]) /\ LeavesQty(book[id]) = book[id].qty - book[id].cum
    BY <2>1 DEF LeavesQty
  <2> QED BY <2>1, <2>2, <2>3 DEF IsOpen, OrderState
<1>3. ~ FillTrade(h)
  BY AppTypes DEF FillTrade, Trade, Publish
<1> QED BY <1>1, <1>2, <1>3, Wanting DEF Pending

LEMMA WantInvariance == Spec => []WantInv
<1>1. Init => WantInv
  BY DEF Init, WantInv
<1> QED BY <1>1, StepWant, Invariance, PTL DEF Spec

\* The second half of a fill completes the order or is refused: whatever traded
\* in between, a fill never leaves an order partially filled.
THEOREM FillCompletes == Spec => FillFillsOrRefuses
<1>1. ASSUME Inv, WantInv, [Next]_vars, NEW h \in Handlers,
             pc[h] = "trade", pc'[h] = "publish"
      PROVE  book'[want[h].id].status = StatusFilled
  <2>0. FillTrade(h)
    BY <1>1, Wanting DEF Pending, Fill
  <2>1. FillTrade(h) /\ MayTrade(book[want[h].id], want[h].qty)
    BY <1>1, <2>0, AppTypes DEF FillTrade
  <2> DEFINE id == want[h].id
             q  == want[h].qty
  <2>2. id \in ClOrdIDs /\ q \in Int /\ q >= book[id].qty - book[id].cum
    BY <1>1 DEF Inv, LocalsOK, WantInv
  <2>3. book[id] \in OrderState
    BY <1>1, <2>2 DEF Inv, TypeOK
  <2>4. q = book[id].qty - book[id].cum
    BY <2>1, <2>2, <2>3 DEF MayTrade, LeavesQty, OrderState
  <2>5. Trade(h, id, q)
    BY <2>1 DEF FillTrade
  <2>6. book'[id] = Traded(book[id], q)
    BY <1>1, <2>2, <2>5 DEF Trade, Inv, TypeOK
  <2>7. Traded(book[id], q).status = StatusFilled
    BY <2>3, <2>4 DEF Traded, OrderState
  <2> QED BY <2>6, <2>7
<1>2. Inv /\ WantInv /\ [Next]_vars =>
        [\A h \in Handlers : pc[h] = "trade" /\ pc'[h] = "publish" =>
           book'[want[h].id].status = StatusFilled]_vars
  BY <1>1
<1> QED BY <1>2, Invariance, WantInvariance, PTL DEF Spec, FillFillsOrRefuses

----------------------------------------------------------------------------
(* The grace of cancel on disconnect.                                       *)

\* A timer marked "stayed" is still pending, and its session is up.
GraceInv == \A k \in Timers : back[k] = "stayed" =>
              pc[k] = "waiting" /\ loggedOn[timer[k].sess]

\* A step that no pending timer and no session can tell from a stutter.
Undisturbed ==
    /\ loggedOn' = loggedOn /\ back' = back
    /\ \A k \in Timers : /\ pc[k] = "waiting" => pc'[k] = "waiting"
                         /\ timer'[k].sess = timer[k].sess

\* Only Logons, ends of sessions and the timers themselves are anything else.
LEMMA TimersStay ==
  ASSUME Inv, [Next]_vars
  PROVE  \/ Undisturbed
         \/ \E s \in Session : OnLogon(s)
         \/ \E s \in Session, how \in Endings : OnLogout(s, how)
         \/ \E k \in Timers : TimerStep(k)
<1> USE AppTypes DEF Undisturbed, bookVars, appVars, localVars, timerVars
<1>1. ASSUME NEW t \in Threads, PublishStep(t) \/ CancelNext(t) PROVE Undisturbed
  BY <1>1 DEF PublishStep, ReadSilenced, AssignExecID, SendOE, SendDC, CancelNext, Publish
<1>2. ASSUME NEW h \in Handlers, AdminRequest(h) \/ FillTrade(h) PROVE Undisturbed
  <2>1. h \notin Timers
    BY ThreadAssumption
  <2> QED BY <1>2, <2>1 DEF AdminRequest, Fill, Partial, Trade, Cancel, Reject, Close,
                            CancelAll, Snapshot, FillTrade, Publish
<1>3. ASSUME NEW v, SetSilenced(v) \/ SetRejectLogons(v) PROVE Undisturbed
  BY <1>3 DEF SetSilenced, SetRejectLogons
<1>4. ASSUME NEW id, NEW qty, NEW tif, NewOrderSingle(id, qty, tif) PROVE Undisturbed
  BY <1>4, ThreadAssumption DEF NewOrderSingle
<1>5. CASE CopyStatus \/ CopyCumQty
  BY <1>5, ThreadAssumption DEF CopyStatus, CopyCumQty
<1>6. ASSUME NEW s \in Session, NEW req, FromAdminLogon(s, req) PROVE Undisturbed
  BY <1>6, ThreadAssumption DEF FromAdminLogon
<1>7. CASE Tick
  BY <1>7 DEF Tick
<1>8. CASE UNCHANGED vars
  BY <1>8 DEF vars
<1> QED BY <1>1, <1>2, <1>3, <1>4, <1>5, <1>6, <1>7, <1>8 DEF Next, SessionStep

LEMMA StepGrace ==
  ASSUME Inv, GraceInv, [Next]_vars
  PROVE  GraceInv' /\ \A k \in Timers : back[k] = "stayed" => pc'[k] # "sweep"
<1> USE AppTypes DEF GraceInv
<1>1. CASE Undisturbed
  BY <1>1 DEF Undisturbed
<1>2. ASSUME NEW s \in Session, OnLogon(s)
      PROVE  GraceInv' /\ \A k \in Timers : back[k] = "stayed" => pc'[k] # "sweep"
  <2>1. s \notin Timers
    BY ThreadAssumption
  <2> QED BY <1>2, <2>1 DEF OnLogon
<1>3. ASSUME NEW s \in Session, NEW how \in Endings, OnLogout(s, how)
      PROVE  GraceInv' /\ \A k \in Timers : back[k] = "stayed" => pc'[k] # "sweep"
  <2>1. ASSUME NEW k \in Timers, back'[k] = "stayed"
        PROVE  /\ back[k] = "stayed" /\ timer[k].sess # s
               /\ pc'[k] = pc[k] /\ timer'[k] = timer[k]
    <3> DEFINE left == [i \in Timers |-> IF timer[i].sess = s /\ back[i] = "stayed"
                                        THEN "left again" ELSE back[i]]
    <3>1. ASSUME Armed(cod[s])
          PROVE  back'[k] = left[k] /\ pc'[k] = pc[k] /\ timer'[k] = timer[k]
      <4>1. PICK j \in Timers :
              /\ timer' = [timer EXCEPT ![j] = [sess |-> s, left |-> cod[s].window]]
              /\ pc' = [pc EXCEPT ![j] = "waiting"]
              /\ back' = [left EXCEPT ![j] = "no"]
        BY <1>3, <3>1 DEF OnLogout
      <4>2. k # j
        BY <2>1, <4>1
      <4>3. back'[k] = left[k]
        BY <4>1, <4>2
      <4>4. pc'[k] = pc[k] /\ timer'[k] = timer[k]
        <5> HIDE DEF left
        <5> QED BY <4>1, <4>2
      <4> QED BY <4>3, <4>4
    <3>2. ASSUME ~ Armed(cod[s])
          PROVE  back'[k] = left[k] /\ pc'[k] = pc[k] /\ timer'[k] = timer[k]
      BY <1>3, <3>2 DEF OnLogout
    <3>3. left[k] = "stayed" => back[k] = "stayed" /\ timer[k].sess # s
      OBVIOUS
    <3> HIDE DEF left
    <3> QED BY <2>1, <3>1, <3>2, <3>3
  <2>2. \A k \in Timers : pc[k] = "waiting" => pc'[k] = "waiting"
    BY <1>3 DEF OnLogout
  <2>3. loggedOn' = [loggedOn EXCEPT ![s] = FALSE]
    BY <1>3 DEF OnLogout
  <2>4. ASSUME NEW k \in Timers, back'[k] = "stayed"
        PROVE  pc'[k] = "waiting" /\ loggedOn'[timer'[k].sess]
    <3>1. pc'[k] = "waiting" /\ loggedOn[timer[k].sess]
      BY <2>1, <2>4
    <3>2. timer'[k].sess # s /\ timer'[k].sess = timer[k].sess
      BY <2>1, <2>4
    <3> QED BY <2>3, <3>1, <3>2
  <2>5. \A k \in Timers : back[k] = "stayed" => pc'[k] # "sweep"
    BY <2>2
  <2> QED BY <2>4, <2>5
<1>4. ASSUME NEW k \in Timers, TimerStep(k)
      PROVE  GraceInv' /\ \A j \in Timers : back[j] = "stayed" => pc'[j] # "sweep"
  <2>1. loggedOn' = loggedOn
        /\ \A j \in Timers : j # k => /\ pc'[j] = pc[j] /\ back'[j] = back[j]
                                      /\ timer'[j] = timer[j]
    <3>1. CASE TimerFires(k)
      BY <3>1 DEF TimerFires, DropTimer, timerVars, appVars
    <3>2. CASE CancelOnDisconnect(k)
      BY <3>2 DEF CancelOnDisconnect, Snapshot, DropTimer, appVars
    <3> QED BY <1>4, <3>1, <3>2 DEF TimerStep
  <2>2. back'[k] # "stayed" /\ (back[k] = "stayed" => pc'[k] # "sweep")
    BY <1>4 DEF TimerStep, TimerFires, CancelOnDisconnect, DropTimer, StandsDown, timerVars
  <2> QED BY <2>1, <2>2
<1> QED BY <1>1, <1>2, <1>3, <1>4, TimersStay

\* A session that came back inside its window and stayed keeps its orders:
\* the timer of that disconnect looks at loggedOn, and does not go on.
THEOREM Grace == Spec => GraceHonoured
<1>1. Init => GraceInv
  BY DEF Init, GraceInv
<1>2. Inv /\ GraceInv /\ [Next]_vars =>
        /\ GraceInv'
        /\ [\A k \in Timers : back[k] = "stayed" => pc'[k] # "sweep"]_vars
  BY StepGrace
<1> QED BY <1>1, <1>2, Invariance, PTL DEF Spec, GraceHonoured

----------------------------------------------------------------------------
(* What the mass cancel must not touch.                                     *)

\* The order exists, and cancel on disconnect may cancel it while it is open.
DayOrder(id) == book[id].status # Absent /\ IsDay(book[id])

\* Mass cancels in progress, their reports on the way, and those sent.
GoodTillInv ==
    /\ \A t \in Threads : \A id \in todo[t] : DayOrder(id)
    /\ \A t \in Threads : pc[t] \in Reporting /\ rep[t].restated => DayOrder(rep[t].id)
    /\ \A s \in Session : \A r \in ReportsIn(sent[s]) : r.restated => DayOrder(r.id)

\* Nothing but a snapshot adds to the orders a mass cancel is to visit.
LEMMA TodoGrows ==
  ASSUME Inv, [Next]_vars, NEW t \in Threads
  PROVE  todo'[t] \subseteq todo[t] \cup OpenDayOrders(book)
<1> USE AppTypes DEF localVars
<1>1. ASSUME NEW u \in Threads, PublishStep(u) \/ CancelNext(u)
      PROVE  todo'[t] \subseteq todo[t]
  <2>1. CASE PublishStep(u)
    BY <2>1 DEF PublishStep, ReadSilenced, AssignExecID, SendOE, SendDC
  <2>2. CASE CancelNext(u)
    <3>1. PICK id : todo' = [todo EXCEPT ![u] = @ \ {id}]
      BY ONLY <2>2 DEF CancelNext
    <3> QED BY <3>1
  <2> QED BY <1>1, <2>1, <2>2
<1>2. ASSUME NEW u \in Threads, Snapshot(u)
      PROVE  todo'[t] \subseteq todo[t] \cup OpenDayOrders(book)
  BY <1>2 DEF Snapshot
<1>3. ASSUME NEW h \in Handlers, AdminRequest(h) \/ FillTrade(h), ~ Snapshot(h)
      PROVE  todo' = todo
  BY <1>3 DEF AdminRequest, Fill, Partial, Cancel, Reject, Close, CancelAll, FillTrade
<1>4. ASSUME NEW v, SetSilenced(v) \/ SetRejectLogons(v) PROVE todo' = todo
  BY <1>4 DEF SetSilenced, SetRejectLogons
<1>5. ASSUME NEW id, NEW qty, NEW tif, NewOrderSingle(id, qty, tif) PROVE todo' = todo
  BY <1>5 DEF NewOrderSingle
<1>6. ASSUME NEW s \in Session, SessionStep(s) PROVE todo' = todo
  BY <1>6 DEF SessionStep, OnLogon, CopyStatus, CopyCumQty
<1>7. ASSUME NEW s, NEW req, FromAdminLogon(s, req) PROVE todo' = todo
  BY <1>7 DEF FromAdminLogon
<1>8. ASSUME NEW s, NEW how, OnLogout(s, how) PROVE todo' = todo
  BY <1>8 DEF OnLogout
<1>9. ASSUME NEW k \in Timers, TimerStep(k), ~ Snapshot(k) PROVE todo' = todo
  BY <1>9 DEF TimerStep, TimerFires, CancelOnDisconnect
<1>10. CASE Tick \/ UNCHANGED vars
  BY <1>10 DEF Tick, vars
<1> QED
  BY <1>1, <1>2, <1>3, <1>4, <1>5, <1>6, <1>7, <1>8, <1>9, <1>10 DEF Next

LEMMA DayOrdersStay ==
  ASSUME Inv, [Next]_vars, NEW id \in ClOrdIDs, DayOrder(id)
  PROVE  DayOrder(id)'
  BY StepAges DEF Ageing, Aged, DayOrder, IsDay

\* A report of a mass cancel is of an order the mass cancel was to visit, and
\* stays so until it is sent.
LEMMA HeldReports ==
  ASSUME Inv, [Next]_vars, NEW u \in Threads, pc'[u] \in Reporting
  PROVE  \/ pc[u] \in Reporting /\ rep'[u].id = rep[u].id
            /\ rep'[u].restated = rep[u].restated
         \/ ~ rep'[u].restated
         \/ rep'[u].id \in todo[u]
<1> DEFINE Held == \/ pc[u] \in Reporting /\ rep'[u].id = rep[u].id
                      /\ rep'[u].restated = rep[u].restated
                   \/ ~ rep'[u].restated
                   \/ rep'[u].id \in todo[u]
<1>0. rep \in [Threads -> Report \cup {NoReport}] /\ pc \in [Threads -> Points]
      /\ \A t \in Threads : pc[t] \in Reporting => rep[t] \in Report
  BY DEF Inv, TypeOK, Points, LocalsOK
<1>1. CASE Still
  BY <1>1 DEF Still
<1>2. ASSUME NEW t \in Threads, NEW r, Publish(t, r), ~ r.restated \/ r.id \in todo[t]
      PROVE  Held
  BY <1>0, <1>2 DEF Publish
<1>3. ASSUME NEW h \in Handlers, NEW id, NEW q, Trading(h, id, q) PROVE Held
  BY <1>2, <1>3 DEF Trading, Trade, ReportOf
<1>4. ASSUME NEW t \in Handlers \cup Timers, NEW id, NEW status, NEW execType,
             NEW restated \in BOOLEAN, Closing(t, id, status, execType, restated)
      PROVE  Held
  <2>1. restated => id \in todo[t]
    BY <1>4 DEF Closing
  <2>2. Publish(t, ReportOf(id, book'[id], execType, 0, restated))
    BY <1>4 DEF Closing
  <2> QED BY <1>2, <2>1, <2>2 DEF ReportOf
<1>5. ASSUME NEW id, NEW qty, NEW tif, NewOrderSingle(id, qty, tif) PROVE Held
  BY <1>0, <1>5 DEF NewOrderSingle, ReportOf
<1>6. CASE CopyStatus \/ CopyCumQty
  BY <1>0, <1>6 DEF CopyStatus, CopyCumQty, Reporting, Copying, Report
<1>7. ASSUME NEW t \in Threads, PublishStep(t) PROVE Held
  BY <1>0, <1>7 DEF PublishStep, ReadSilenced, AssignExecID, Resume, SendOE, SendDC,
                    Reporting, Copying, Report
<1> QED BY <1>1, <1>3, <1>4, <1>5, <1>6, <1>7, StepKinds DEF StepKind

LEMMA StepGoodTill == Inv /\ GoodTillInv /\ [Next]_vars => GoodTillInv'
<1> SUFFICES ASSUME Inv, GoodTillInv, [Next]_vars PROVE GoodTillInv'
  OBVIOUS
<1>1. ASSUME NEW t \in Threads, NEW id \in todo'[t] PROVE DayOrder(id)'
  <2>1. id \in todo[t] \cup OpenDayOrders(book)
    BY <1>1, TodoGrows
  <2>2. id \in ClOrdIDs /\ DayOrder(id)
    BY <2>1, AppTypes DEF GoodTillInv, OpenDayOrders, DayOrder, IsOpen, Inv, TypeOK
  <2> QED BY <2>2, DayOrdersStay
<1>2. ASSUME NEW t \in Threads, pc'[t] \in Reporting, rep'[t].restated
      PROVE  DayOrder(rep[t].id)'
  <2> DEFINE id == rep'[t].id
  <2>1. id \in ClOrdIDs /\ DayOrder(id)
    <3>1. CASE rep'[t].id \in todo[t]
      BY <3>1, AppTypes DEF GoodTillInv
    <3>2. CASE pc[t] \in Reporting /\ rep'[t].id = rep[t].id /\ rep[t].restated
      BY <3>2 DEF Inv, LocalsOK, Report, GoodTillInv
    <3> QED BY <1>2, <3>1, <3>2, HeldReports
  <2>2. book'[id].status # Absent /\ IsDay(book'[id])
    BY <2>1, DayOrdersStay DEF DayOrder
  <2> QED BY <2>2 DEF DayOrder
<1>3. ASSUME NEW s \in Session, NEW r \in ReportsIn(sent'[s]), r.restated
      PROVE  DayOrder(r.id)'
  <2>1. r \in ReportsIn(sent[s]) \/ \E t \in Threads : pc[t] \in Fanning /\ r = rep[t]
    BY <1>3, LogsGrow
  <2>2. r.id \in ClOrdIDs /\ DayOrder(r.id)
    BY <1>3, <2>1, SentReports DEF GoodTillInv, Inv, LocalsOK, Report, Fanning, Reporting
  <2> QED BY <2>2, DayOrdersStay
<1> QED BY <1>1, <1>2, <1>3 DEF GoodTillInv

\* No mass cancel, by an operator or for a lost session, reports a good-till
\* order: the snapshot has none, and an order never changes its TimeInForce.
THEOREM GoodTill == Spec => []GoodTillSurvives
<1>1. Init => GoodTillInv
  BY DEF Init, GoodTillInv, ReportsIn, Reporting, Copying
<1>2. GoodTillInv => GoodTillSurvives
  BY DEF GoodTillInv, GoodTillSurvives, DayOrder, IsDay
<1> QED BY <1>1, <1>2, StepGoodTill, Invariance, PTL DEF Spec
=============================================================================
