---------------------------- MODULE AccountProofs ----------------------------
(***************************************************************************)
(* Theorems about what the reports add up to: every unit an order trades   *)
(* is told once, and an order stands where some report says, unless the    *)
(* numbering shows that a report was silenced.                             *)
(***************************************************************************)
EXTENDS OrderProofs, FiniteSetTheorems

USE DEF Session, KindOrderEntry, KindDropCopy, Threads, oe, dc,
        Statuses, OpenStatuses, FinalStatuses, StatusNew, StatusPartiallyFilled,
        StatusFilled, StatusCanceled, StatusRejected, Absent

\* Control points of a goroutine whose report is on neither session yet.
Unsent == {"publish", "assign", "sendOE"}

----------------------------------------------------------------------------
(* Holes.                                                                   *)

LEMMA IssuedNumbers ==
  /\ Issued = {r.execID : r \in issuedReports}
  /\ Issued' = {r.execID : r \in issuedReports'}
  BY DEF Issued, issuedReports

\* A hole never closes, and a silenced report always leaves one.
LEMMA HolesStay ==
  ASSUME Inv, FeedInv, [Next]_vars, NoHole'
  PROVE  NoHole /\ \A t \in Threads : AssignExecID(t) => ~ mute[t]
<1>1. execSeq \in Nat /\ Issued \subseteq 1..execSeq
  <2>1. execSeq \in Nat
    BY DEF Inv, TypeOK
  <2>2. ASSUME NEW r \in issuedReports PROVE r.execID \in 1..execSeq
    BY DEF FeedInv, Numbered, issuedReports, InFanout, Fanning
  <2> QED BY <2>1, <2>2, IssuedNumbers
<1>2. ASSUME NEW t \in Threads, AssignExecID(t) PROVE NoHole /\ ~ mute[t]
  <2>1. execSeq' = execSeq + 1
    BY <1>2 DEF AssignExecID, NextExecID
  <2>2. ~ mute[t]
    <3>1. ASSUME mute[t] PROVE Issued' = Issued
      BY <1>2, <3>1, AssignFeed, IssuedNumbers
    <3>2. execSeq + 1 \in 1..execSeq' /\ execSeq + 1 \notin Issued
      BY <1>1, <2>1
    <3> QED BY <3>1, <3>2 DEF NoHole
  <2>3. PICK n : Issued' = Issued \cup {n}
    <3>1. issuedReports' = issuedReports \cup {rep'[t]}
      BY <1>2, <2>2, AssignFeed DEF Feed!Issue
    <3>2. Issued' = Issued \cup {rep'[t].execID}
      BY <3>1, IssuedNumbers
    <3> QED BY <3>2
  <2>4. n = execSeq + 1
    <3>1. execSeq + 1 \in Issued'
      BY <1>1, <2>1 DEF NoHole
    <3> QED BY <1>1, <2>3, <3>1
  <2>5. Issued = 1..execSeq
    <3>1. ASSUME NEW m \in 1..execSeq PROVE m \in Issued
      <4>1. m \in Issued' /\ m # n
        BY <1>1, <2>1, <2>4 DEF NoHole
      <4> QED BY <2>3, <4>1
    <3> QED BY <1>1, <3>1
  <2> QED BY <2>2, <2>5 DEF NoHole
<1>3. ASSUME issuedReports' = issuedReports, execSeq' = execSeq PROVE NoHole
  BY <1>3, IssuedNumbers DEF NoHole
<1>4. ASSUME NEW t \in Threads, SendOE(t) \/ SendDC(t) PROVE NoHole
  <2>1. execSeq' = execSeq
    BY <1>4 DEF SendOE, SendDC, bookVars
  <2> QED BY <1>3, <1>4, <2>1, SendOEFeed, SendDCFeed DEF Feed!Post
<1>5. ASSUME \A t \in Threads : ~ AssignExecID(t) /\ ~ SendOE(t) /\ ~ SendDC(t)
      PROVE  NoHole
  BY <1>3, <1>5, OtherSteps, UntouchedFeed DEF Untouched
<1> QED BY <1>2, <1>4, <1>5

----------------------------------------------------------------------------
(* Whole shares.                                                            *)

\* A whole number of shares is a multiple of PerShare, and the other way round.
LEMMA WholeSteps == ASSUME NEW q \in Int, Whole(q) PROVE \E k \in Int : q = PerShare * k
<1> DEFINE d == PerShare
<1>1. d \in Int /\ d > 0 /\ q % d = 0
  BY PerShareAssumption DEF Whole
<1>2. q \div d \in Int /\ q = d * (q \div d) + (q % d)
  BY <1>1
<1> QED BY <1>1, <1>2

LEMMA StepsWhole == ASSUME NEW k \in Int PROVE Whole(PerShare * k)
<1> DEFINE d == PerShare
           m == d * k
<1>1. d \in Int /\ d > 0 /\ m \in Int
  BY PerShareAssumption
<1>2. m = d * (m \div d) + (m % d) /\ m \div d \in Int /\ m % d \in 0..(d - 1)
  <2> HIDE DEF m
  <2> QED BY <1>1
<1>3. m % d = d * (k - (m \div d))
  BY <1>1, <1>2
<1>4. ASSUME NEW t \in Int, d * t \in 0..(d - 1) PROVE t = 0
  <2>1. CASE t >= 1
    BY <1>1, <1>4, <2>1
  <2>2. CASE t <= -1
    BY <1>1, <1>4, <2>2
  <2> QED BY <2>1, <2>2
<1>5. k - (m \div d) \in Int /\ d * (k - (m \div d)) \in 0..(d - 1)
  BY <1>2, <1>3
<1>6. k - (m \div d) = 0
  <2> HIDE DEF m
  <2> QED BY <1>4, <1>5
<1>7. m % d = 0
  <2> HIDE DEF m
  <2> QED BY <1>1, <1>3, <1>6
<1> QED BY <1>7 DEF Whole

LEMMA WholeSum ==
  ASSUME NEW p \in Int, NEW q \in Int, Whole(p), Whole(q)
  PROVE  Whole(p + q) /\ Whole(p - q)
<1>1. PICK j \in Int : p = PerShare * j
  BY WholeSteps
<1>2. PICK k \in Int : q = PerShare * k
  BY WholeSteps
<1>3. p + q = PerShare * (j + k) /\ p - q = PerShare * (j - k)
  BY <1>1, <1>2, PerShareAssumption
<1>4. Whole(PerShare * (j + k)) /\ Whole(PerShare * (j - k))
  <2>1. j + k \in Int /\ j - k \in Int
    OBVIOUS
  <2> QED BY <2>1, StepsWhole
<1> QED BY <1>3, <1>4

\* A report shows the whole number of shares next to a quantity, and the
\* quantity itself when it is whole.
LEMMA ShownNear ==
  ASSUME NEW q \in Int
  PROVE  Whole(ShownQty(q)) /\ 2 * Magnitude(ShownQty(q) - q) <= PerShare
<1>1. DivRound(q, PerShare) \in Int
      /\ 2 * Magnitude(DivRound(q, PerShare) * PerShare - q) <= PerShare
  BY HalfAway, PerShareAssumption
<1>2. ShownQty(q) = DivRound(q, PerShare) * PerShare
  BY <1>1, PerShareAssumption DEF ShownQty
<1>3. Whole(ShownQty(q))
  BY <1>1, StepsWhole DEF ShownQty
<1> QED BY <1>1, <1>2, <1>3

LEMMA ShownWhole == ASSUME NEW q \in Int, Whole(q) PROVE ShownQty(q) = q
<1> DEFINE e == ShownQty(q) - q
<1>1. ShownQty(q) \in Int /\ PerShare \in Int /\ PerShare > 0
  BY ShownIsInt, PerShareAssumption
<1>2. Whole(e) /\ 2 * Magnitude(e) <= PerShare
  BY <1>1, ShownNear, WholeSum
<1>3. PICK t \in Int : e = PerShare * t
  BY <1>1, <1>2, WholeSteps
<1>4. t = 0
  <2>1. CASE t >= 1
    <3>1. PerShare * t >= PerShare
      BY <1>1, <2>1
    <3> HIDE DEF e
    <3> QED BY <1>1, <1>2, <1>3, <3>1 DEF Magnitude
  <2>2. CASE t <= -1
    <3>1. PerShare * t <= - PerShare
      BY <1>1, <2>2
    <3> HIDE DEF e
    <3> QED BY <1>1, <1>2, <1>3, <3>1 DEF Magnitude
  <2> QED BY <2>1, <2>2
<1>5. e = 0
  BY <1>1, <1>3, <1>4
<1> QED BY <1>1, <1>5

\* The quotient is the only number that leaves a remainder in range.
LEMMA QuotientIs ==
  ASSUME NEW d \in Nat \ {0}, NEW a \in Int, NEW t \in Int, d * t <= a, a < d * t + d
  PROVE  a \div d = t
<1> DEFINE m == a \div d
<1>1. m \in Int /\ a = d * m + (a % d) /\ a % d \in 0..(d - 1)
  OBVIOUS
<1>2. d * (t - m) = d * t - d * m
  BY <1>1
<1>3. d * (t - m) < d /\ - d < d * (t - m)
  <2> HIDE DEF m
  <2> QED BY <1>1, <1>2
<1>4. t - m \in Int /\ t - m < 1 /\ -1 < t - m
  <2> HIDE DEF m
  <2>1. CASE t - m >= 1
    <3>1. d * (t - m) >= d
      BY <1>1, <2>1
    <3> QED BY <1>1, <1>3, <3>1
  <2>2. CASE t - m <= -1
    <3>1. d * (t - m) <= - d
      BY <1>1, <2>2
    <3> QED BY <1>1, <1>3, <3>1
  <2> QED BY <1>1, <2>1, <2>2
<1> QED BY <1>1, <1>4

\* Rounding leaves whole shares out of account: a trade after whole shares
\* shows the same LastQty as it moves CumQty by.
LEMMA ShownSum ==
  ASSUME NEW p \in Nat, NEW q \in Nat, Whole(p)
  PROVE  ShownQty(p + q) = p + ShownQty(q) /\ ShownQty(q) >= 0
<1> DEFINE d == PerShare
           a == 2 * q + d
           m == a \div (2 * d)
<1>1. d \in Nat \ {0} /\ 2 * d \in Nat \ {0} /\ a \in Nat
  BY PerShareAssumption
<1>2. PICK k \in Int : p = d * k
  BY WholeSteps
<1>3. m \in Int /\ a = (2 * d) * m + (a % (2 * d)) /\ a % (2 * d) \in 0..(2 * d - 1)
  BY <1>1
<1>4. m >= 0
  <2> HIDE DEF a, m
  <2> SUFFICES ASSUME m <= -1 PROVE FALSE
    BY <1>3
  <2>1. (2 * d) * m <= - (2 * d)
    BY <1>1, <1>3
  <2> QED BY <1>1, <1>3, <2>1
<1>5. (2 * (p + q) + d) \div (2 * d) = k + m
  <2>1. 2 * (p + q) + d = (2 * d) * k + a
    BY <1>1, <1>2
  <2>2. (2 * d) * (k + m) = (2 * d) * k + (2 * d) * m
    <3> DEFINE c == 2 * d
    <3>1. c \in Int /\ k \in Int /\ m \in Int
      BY <1>1, <1>3
    <3>2. c * (k + m) = c * k + c * m
      <4> HIDE DEF c, m
      <4> QED BY <3>1
    <3> QED BY <3>2
  <2>3. k + m \in Int /\ 2 * (p + q) + d \in Int
        /\ (2 * d) * (k + m) <= 2 * (p + q) + d
        /\ 2 * (p + q) + d < (2 * d) * (k + m) + 2 * d
    <3> HIDE DEF a, m
    <3> QED BY <1>1, <1>3, <2>1, <2>2
  <2> HIDE DEF a, m, d
  <2> QED BY <1>1, <2>3, QuotientIs
<1>6. DivRound(p + q, d) = k + m /\ DivRound(q, d) = m
  BY <1>5 DEF DivRound, Magnitude
<1>7. ShownQty(p + q) = d * (k + m) /\ ShownQty(q) = d * m
  BY <1>6 DEF ShownQty
<1>8. d * (k + m) = d * k + d * m /\ d * m >= 0
  <2> HIDE DEF a, m
  <2> QED BY <1>1, <1>3, <1>4
<1> QED BY <1>2, <1>7, <1>8

\* With partial fills in whole shares, an order that may still trade has traded
\* no fraction: what fills it is the only trade that can be of one.
WholeInv == \A id \in ClOrdIDs : IsOpen(book[id]) => Whole(book[id].cum)

LEMMA InitWhole == Init => WholeInv
  BY DEF Init, WholeInv, NoOrder, IsOpen

LEMMA TradesWhole ==
  ASSUME Inv, WantInv, WholePartials, WholeInv, NEW h \in Handlers, NEW id \in ClOrdIDs,
         NEW q \in Int, Trading(h, id, q)
  PROVE  /\ book[id].cum \in Nat /\ Whole(book[id].cum)
         /\ Whole(q) \/ Traded(book[id], q).status = StatusFilled
<1>1. /\ book[id] \in OrderState /\ Consistent(book[id])
      /\ IsOpen(book[id]) /\ q <= book[id].qty - book[id].cum
  BY DEF Inv, TypeOK, BookConsistent, Trading, MayTrade, LeavesQty
<1>2. book[id].cum \in Nat /\ book[id].qty \in Int /\ Whole(book[id].cum)
  BY <1>1 DEF WholeInv, Consistent, OrderState
<1>3. CASE pc[h] = "idle" /\ q \in PartialQtys
  BY <1>2, <1>3 DEF WholePartials
<1>4. CASE pc[h] = "trade" /\ id = want[h].id /\ q = want[h].qty
  <2>1. q >= book[id].qty - book[id].cum
    BY <1>4 DEF WantInv
  <2>2. book[id].cum + q = book[id].qty
    BY <1>1, <1>2, <2>1
  <2> QED BY <1>1, <1>2, <2>2 DEF Traded, OrderState
<1> QED BY <1>3, <1>4 DEF Trading

LEMMA StepWhole ==
  ASSUME Inv, WantInv, WholePartials, WholeInv, [Next]_vars
  PROVE  WholeInv'
<1> SUFFICES ASSUME NEW id \in ClOrdIDs, IsOpen(book'[id]) PROVE Whole(book'[id].cum)
  BY DEF WholeInv
<1>0. book \in [ClOrdIDs -> OrderState]
  BY DEF Inv, TypeOK
<1>1. CASE book'[id] = book[id]
  BY <1>1 DEF WholeInv
<1>2. ASSUME NEW h \in Handlers, NEW other \in ClOrdIDs, NEW q \in Int,
             Trading(h, other, q)
      PROVE  Whole(book'[id].cum)
  <2>1. book' = [book EXCEPT ![other] = Traded(book[other], q)]
    BY <1>2 DEF Trading, Trade
  <2>2. CASE other = id
    <3>1. book'[id] = Traded(book[id], q)
      BY <1>0, <2>1, <2>2
    <3>2. Whole(q) /\ Whole(book[id].cum) /\ book[id].cum \in Int
      BY <1>2, <2>2, <3>1, TradesWhole DEF IsOpen
    <3>3. book'[id].cum = book[id].cum + q
      BY <1>0, <3>1 DEF Traded, OrderState
    <3> QED BY <3>2, <3>3, WholeSum
  <2> QED BY <1>0, <1>1, <2>1, <2>2
<1>3. ASSUME NEW t, NEW other \in ClOrdIDs, NEW status \in {StatusCanceled, StatusRejected},
             NEW execType, NEW restated, Closing(t, other, status, execType, restated)
      PROVE  Whole(book'[id].cum)
  <2>1. book' = [book EXCEPT ![other] = WithStatus(book[other], status)]
    BY <1>3 DEF Closing
  <2>2. other # id
    BY <1>0, <2>1 DEF WithStatus, OrderState, IsOpen
  <2> QED BY <1>0, <1>1, <2>1, <2>2
<1>4. ASSUME NEW other \in ClOrdIDs, NEW qty \in OrderQtys, NEW tif \in TimesInForce,
             NewOrderSingle(other, qty, tif)
      PROVE  Whole(book'[id].cum)
  <2>1. book' = [book EXCEPT ![other] = NewOrder(orderSeq', qty, tif)]
    BY <1>4 DEF NewOrderSingle
  <2>2. other = id => book'[id].cum = 0
    BY <1>0, <2>1 DEF NewOrder
  <2>3. Whole(0)
    <3>1. Whole(PerShare * 0) /\ PerShare * 0 = 0
      BY StepsWhole, PerShareAssumption
    <3> QED BY <3>1
  <2> QED BY <1>0, <1>1, <2>1, <2>2, <2>3
<1>5. CASE CopyStatus \/ CopyCumQty \/ \E t \in Threads : PublishStep(t)
  <2>1. book' = book
    BY <1>5 DEF CopyStatus, CopyCumQty, PublishStep, ReadSilenced, AssignExecID,
                SendOE, SendDC, bookVars
  <2> QED BY <1>1, <2>1
<1> QED BY <1>1, <1>2, <1>3, <1>4, <1>5, StepKinds DEF StepKind, Still

----------------------------------------------------------------------------
(* Each unit once.                                                          *)

\* The unit that makes the CumQty shown n is among those r reports traded.
Tells(r, n) == r.cum - r.lastQty < n /\ n <= r.cum

Apart(p, r) == p.id = r.id => \A n \in Int : ~ (Tells(p, n) /\ Tells(r, n))

\* Goroutine t holds the report of a trade that is on neither session.
HoldsTrade(t) == pc[t] \in Unsent /\ rep[t].execType = ExecTypeTrade

SentTrades == {r \in ReportsIn(sent[oe]) : r.execType = ExecTypeTrade}

\* No report is of more than the book shows as traded, no two are of one unit,
\* and while there is no hole every unit has one.
AccountInv ==
    /\ \A t \in Threads : pc[t] \in Copying => rep[t].execType = ExecTypeNew
    /\ \A t \in Threads : HoldsTrade(t) => rep[t].cum <= ShownQty(book[rep[t].id].cum)
    /\ \A r \in SentTrades : r.cum <= ShownQty(book[r.id].cum)
    /\ \A t, u \in Threads : t # u /\ HoldsTrade(t) /\ HoldsTrade(u) => Apart(rep[t], rep[u])
    /\ \A t \in Threads : HoldsTrade(t) => \A r \in SentTrades : Apart(rep[t], r)
    /\ \A p, r \in SentTrades : p # r => Apart(p, r)

ToldInv ==
    NoHole => \A id \in ClOrdIDs : \A n \in 1..ShownQty(book[id].cum) :
                \/ \E t \in Threads : HoldsTrade(t) /\ rep[t].id = id /\ Tells(rep[t], n)
                \/ \E r \in SentTrades : r.id = id /\ Tells(r, n)

SameTrade(p, r) == p.id = r.id /\ p.cum = r.cum /\ p.lastQty = r.lastQty

\* Nothing trades and no trade is sent; one may be silenced.
NoTrade ==
    /\ SentTrades' = SentTrades
    /\ \A id \in ClOrdIDs : ShownQty(book'[id].cum) = ShownQty(book[id].cum)
    /\ \A t \in Threads : HoldsTrade(t)' => HoldsTrade(t) /\ SameTrade(rep'[t], rep[t])
    /\ NoHole' => \A t \in Threads : HoldsTrade(t) => HoldsTrade(t)'

\* Goroutine t makes the report of a trade in id.
OneTrade(t, id) ==
    /\ SentTrades' = SentTrades
    /\ \A other \in ClOrdIDs \ {id} : ShownQty(book'[other].cum) = ShownQty(book[other].cum)
    /\ ShownQty(book'[id].cum) >= ShownQty(book[id].cum)
    /\ ~ HoldsTrade(t)
    /\ \A u \in Threads : u # t => (HoldsTrade(u)' <=> HoldsTrade(u)) /\ rep'[u] = rep[u]
    /\ HoldsTrade(t)' /\ rep'[t].id = id /\ rep'[t].cum = ShownQty(book'[id].cum)
    /\ rep'[t].cum - rep'[t].lastQty = ShownQty(book[id].cum)

\* Goroutine t sends the trade it holds to the order-entry session.
TradeSent(t) ==
    /\ UNCHANGED <<book, rep>>
    /\ HoldsTrade(t) /\ ~ HoldsTrade(t)'
    /\ \A u \in Threads : u # t => (HoldsTrade(u)' <=> HoldsTrade(u))
    /\ SentTrades' = SentTrades \cup {rep[t]}

\* The kinds of step, as far as trades are concerned.
LEMMA TradeKinds ==
  ASSUME Inv, WantInv, FeedInv, WholePartials, WholeInv, AccountInv, [Next]_vars
  PROVE  /\ \/ NoTrade
            \/ \E t \in Threads, id \in ClOrdIDs : OneTrade(t, id)
            \/ \E t \in Threads : TradeSent(t)
         /\ \A t \in Threads : pc'[t] \in Copying => rep'[t].execType = ExecTypeNew
<1> DEFINE Acks == \A t \in Threads : pc'[t] \in Copying => rep'[t].execType = ExecTypeNew
<1>0. /\ pc \in [Threads -> Points]
      /\ rep \in [Threads -> Report \cup {NoReport}]
      /\ book \in [ClOrdIDs -> OrderState]
      /\ \A t \in Threads : pc[t] \in Reporting => rep[t] \in Report
      /\ \A t \in Threads : pc[t] \in Copying => rep[t].execType = ExecTypeNew
  BY DEF Inv, TypeOK, Points, LocalsOK, AccountInv
<1>1. ASSUME sent' = sent PROVE SentTrades' = SentTrades
  BY <1>1 DEF SentTrades
<1>2. ASSUME Still PROVE NoTrade /\ Acks
  <2>1. /\ sent' = sent /\ book' = book
        /\ \A t \in Threads : pc[t] \in Reporting \/ pc'[t] \in Reporting =>
             pc'[t] = pc[t] /\ rep'[t] = rep[t]
    BY <1>2 DEF Still
  <2>2. Acks
    BY <1>0, <2>1 DEF Reporting
  <2>3. \A t \in Threads : (HoldsTrade(t)' <=> HoldsTrade(t))
                          /\ (HoldsTrade(t) => rep'[t] = rep[t])
    BY <2>1 DEF HoldsTrade, Unsent, Reporting
  <2> QED BY <1>1, <2>1, <2>2, <2>3 DEF NoTrade, SameTrade
<1>3. ASSUME NEW h \in Handlers, NEW id \in ClOrdIDs, NEW q \in Int, Trading(h, id, q)
      PROVE  OneTrade(h, id) /\ Acks
  <2>1. /\ pc[h] \in {"idle", "trade"} /\ q > 0 /\ sent' = sent
        /\ book' = [book EXCEPT ![id] = Traded(book[id], q)]
        /\ Publish(h, ReportOf(id, book'[id], ExecTypeTrade, q, FALSE))
    BY <1>3 DEF Trading, Trade
  <2>2. /\ book'[id].cum = book[id].cum + q
        /\ \A other \in ClOrdIDs : other # id => book'[other] = book[other]
    BY <1>0, <2>1 DEF Traded, OrderState
  <2>3. /\ pc'[h] = "publish" /\ rep'[h] = ReportOf(id, book'[id], ExecTypeTrade, q, FALSE)
        /\ \A u \in Threads : u # h => pc'[u] = pc[u] /\ rep'[u] = rep[u]
    BY <1>0, <2>1 DEF Publish
  <2>4. /\ rep'[h].execType = ExecTypeTrade /\ rep'[h].id = id
        /\ rep'[h].cum = ShownQty(book'[id].cum) /\ rep'[h].lastQty = ShownQty(q)
    BY <2>3 DEF ReportOf
  <2>5. Acks
    BY <1>0, <2>3 DEF Copying
  <2>6. /\ ~ HoldsTrade(h) /\ HoldsTrade(h)'
        /\ \A u \in Threads : u # h => (HoldsTrade(u)' <=> HoldsTrade(u))
    BY <2>1, <2>3, <2>4 DEF HoldsTrade, Unsent
  <2>7. /\ ShownQty(book'[id].cum) >= ShownQty(book[id].cum)
        /\ rep'[h].cum - rep'[h].lastQty = ShownQty(book[id].cum)
    <3>1. book[id].cum \in Nat /\ Whole(book[id].cum) /\ q \in Nat
      BY <1>3, <2>1, TradesWhole
    <3>2. /\ ShownQty(book'[id].cum) = book[id].cum + ShownQty(q) /\ ShownQty(q) >= 0
          /\ ShownQty(book[id].cum) = book[id].cum
      BY <2>2, <3>1, ShownSum, ShownWhole
    <3>3. ShownQty(q) \in Int
      BY ShownIsInt
    <3> QED BY <2>4, <3>1, <3>2, <3>3
  <2>8. \A other \in ClOrdIDs \ {id} : ShownQty(book'[other].cum) = ShownQty(book[other].cum)
    BY <2>2
  <2> QED BY <1>1, <2>1, <2>3, <2>4, <2>5, <2>6, <2>7, <2>8 DEF OneTrade
<1>4. ASSUME NEW t \in Handlers \cup Timers, NEW id \in ClOrdIDs, NEW status,
             NEW execType \in {ExecTypeCanceled, ExecTypeRejected},
             NEW restated, Closing(t, id, status, execType, restated)
      PROVE  NoTrade /\ Acks
  <2>1. /\ pc[t] \in {"idle", "sweep"} /\ sent' = sent
        /\ book' = [book EXCEPT ![id] = WithStatus(book[id], status)]
        /\ Publish(t, ReportOf(id, book'[id], execType, 0, restated))
    BY <1>4 DEF Closing
  <2>2. \A other \in ClOrdIDs : ShownQty(book'[other].cum) = ShownQty(book[other].cum)
    BY <1>0, <2>1 DEF WithStatus, OrderState
  <2>3. /\ pc'[t] = "publish" /\ rep'[t] = ReportOf(id, book'[id], execType, 0, restated)
        /\ \A u \in Threads : u # t => pc'[u] = pc[u] /\ rep'[u] = rep[u]
    BY <1>0, <2>1 DEF Publish
  <2>4. rep'[t].execType # ExecTypeTrade
    BY <2>3 DEF ReportOf, ExecTypeTrade, ExecTypeCanceled, ExecTypeRejected
  <2>5. Acks
    BY <1>0, <2>3 DEF Copying
  <2> QED BY <1>1, <2>1, <2>2, <2>3, <2>4, <2>5 DEF NoTrade, HoldsTrade, SameTrade, Unsent
<1>5. ASSUME NEW id \in ClOrdIDs, NEW qty \in OrderQtys, NEW tif \in TimesInForce,
             NewOrderSingle(id, qty, tif)
      PROVE  NoTrade /\ Acks
  <2>1. /\ pc[oe] = "idle" /\ sent' = sent
        /\ pc' = [pc EXCEPT ![oe] = "copy"]
        /\ rep' = [rep EXCEPT ![oe] = ReportOf(id, book'[id], ExecTypeNew, 0, FALSE)]
        /\ book' = [book EXCEPT ![id] = NewOrder(orderSeq', qty, tif)]
        /\ book[id].status = Absent
    BY <1>5 DEF NewOrderSingle
  <2>2. \A other \in ClOrdIDs : ShownQty(book'[other].cum) = ShownQty(book[other].cum)
    BY <1>0, <2>1 DEF NewOrder, Inv, BookConsistent, Consistent
  <2>3. rep'[oe].execType = ExecTypeNew
    BY <1>0, <2>1 DEF ReportOf
  <2> QED BY <1>0, <1>1, <2>1, <2>2, <2>3 DEF NoTrade, HoldsTrade, SameTrade, Unsent
<1>6. CASE CopyStatus \/ CopyCumQty
  <2>1. /\ pc[oe] \in Copying /\ sent' = sent /\ book' = book
        /\ pc'[oe] \in Copying \cup {"publish"} /\ rep'[oe].execType = rep[oe].execType
        /\ \A u \in Threads : u # oe => pc'[u] = pc[u] /\ rep'[u] = rep[u]
    BY <1>0, <1>6 DEF CopyStatus, CopyCumQty, bookVars, Copying, Reporting, Report
  <2>2. rep'[oe].execType # ExecTypeTrade
    BY <1>0, <2>1 DEF ExecTypeNew, ExecTypeTrade
  <2> QED BY <1>0, <1>1, <2>1, <2>2 DEF NoTrade, HoldsTrade, SameTrade, Unsent, Copying
<1>7. ASSUME NEW t \in Threads, ReadSilenced(t) PROVE NoTrade /\ Acks
  BY <1>0, <1>1, <1>7 DEF ReadSilenced, bookVars, NoTrade, HoldsTrade, SameTrade, Unsent,
                          Copying
<1>8. ASSUME NEW t \in Threads, AssignExecID(t) PROVE NoTrade /\ Acks
  <2>1. /\ pc[t] = "assign" /\ sent' = sent /\ book' = book
        /\ \A u \in Threads : u # t => pc'[u] = pc[u] /\ rep'[u] = rep[u]
    BY <1>0, <1>8 DEF AssignExecID
  <2>2. mute[t] => pc'[t] \in {"idle", "sweep"}
    BY <1>0, <1>8 DEF AssignExecID, Resume
  <2>3. ~ mute[t] => /\ pc'[t] = "sendOE" /\ SameTrade(rep'[t], rep[t])
                     /\ rep'[t].execType = rep[t].execType
    BY <1>0, <1>8 DEF AssignExecID, SameTrade, Report, Reporting
  <2>4. NoHole' => ~ mute[t]
    BY <1>8, HolesStay
  <2> QED BY <1>0, <1>1, <2>1, <2>2, <2>3, <2>4 DEF NoTrade, HoldsTrade, SameTrade, Unsent,
                                                    Copying
<1>9. ASSUME NEW t \in Threads, SendOE(t) PROVE (NoTrade \/ TradeSent(t)) /\ Acks
  <2>1. /\ pc[t] = "sendOE" /\ pc'[t] = "sendDC" /\ rep' = rep /\ book' = book
        /\ \A u \in Threads : u # t => pc'[u] = pc[u]
    BY <1>0, <1>9 DEF SendOE, bookVars
  <2>2. ReportsIn(sent[oe])' = ReportsIn(sent[oe]) \cup {rep[t]}
    <3>1. Send(oe, rep[t]) /\ \A p \in ReportsIn(sent[oe]) : p.execID # rep[t].execID
      BY <1>9, <2>1 DEF SendOE, FeedInv, Fresh
    <3> QED BY <2>1, <3>1, Sending DEF Fanning
  <2>3. CASE rep[t].execType = ExecTypeTrade
    BY <1>0, <2>1, <2>2, <2>3 DEF TradeSent, HoldsTrade, Unsent, SentTrades, Copying
  <2>4. CASE rep[t].execType # ExecTypeTrade
    BY <1>0, <2>1, <2>2, <2>4 DEF NoTrade, HoldsTrade, SameTrade, Unsent, SentTrades, Copying
  <2> QED BY <2>3, <2>4
<1>10. ASSUME NEW t \in Threads, SendDC(t) PROVE NoTrade /\ Acks
  <2>1. /\ pc[t] = "sendDC" /\ pc'[t] \in {"idle", "sweep"} /\ book' = book
        /\ \A u \in Threads : u # t => pc'[u] = pc[u] /\ rep'[u] = rep[u]
        /\ sent'[oe] = sent[oe]
    BY <1>0, <1>10 DEF SendDC, Send, Resume, bookVars, Inv, TypeOK
  <2> QED BY <1>0, <2>1 DEF NoTrade, HoldsTrade, SameTrade, Unsent, SentTrades, Copying
<1> QED
  BY <1>2, <1>3, <1>4, <1>5, <1>6, <1>7, <1>8, <1>9, <1>10, StepKinds
  DEF StepKind, PublishStep

\* What a trade in id finds: every other report of id is of earlier units.
LEMMA TradeApart ==
  ASSUME NEW id, NEW before \in Int, NEW new \in Report, NEW old \in Report,
         new.id = id, new.cum - new.lastQty = before,
         old.id = id => old.cum <= before
  PROVE  Apart(new, old) /\ Apart(old, new)
  BY DEF Apart, Tells, Report

LEMMA StepAccount ==
  ASSUME Inv, WantInv, FeedInv, WholePartials, WholeInv, AccountInv, [Next]_vars
  PROVE  AccountInv'
<1>0. /\ \A t \in Threads : HoldsTrade(t) => rep[t] \in Report
      /\ \A r \in SentTrades : r \in Report
      /\ book \in [ClOrdIDs -> OrderState] /\ book' \in [ClOrdIDs -> OrderState]
      /\ \A t \in Threads : HoldsTrade(t)' => rep'[t] \in Report
      /\ \A r \in Report : r.id \in ClOrdIDs /\ r.cum \in Int
      /\ \A id \in ClOrdIDs : ShownQty(book[id].cum) \in Int /\ ShownQty(book'[id].cum) \in Int
  BY SentReports, StepInv, ShownIsInt DEF HoldsTrade, Unsent, SentTrades, Inv, TypeOK, LocalsOK, Reporting,
                                Report, OrderState
<1>1. CASE NoTrade
  <2>1. \A t \in Threads : HoldsTrade(t)' => rep'[t].cum <= ShownQty(book'[rep'[t].id].cum)
    BY <1>0, <1>1 DEF NoTrade, SameTrade, AccountInv
  <2>2. \A r \in SentTrades' : r.cum <= ShownQty(book'[r.id].cum)
    BY <1>0, <1>1 DEF NoTrade, AccountInv
  <2>3. ASSUME NEW t \in Threads, NEW u \in Threads, t # u, HoldsTrade(t)', HoldsTrade(u)'
        PROVE  Apart(rep'[t], rep'[u])
    BY <1>1, <2>3 DEF NoTrade, SameTrade, AccountInv, Apart, Tells
  <2>4. ASSUME NEW t \in Threads, NEW r \in SentTrades, HoldsTrade(t)'
        PROVE  Apart(rep'[t], r)
    BY <1>1, <2>4 DEF NoTrade, SameTrade, AccountInv, Apart, Tells
  <2> QED BY <1>1, <2>1, <2>2, <2>3, <2>4, TradeKinds DEF NoTrade, AccountInv
<1>2. ASSUME NEW t \in Threads, NEW id \in ClOrdIDs, OneTrade(t, id) PROVE AccountInv'
  <2>0. /\ SentTrades' = SentTrades
        /\ \A other \in ClOrdIDs : ShownQty(book'[other].cum) >= ShownQty(book[other].cum)
        /\ \A u \in Threads : u # t => (HoldsTrade(u)' <=> HoldsTrade(u)) /\ rep'[u] = rep[u]
        /\ rep'[t] \in Report /\ rep'[t].id = id /\ rep'[t].cum = ShownQty(book'[id].cum)
        /\ rep'[t].cum - rep'[t].lastQty = ShownQty(book[id].cum)
    <3>1. \A other \in ClOrdIDs : ShownQty(book'[other].cum) >= ShownQty(book[other].cum)
      BY <1>0, <1>2 DEF OneTrade
    <3>2. rep'[t] \in Report
      BY <1>0, <1>2 DEF OneTrade
    <3> QED BY <1>2, <3>1, <3>2 DEF OneTrade
  <2>1. ASSUME NEW r \in Report, r.cum <= ShownQty(book[r.id].cum)
        PROVE  r.cum <= ShownQty(book'[r.id].cum) /\ Apart(rep'[t], r) /\ Apart(r, rep'[t])
    <3>1. r.id \in ClOrdIDs /\ r.cum \in Int
      BY <1>0
    <3>2. r.cum <= ShownQty(book'[r.id].cum)
      BY <1>0, <2>0, <2>1, <3>1
    <3>3. r.id = id => r.cum <= ShownQty(book[id].cum)
      BY <2>1
    <3>4. ShownQty(book[id].cum) \in Int
      BY <1>0
    <3> QED BY <2>0, <3>2, <3>3, <3>4, TradeApart
  <2>2. \A u \in Threads : HoldsTrade(u)' => rep'[u].cum <= ShownQty(book'[rep'[u].id].cum)
    BY <1>0, <2>0, <2>1 DEF AccountInv
  <2>3. \A r \in SentTrades' : r.cum <= ShownQty(book'[r.id].cum)
    BY <1>0, <2>0, <2>1 DEF AccountInv
  <2>4. ASSUME NEW u \in Threads, NEW v \in Threads, u # v, HoldsTrade(u)', HoldsTrade(v)'
        PROVE  Apart(rep'[u], rep'[v])
    BY <1>0, <2>0, <2>1, <2>4 DEF AccountInv
  <2>5. ASSUME NEW u \in Threads, NEW r \in SentTrades, HoldsTrade(u)'
        PROVE  Apart(rep'[u], r)
    BY <1>0, <2>0, <2>1, <2>5 DEF AccountInv
  <2> QED BY <2>0, <2>2, <2>3, <2>4, <2>5, TradeKinds DEF AccountInv
<1>3. ASSUME NEW t \in Threads, TradeSent(t) PROVE AccountInv'
  <2>1. ASSUME NEW p, NEW r, Apart(p, r) PROVE Apart(r, p)
    BY <2>1 DEF Apart
  <2>2. /\ \A u \in Threads : HoldsTrade(u)' => HoldsTrade(u) /\ u # t
        /\ HoldsTrade(t) /\ SentTrades' = SentTrades \cup {rep[t]}
        /\ rep' = rep /\ book' = book
    BY <1>3 DEF TradeSent
  <2>3. \A p, r \in SentTrades' : p # r => Apart(p, r)
    BY <2>1, <2>2 DEF AccountInv
  <2>4. \A u \in Threads : HoldsTrade(u)' => \A r \in SentTrades' : Apart(rep'[u], r)
    BY <2>2 DEF AccountInv
  <2>5. \A r \in SentTrades' : r.cum <= ShownQty(book'[r.id].cum)
    BY <2>2 DEF AccountInv
  <2> QED BY <2>2, <2>3, <2>4, <2>5, TradeKinds DEF AccountInv
<1> QED BY <1>1, <1>2, <1>3, TradeKinds

LEMMA StepTold ==
  ASSUME Inv, WantInv, FeedInv, WholePartials, WholeInv, AccountInv, ToldInv, [Next]_vars
  PROVE  ToldInv'
<1> SUFFICES ASSUME NoHole', NEW id \in ClOrdIDs, NEW n \in 1..ShownQty(book'[id].cum)
             PROVE  \/ \E t \in Threads : HoldsTrade(t)' /\ rep'[t].id = id
                                           /\ Tells(rep'[t], n)
                    \/ \E r \in SentTrades' : r.id = id /\ Tells(r, n)
  BY DEF ToldInv
<1>1. NoHole /\ ShownQty(book[id].cum) \in Int /\ ShownQty(book'[id].cum) \in Int
  BY HolesStay, StepInv, ShownIsInt DEF Inv, TypeOK, OrderState
<1>2. n \in 1..ShownQty(book[id].cum) =>
        \/ \E t \in Threads : HoldsTrade(t) /\ rep[t].id = id /\ Tells(rep[t], n)
        \/ \E r \in SentTrades : r.id = id /\ Tells(r, n)
  BY <1>1 DEF ToldInv
<1>3. CASE NoTrade
  <2>1. n \in 1..ShownQty(book[id].cum)
    BY <1>3 DEF NoTrade
  <2> QED BY <1>2, <1>3, <2>1 DEF NoTrade, SameTrade, Tells
<1>4. ASSUME NEW t \in Threads, NEW other \in ClOrdIDs, OneTrade(t, other)
      PROVE  \/ \E u \in Threads : HoldsTrade(u)' /\ rep'[u].id = id /\ Tells(rep'[u], n)
             \/ \E r \in SentTrades' : r.id = id /\ Tells(r, n)
  <2>1. CASE n \in 1..ShownQty(book[id].cum)
    BY <1>2, <1>4, <2>1 DEF OneTrade
  <2>2. CASE n \notin 1..ShownQty(book[id].cum)
    <3>1. other = id /\ ShownQty(book[id].cum) < n /\ n <= ShownQty(book'[id].cum)
      BY <1>1, <1>4, <2>2 DEF OneTrade
    <3> QED BY <1>4, <3>1 DEF OneTrade, Tells
  <2> QED BY <2>1, <2>2
<1>5. ASSUME NEW t \in Threads, TradeSent(t)
      PROVE  \/ \E u \in Threads : HoldsTrade(u)' /\ rep'[u].id = id /\ Tells(rep'[u], n)
             \/ \E r \in SentTrades' : r.id = id /\ Tells(r, n)
  BY <1>2, <1>5 DEF TradeSent
<1> QED BY <1>3, <1>4, <1>5, TradeKinds

WholeAccount == WholeInv /\ AccountInv /\ ToldInv

LEMMA AccountInvariance == Spec => [](WholePartials => WholeAccount)
<1>1. Init => WholeAccount
  <2>1. Init => AccountInv
    BY DEF Init, AccountInv, HoldsTrade, SentTrades, ReportsIn, Copying, Unsent, NoOrder
  <2>2. ShownQty(0) = 0
    BY PerShareAssumption DEF ShownQty, DivRound, Magnitude
  <2>3. Init => ToldInv
    BY <2>2 DEF Init, ToldInv, NoOrder
  <2> QED BY <2>1, <2>3, InitWhole DEF WholeAccount
<1>2. Inv /\ WantInv /\ FeedInv /\ (WholePartials => WholeAccount) /\ [Next]_vars
        => (WholePartials => WholeAccount)'
  <2> SUFFICES ASSUME Inv, WantInv, FeedInv, WholePartials => WholeAccount, [Next]_vars,
                      WholePartials
               PROVE  WholeAccount'
    BY DEF WholePartials, Whole
  <2> QED BY StepWhole, StepAccount, StepTold DEF WholeAccount
<1> QED BY <1>1, <1>2, Invariance, WantInvariance, FeedInvariance, PTL DEF Spec

\* When no partial fill is of a fraction of a share, whatever is ordered, each
\* step of the CumQty an order shows is in LastQty of at most one report, and of
\* exactly one while the ExecIDs show no hole, however the goroutines race to
\* publish.
THEOREM Accounting == Spec => []TradesAddUp
<1>1. ASSUME Inv, WholePartials => WholeAccount PROVE TradesAddUp
  <2> SUFFICES ASSUME AccountInv, ToldInv PROVE LastQtyIsTheIncrement
    BY <1>1 DEF TradesAddUp, WholeAccount
  <2> SUFFICES ASSUME NEW id \in ClOrdIDs, NEW n \in 1..ShownQty(book[id].cum)
               PROVE  LET telling == {r \in TradesOf(id) : r.cum - r.lastQty < n
                                                           /\ n <= r.cum}
                      IN  /\ Cardinality(telling) <= 1
                          /\ NoHole => telling # {}
    BY DEF LastQtyIsTheIncrement
  <2> DEFINE telling == {r \in TradesOf(id) : r.cum - r.lastQty < n /\ n <= r.cum}
  <2>1. \A r : r \in telling <=>
                 /\ \/ r \in SentTrades
                    \/ \E t \in Threads : HoldsTrade(t) /\ r = rep[t]
                 /\ r.id = id /\ Tells(r, n)
    BY DEF TradesOf, SentTrades, HoldsTrade, Unsent, Tells
  <2> HIDE DEF telling
  <2>2. n \in Int
    <3>1. ShownQty(book[id].cum) \in Int
      BY <1>1, ShownIsInt DEF Inv, TypeOK, OrderState
    <3> QED BY <3>1
  <2>3. ASSUME NEW p \in telling, NEW r \in telling PROVE p = r
    BY <1>1, <2>1, <2>2, <2>3 DEF AccountInv, Apart
  <2>4. Cardinality(telling) <= 1
    <3>1. CASE telling = {}
      BY ONLY <3>1, FS_EmptySet
    <3>2. CASE telling # {}
      <4>1. PICK r : r \in telling
        BY <3>2
      <4>2. telling = {r}
        BY <2>3, <4>1
      <4>3. Cardinality({r}) = 1
        BY ONLY FS_Singleton
      <4> QED BY ONLY <4>2, <4>3
    <3> QED BY ONLY <3>1, <3>2
  <2>5. NoHole => telling # {}
    BY <1>1, <2>1 DEF ToldInv
  <2> QED BY <2>4, <2>5 DEF telling
<1> QED BY <1>1, Invariance, AccountInvariance, PTL

----------------------------------------------------------------------------
(* Where every order stands.                                                *)

\* Control points of a goroutine whose report is made or being made, and on
\* neither session.
Holding == Copying \cup Unsent

Stands(r, id) ==
    r.id = id /\ r.status = book[id].status /\ r.cum = ShownQty(book[id].cum)

\* While there is no hole, a report of every order shows where it stands: on
\* the order-entry session, or with a goroutine.
ReportedInv ==
    NoHole => \A id \in ClOrdIDs : book[id].status # Absent =>
                \/ \E r \in ReportsIn(sent[oe]) : Stands(r, id)
                \/ \E t \in Threads : pc[t] \in Holding /\ Stands(rep[t], id)

\* Goroutine t moves the order id and makes the report that shows it.
Reports(t, id) ==
    /\ sent' = sent
    /\ \A other \in ClOrdIDs \ {id} : book'[other] = book[other]
    /\ pc[t] \notin Holding
    /\ \A u \in Threads : u # t => pc'[u] = pc[u] /\ rep'[u] = rep[u]
    /\ pc'[t] \in Holding /\ Stands(rep[t], id)'

\* Goroutine t takes its report, if any, further; none is lost.
Forwards(t) ==
    /\ book' = book
    /\ ReportsIn(sent[oe]) \subseteq ReportsIn(sent[oe])'
    /\ \A u \in Threads : u # t => pc'[u] = pc[u] /\ rep'[u] = rep[u]
    /\ pc[t] \in Holding =>
         \/ rep[t] \in ReportsIn(sent[oe])'
         \/ /\ pc'[t] \in Holding
            /\ \A id \in ClOrdIDs : Stands(rep[t], id) => Stands(rep'[t], id)

LEMMA ReportKinds ==
  ASSUME Inv, FeedInv, [Next]_vars, NoHole'
  PROVE  \/ Still
         \/ \E t \in Threads, id \in ClOrdIDs : Reports(t, id)
         \/ \E t \in Threads : Forwards(t)
<1>0. /\ pc \in [Threads -> Points]
      /\ rep \in [Threads -> Report \cup {NoReport}]
      /\ book \in [ClOrdIDs -> OrderState]
      /\ \A t \in Threads : pc[t] \in Reporting => rep[t] \in Report
  BY DEF Inv, TypeOK, Points, LocalsOK
<1>1. ASSUME NEW t \in Threads, NEW id \in ClOrdIDs, NEW o, NEW execType, NEW q, NEW restated,
             pc[t] \notin Holding, sent' = sent, book' = [book EXCEPT ![id] = o],
             rep' = [rep EXCEPT ![t] = ReportOf(id, book'[id], execType, q, restated)],
             pc' = [pc EXCEPT ![t] = "publish"] \/ pc' = [pc EXCEPT ![t] = "copy"]
      PROVE  Reports(t, id)
  BY <1>0, <1>1 DEF Reports, Stands, ReportOf, Holding, Copying, Unsent
<1>2. ASSUME NEW h \in Handlers, NEW id \in ClOrdIDs, NEW q, Trading(h, id, q)
      PROVE  Reports(h, id)
  BY <1>1, <1>2 DEF Trading, Trade, Publish, Holding, Copying, Unsent
<1>3. ASSUME NEW t \in Handlers \cup Timers, NEW id \in ClOrdIDs, NEW status, NEW execType,
             NEW restated, Closing(t, id, status, execType, restated)
      PROVE  Reports(t, id)
  BY <1>1, <1>3 DEF Closing, Publish, Holding, Copying, Unsent
<1>4. ASSUME NEW id \in ClOrdIDs, NEW qty, NEW tif, NewOrderSingle(id, qty, tif)
      PROVE  Reports(oe, id)
  BY <1>1, <1>4 DEF NewOrderSingle, Holding, Copying, Unsent
<1>5. CASE CopyStatus \/ CopyCumQty
  <2>1. /\ pc[oe] \in Copying /\ sent' = sent /\ book' = book
        /\ pc'[oe] \in Copying \cup {"publish"}
        /\ \A u \in Threads : u # oe => pc'[u] = pc[u] /\ rep'[u] = rep[u]
        /\ \A id \in ClOrdIDs : Stands(rep[oe], id) => Stands(rep'[oe], id)
    BY <1>0, <1>5 DEF CopyStatus, CopyCumQty, bookVars, Copying, Reporting, Report, Stands
  <2>2. Forwards(oe)
    BY <2>1 DEF Forwards, Holding, Unsent
  <2> QED BY <2>2
<1>6. ASSUME NEW t \in Threads, ReadSilenced(t) PROVE Forwards(t)
  BY <1>0, <1>6 DEF ReadSilenced, bookVars, Forwards, Holding, Unsent
<1>7. ASSUME NEW t \in Threads, AssignExecID(t) PROVE Forwards(t)
  <2>1. ~ mute[t]
    BY <1>7, HolesStay
  <2>2. /\ pc'[t] = "sendOE" /\ sent' = sent /\ book' = book
        /\ rep[t] \in Report /\ rep'[t] = [rep[t] EXCEPT !.execID = execSeq']
        /\ \A u \in Threads : u # t => pc'[u] = pc[u] /\ rep'[u] = rep[u]
    BY <1>0, <1>7, <2>1 DEF AssignExecID, Reporting
  <2>3. \A id \in ClOrdIDs : Stands(rep[t], id) => Stands(rep'[t], id)
    BY <2>2 DEF Stands, Report
  <2> QED BY <2>2, <2>3 DEF Forwards, Holding, Unsent
<1>8. ASSUME NEW t \in Threads, SendOE(t) PROVE Forwards(t)
  <2>1. /\ pc[t] = "sendOE" /\ rep' = rep /\ book' = book
        /\ \A u \in Threads : u # t => pc'[u] = pc[u]
    BY <1>0, <1>8 DEF SendOE, bookVars
  <2>2. ReportsIn(sent[oe])' = ReportsIn(sent[oe]) \cup {rep[t]}
    <3>1. Send(oe, rep[t]) /\ \A p \in ReportsIn(sent[oe]) : p.execID # rep[t].execID
      BY <1>8, <2>1 DEF SendOE, FeedInv, Fresh
    <3> QED BY <2>1, <3>1, Sending DEF Fanning
  <2> QED BY <2>1, <2>2 DEF Forwards
<1>9. ASSUME NEW t \in Threads, SendDC(t) PROVE Forwards(t)
  <2>1. /\ pc[t] = "sendDC" /\ book' = book
        /\ \A u \in Threads : u # t => pc'[u] = pc[u] /\ rep'[u] = rep[u]
        /\ sent'[oe] = sent[oe]
    BY <1>0, <1>9 DEF SendDC, Send, Resume, bookVars, Inv, TypeOK
  <2> QED BY <2>1 DEF Forwards, Holding, Unsent, Copying, ReportsIn
<1> QED
  BY <1>2, <1>3, <1>4, <1>5, <1>6, <1>7, <1>8, <1>9, StepKinds DEF StepKind, PublishStep

LEMMA StepReported ==
  ASSUME Inv, FeedInv, ReportedInv, [Next]_vars
  PROVE  ReportedInv'
<1> SUFFICES ASSUME NoHole', NEW id \in ClOrdIDs, book'[id].status # Absent
             PROVE  \/ \E r \in ReportsIn(sent[oe])' : Stands(r, id)'
                    \/ \E t \in Threads : pc'[t] \in Holding /\ Stands(rep[t], id)'
  BY DEF ReportedInv
<1>1. book[id].status # Absent =>
        \/ \E r \in ReportsIn(sent[oe]) : Stands(r, id)
        \/ \E t \in Threads : pc[t] \in Holding /\ Stands(rep[t], id)
  BY HolesStay DEF ReportedInv
<1>2. CASE Still
  <2>1. book' = book /\ ReportsIn(sent[oe])' = ReportsIn(sent[oe])
        /\ \A t \in Threads : pc[t] \in Holding => pc'[t] = pc[t] /\ rep'[t] = rep[t]
    BY <1>2 DEF Still, ReportsIn, Holding, Unsent, Reporting
  <2> QED BY <1>1, <2>1 DEF Stands
<1>3. ASSUME NEW t \in Threads, NEW other \in ClOrdIDs, Reports(t, other)
      PROVE  \/ \E r \in ReportsIn(sent[oe])' : Stands(r, id)'
             \/ \E u \in Threads : pc'[u] \in Holding /\ Stands(rep[u], id)'
  <2>1. ReportsIn(sent[oe])' = ReportsIn(sent[oe])
    BY <1>3 DEF Reports, ReportsIn
  <2>2. CASE other # id
    BY <1>1, <1>3, <2>1, <2>2 DEF Reports, Stands
  <2> QED BY <1>3, <2>2 DEF Reports
<1>4. ASSUME NEW t \in Threads, Forwards(t)
      PROVE  \/ \E r \in ReportsIn(sent[oe])' : Stands(r, id)'
             \/ \E u \in Threads : pc'[u] \in Holding /\ Stands(rep[u], id)'
  BY <1>1, <1>4 DEF Forwards, Stands
<1> QED BY <1>2, <1>3, <1>4, ReportKinds

LEMMA ReportedInvariance == Spec => []ReportedInv
<1>1. Init => ReportedInv
  BY DEF Init, ReportedInv, NoOrder
<1> QED BY <1>1, StepReported, Invariance, FeedInvariance, PTL DEF Spec

\* With nothing being published and no hole in the numbering, both sessions
\* have been told where every order stands, to half a share, whatever fractions
\* it has traded.
THEOREM Reported == Spec => []BookIsReported
<1>1. ASSUME Inv, FeedInv, ReportedInv PROVE BookIsReported
  <2>0. ASSUME NEW id \in ClOrdIDs, NEW r, Stands(r, id) PROVE ShowsCum(r, book[id].cum)
    <3>1. book[id].cum \in Int
      BY <1>1 DEF Inv, TypeOK, OrderState
    <3> QED BY <2>0, <3>1, ShownNear DEF Stands, ShowsCum
  <2> SUFFICES ASSUME NoHole, \A t \in Threads : pc[t] \in {"idle", "waiting", "logon"},
                      NEW id \in ClOrdIDs, book[id].status # Absent
               PROVE  \E r \in ReportsIn(sent[dc]) : Stands(r, id)
    BY <2>0 DEF BookIsReported, Stands
  <2>1. \A t \in Threads : pc[t] \notin Holding /\ pc[t] # "sendDC"
    BY DEF Holding, Copying, Unsent
  <2>2. ReportsIn(sent[oe]) \subseteq ReportsIn(sent[dc])
    BY <1>1, <2>1 DEF FeedInv, FanoutComplete
  <2> QED BY <1>1, <2>1, <2>2 DEF ReportedInv
<1> QED BY <1>1, Invariance, FeedInvariance, ReportedInvariance, PTL
=============================================================================
