------------------------------- MODULE Orders -------------------------------
(***************************************************************************)
(* One order as the venue keeps it (OrderState in                          *)
(* src/internal/exchange/book.go) and the pure functions of an order that  *)
(* the handlers are built from.  Quantities count the smallest step of a   *)
(* share in use: the code keeps decimals, and only compares, adds and      *)
(* subtracts them here, which is exact.  Prices, symbols, sides and        *)
(* accounts never decide a branch and are left out.                        *)
(*                                                                         *)
(* A definition placed just before a function of the code, with the same   *)
(* parameters and used nowhere (WrongNewOrder, ClosedMayTrade, ...), is a  *)
(* slip the code could have had: README.md lists which property each one   *)
(* breaks.                                                                 *)
(***************************************************************************)
EXTENDS Integers

\* OrdStatus (39), ExecType (150) and TimeInForce (59) values of const.go.
StatusNew             == "0"
StatusPartiallyFilled == "1"
StatusFilled          == "2"
StatusCanceled        == "4"
StatusRejected        == "8"

ExecTypeNew      == "0"
ExecTypeCanceled == "4"
ExecTypeRejected == "8"
ExecTypeTrade    == "F"

TIFDay  == "0"
TIFNone == "none"      \* tag 59 left off the NewOrderSingle

OpenStatuses  == {StatusNew, StatusPartiallyFilled}
FinalStatuses == {StatusFilled, StatusCanceled, StatusRejected}
Statuses      == OpenStatuses \cup FinalStatuses
ExecTypes     == {ExecTypeNew, ExecTypeCanceled, ExecTypeRejected, ExecTypeTrade}

\* The status of a ClOrdID that is not a key of Book.orders.
Absent == "absent"

WrongNewOrder(seq, qty, tif) ==
    [status |-> "", orderID |-> seq, qty |-> qty, cum |-> 0, tif |-> tif]

\* Insert's result: numbered by orderSeq, working, nothing traded.
NewOrder(seq, qty, tif) ==
    [status |-> StatusNew, orderID |-> seq, qty |-> qty, cum |-> 0, tif |-> tif]

NoOrder == [status |-> Absent, orderID |-> 0, qty |-> 0, cum |-> 0, tif |-> TIFNone]

----------------------------------------------------------------------------
(* What an order may do. *)

IsOpen(o) == o.status \in OpenStatuses

LeavesQty(o) == IF IsOpen(o) THEN o.qty - o.cum ELSE 0

WrongIsDay(o) == TRUE

IsDay(o) == o.tif \in {TIFNone, TIFDay}

WrongMayTrade(o, q) == IsOpen(o)

ClosedMayTrade(o, q) == q <= o.qty - o.cum

\* Partial's two refusals: a closed order, more than is left.
MayTrade(o, q) == IsOpen(o) /\ q <= LeavesQty(o)

WrongTraded(o, q) ==
    [o EXCEPT !.cum = q,
              !.status = IF q = o.qty THEN StatusFilled ELSE StatusPartiallyFilled]

\* Partial's update of the order.
Traded(o, q) ==
    [o EXCEPT !.cum = o.cum + q,
              !.status = IF o.cum + q = o.qty THEN StatusFilled
                                              ELSE StatusPartiallyFilled]

WithStatus(o, status) == [o EXCEPT !.status = status]

\* The status of an order against what has traded of it (BookConsistent).
Consistent(o) ==
    /\ 0 <= o.cum
    /\ o.cum > 0 => o.cum <= o.qty
    /\ o.status \in {Absent, StatusNew} => o.cum = 0
    /\ o.status = StatusPartiallyFilled => o.cum > 0 /\ o.cum < o.qty
    /\ o.status = StatusFilled => o.cum > 0 /\ o.cum = o.qty

\* OpenDayOrders: the set cancel-on-disconnect is meant to act on.
OpenDayOrders(book) == {id \in DOMAIN book : IsOpen(book[id]) /\ IsDay(book[id])}
=============================================================================
