--------------------------------- MODULE Fills ---------------------------------
(***************************************************************************)
(* AvgPx over a series of fills.                                           *)
(*                                                                         *)
(* decimal.Decimal adds and multiplies exactly and cuts a quotient to 16   *)
(* digits, so every fill may add a rounding error to the average the next  *)
(* one starts from.  Prices are in ticks, the smallest step a report       *)
(* shows; an average has Scale steps to the tick.                          *)
(***************************************************************************)
EXTENDS Decimals, Sequences

CONSTANT Scale   \* 10^14 in the code: 16 digits kept, 2 shown

ASSUME ScaleAssumption == Scale \in Nat \ {0}

NoFills == [cum |-> 0, avg |-> 0]

MiddlePrice(o, fill) ==
    [cum |-> o.cum + fill.qty,
     avg |-> IF o.cum = 0 THEN fill.px * Scale ELSE DivRound(o.avg + fill.px * Scale, 2)]

PerFill(o, fill) ==
    [cum |-> o.cum + fill.qty,
     avg |-> DivRound(o.avg * o.cum + fill.px * Scale * fill.qty, fill.qty)]

\* What Partial does to CumQty and AvgPx.
Trade(o, fill) ==
    [cum |-> o.cum + fill.qty,
     avg |-> DivRound(o.avg * o.cum + fill.px * Scale * fill.qty, o.cum + fill.qty)]

Executed(fills) ==
    LET after[k \in 0..Len(fills)] ==
          IF k = 0 THEN NoFills ELSE Trade(after[k - 1], fills[k])
    IN  after[Len(fills)]

\* AvgPx (6) of the report, in ticks.
ReportedAvgPx(fills) == DivRound(Executed(fills).avg, Scale)

----------------------------------------------------------------------------
(* What an average is. *)

Total(values) ==
    LET upto[k \in 0..Len(values)] == IF k = 0 THEN 0 ELSE upto[k - 1] + values[k]
    IN  upto[Len(values)]

CumQty(fills)   == Total([i \in DOMAIN fills |-> fills[i].qty])
Notional(fills) == Total([i \in DOMAIN fills |-> fills[i].px * fills[i].qty])

\* Twice the error the quotients of these fills can have added up to, times
\* CumQty: half a step for every fill, at the quantity it had reached.
Drift(fills) == Total([i \in DOMAIN fills |-> CumQty(SubSeq(fills, 1, i))])
=============================================================================
