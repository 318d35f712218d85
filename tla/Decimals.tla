------------------------------- MODULE Decimals -------------------------------
(***************************************************************************)
(* Quotients of decimal.Decimal, in units of the last digit kept.          *)
(***************************************************************************)
EXTENDS Integers

Magnitude(n) == IF n < 0 THEN -n ELSE n

\* Decimal.Div and StringFixed: to the nearest step, halves away from zero.
DivRound(n, d) ==
    LET nearest == (2 * Magnitude(n) + d) \div (2 * d)
    IN  IF n < 0 THEN -nearest ELSE nearest
=============================================================================
