----------------------------- MODULE MCAlgorithms -----------------------------
(***************************************************************************)
(* The pure functions of the code against what they are for, over all      *)
(* inputs up to a bound.  A behaviour extends one input, byte by byte or   *)
(* fill by fill, or starts one client from one settings file.              *)
(***************************************************************************)
EXTENDS Fills, Redact, Settings

CONSTANTS
    Quantities, Prices, MaxFills,
    Alphabet, MaxBytes,
    SessionIDs, Hosts

ASSUME InputAssumption ==
    /\ Quantities \subseteq Nat \ {0}
    /\ Prices \subseteq Int
    /\ Alphabet \subseteq 0..255
    /\ IsFiniteSet(SessionIDs)

\* In ticks; the admin API takes prices below zero too.
TradePrices == {-3, 0, 1, 7}

\* The delimiter, '=', the digits of the secret tags, of 4650, which 10 bits
\* turn into 554, and x.
Bytes == {SOH, EqualsSign, 48, 52, 53, 54, 57, 120}

VARIABLES
    fills,   \* fills of one order
    raw,     \* a message to be logged
    start    \* program, file and -host of a client, or NotStarted

vars == <<fills, raw, start>>

NotStarted == [program |-> "none"]

AnyHost == Hosts \cup {NoHost}

Files == UNION {[global : AnyHost, blocks : [S -> AnyHost]] : S \in SUBSET SessionIDs}

Init ==
    /\ fills = << >>
    /\ raw = << >>
    /\ start = NotStarted

MoreFills ==
    /\ raw = << >> /\ start = NotStarted
    /\ Len(fills) < MaxFills
    /\ \E q \in Quantities, p \in Prices : fills' = Append(fills, [qty |-> q, px |-> p])
    /\ UNCHANGED <<raw, start>>

MoreBytes ==
    /\ fills = << >> /\ start = NotStarted
    /\ Len(raw) < MaxBytes
    /\ \E b \in Alphabet : raw' = Append(raw, b)
    /\ UNCHANGED <<fills, start>>

Start ==
    /\ fills = << >> /\ raw = << >> /\ start = NotStarted
    /\ \E program \in {"oe-client", "dc-client"}, file \in Files, host \in AnyHost :
         start' = [program |-> program, file |-> file, host |-> host]
    /\ UNCHANGED <<fills, raw>>

Next == MoreFills \/ MoreBytes \/ Start

Spec == Init /\ [][Next]_vars

----------------------------------------------------------------------------
(*                               Properties                                *)

\* The average an order keeps differs from the true one by no more than the
\* rounding errors of its divisions added up, and the one its reports show by
\* half a tick more: recomputing it from the last average loses no fill.
AvgPxIsTheAverage ==
    fills # << >> =>
        LET exact == Notional(fills) * Scale
            o     == Executed(fills)
        IN  /\ o.cum = CumQty(fills)
            /\ 2 * Magnitude(o.avg * o.cum - exact) <= Drift(fills)
            /\ 2 * Magnitude(ReportedAvgPx(fills) * Scale * o.cum - exact)
                 <= Drift(fills) + Scale * o.cum

\* No rounding takes the average, or what a report shows of it, out of the
\* range of the prices traded at.  Prices are whole ticks: a price finer than
\* the two digits of a report is rounded there too, so what is shown stays
\* within the shown prices and not within the prices themselves.
AvgPxIsWithinPrices ==
    fills # << >> =>
        LET prices == {fills[i].px : i \in DOMAIN fills}
            least  == CHOOSE p \in prices : \A q \in prices : p <= q
            most   == CHOOSE p \in prices : \A q \in prices : p >= q
        IN  /\ least * Scale <= Executed(fills).avg /\ Executed(fills).avg <= most * Scale
            /\ least <= ReportedAvgPx(fills) /\ ReportedAvgPx(fills) <= most

\* Every secret value is hidden, wherever '=' or digits stand in the message,
\* and the only other values that may be are those of overlong tags, whose
\* number wraps.  All else is on the screen as it was sent.
SecretsAreHidden ==
    LET fields == Fields(raw)
    IN  \E wrapped \in SUBSET OverlongFields(fields) :
          RedactBytes(raw) = Shown(fields, SecretFields(fields) \cup wrapped)

\* Where every tag fits an int, exactly the secrets are hidden.
OnlySecretsAreHidden ==
    LET fields == Fields(raw)
    IN  OverlongFields(fields) = {} => RedactBytes(raw) = Shown(fields, SecretFields(fields))

\* A client told a host dials that host and no other, on whatever session; one
\* that stays up dials a single session, at the host its file names if it was
\* told none.
DialsAsTold ==
    start # NotStarted =>
        LET dialled == Dialled(start.program, start.file, start.host)
        IN  /\ start.host # NoHost => \A d \in dialled : d.host = start.host
            /\ StaysUp(start.program, start.file, start.host) => Cardinality(dialled) = 1
            /\ start.host = NoHost => dialled \in {{}, Dials(start.file)}
=============================================================================
