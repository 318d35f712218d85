---------------------------- MODULE AlgorithmProofs ----------------------------
(***************************************************************************)
(* Theorems about AvgPx, for every series of fills, about what a client    *)
(* dials, for every settings file, and about what of a message is logged,  *)
(* for every sequence of bytes.                                            *)
(*                                                                         *)
(* What a recursive function computes is proved by induction on how far it *)
(* has got; the induction is that a set of numbers has a least one.        *)
(***************************************************************************)
EXTENDS MCAlgorithms, FiniteSetTheorems, SequenceTheorems, WellFoundedInduction, TLAPS

----------------------------------------------------------------------------
(* Counterexamples have a least one.                                        *)

LEMMA Least ==
  ASSUME NEW T \in SUBSET Nat, T # {}
  PROVE  \E n \in T : \A m \in T : n <= m
<1> DEFINE Less == {p \in Nat \X Nat : p[1] < p[2]}
<1>1. OpToRel(<, Nat) = Less
  BY DEF OpToRel
<1>2. IsWellFoundedOn(Less, Nat)
  BY <1>1, NatLessThanWellFounded
<1>3. PICK n \in T : \A m \in T : <<m, n>> \notin Less
  <2> HIDE DEF Less
  <2> QED BY <1>2, WFMin
<1>4. ASSUME NEW m \in T PROVE n <= m
  <2>1. m \in Nat /\ n \in Nat /\ ~ (m < n)
    BY <1>3
  <2> QED BY <2>1
<1> QED BY <1>4

\* What holds at 0 and passes from each number to the next holds up to n.
LEMMA Upwards ==
  ASSUME NEW n \in Nat, NEW T \in SUBSET (0..n), 0 \in T,
         \A k \in 1..n : k - 1 \in T => k \in T
  PROVE  T = 0..n
<1> SUFFICES ASSUME (0..n) \ T # {} PROVE FALSE
  OBVIOUS
<1>1. PICK k \in (0..n) \ T : \A m \in (0..n) \ T : k <= m
  <2>1. (0..n) \ T \in SUBSET Nat
    OBVIOUS
  <2> QED BY <2>1, Least
<1>2. k \in 1..n /\ k - 1 \in T
  BY <1>1
<1> QED BY <1>1, <1>2

\* What every step of a function keeps, all of its values have.
LEMMA Stays ==
  ASSUME NEW n \in Nat, NEW S, NEW g, g[0] \in S,
         \A k \in 1..n : g[k - 1] \in S => g[k] \in S
  PROVE  \A k \in 0..n : g[k] \in S
<1>1. PICK T : T = {k \in 0..n : g[k] \in S}
  OBVIOUS
<1>2. T \in SUBSET (0..n) /\ 0 \in T
  BY <1>1
<1>3. ASSUME NEW k \in 1..n, k - 1 \in T PROVE k \in T
  BY <1>1, <1>3
<1>4. T = 0..n
  BY <1>2, <1>3, Upwards
<1> QED BY <1>1, <1>4

\* f goes from e on, in S, by the k-th step to f[k].
Iterates(f, n, S, e, step) ==
    /\ f \in [0..n -> S]
    /\ f[0] = e
    /\ \A k \in 1..n : f[k] = step[k][f[k - 1]]

\* A step from one value to the next makes a sequence of values.
LEMMA Iteration ==
  ASSUME NEW n \in Nat, NEW S, NEW e \in S, NEW step \in [1..n -> [S -> S]]
  PROVE  \E f : Iterates(f, n, S, e, step)
<1> DEFINE T == {m \in 0..n : \E f : Iterates(f, m, S, e, step)}
<1>1. 0 \in T
  <2>1. PICK f : f = [i \in 0..0 |-> e]
    OBVIOUS
  <2>2. f \in [0..0 -> S] /\ f[0] = e /\ 1..0 = {}
    BY <2>1
  <2>3. Iterates(f, 0, S, e, step)
    BY <2>2 DEF Iterates
  <2> QED BY <2>3
<1>2. ASSUME NEW m \in 1..n, m - 1 \in T PROVE m \in T
  <2>1. PICK f : Iterates(f, m - 1, S, e, step)
    BY <1>2
  <2>2. f[m - 1] \in S /\ step[m][f[m - 1]] \in S
    BY <2>1 DEF Iterates
  <2>3. PICK g : g = [i \in 0..m |-> IF i = m THEN step[m][f[m - 1]] ELSE f[i]]
    OBVIOUS
  <2>4. g \in [0..m -> S] /\ g[0] = e
    BY <2>1, <2>2, <2>3 DEF Iterates
  <2>5. ASSUME NEW k \in 1..m PROVE g[k] = step[k][g[k - 1]]
    <3>1. g[k - 1] = f[k - 1]
      BY <2>3
    <3>2. CASE k = m
      <4>1. g[k] = step[m][f[m - 1]]
        BY <2>3, <3>2
      <4> QED BY <3>1, <3>2, <4>1
    <3>3. CASE k \in 1..(m - 1)
      <4>1. g[k] = f[k] /\ f[k] = step[k][f[k - 1]]
        BY <2>1, <2>3, <3>3 DEF Iterates
      <4> QED BY <3>1, <4>1
    <3> QED BY <3>2, <3>3
  <2>6. Iterates(g, m, S, e, step)
    BY <2>4, <2>5 DEF Iterates
  <2> QED BY <2>6
<1>3. n \in T
  <2> HIDE DEF T
  <2>1. T \in SUBSET (0..n)
    BY DEF T
  <2> QED BY <1>1, <1>2, <2>1, Upwards
<1> QED BY <1>3

----------------------------------------------------------------------------
(* Rounding.                                                                *)

\* A quotient between two whole numbers stays between them when rounded.
LEMMA Within ==
  ASSUME NEW n \in Int, NEW d \in Nat \ {0}, NEW a \in Int, NEW b \in Int,
         a * d <= n, n <= b * d
  PROVE  a <= DivRound(n, d) /\ DivRound(n, d) <= b
  BY DEF DivRound, Magnitude

\* Rounding a quotient is off by half the divisor at most.
LEMMA HalfStep ==
  ASSUME NEW n \in Int, NEW d \in Nat \ {0}
  PROVE  DivRound(n, d) \in Int /\ 2 * Magnitude(DivRound(n, d) * d - n) <= d
  BY DEF DivRound, Magnitude

----------------------------------------------------------------------------
(* The order after each fill, and sums.                                     *)

Fill == [qty : Nat \ {0}, px : Int]
Position == [cum : Nat, avg : Int]

LEMMA TradeType ==
  ASSUME NEW o \in Position, NEW f \in Fill
  PROVE  Trade(o, f) \in Position
<1>1. /\ o.cum + f.qty \in Nat \ {0}
      /\ o.avg * o.cum + f.px * Scale * f.qty \in Int
  BY ScaleAssumption DEF Position, Fill
<1>2. DivRound(o.avg * o.cum + f.px * Scale * f.qty, o.cum + f.qty) \in Int
  <2> HIDE DEF Position, Fill
  <2> QED BY <1>1, HalfStep
<1> QED BY <1>1, <1>2 DEF Trade, Position

\* Executed goes from fill to fill by Trade.
LEMMA Executing ==
  ASSUME NEW s \in Seq(Fill)
  PROVE  \E o \in [0..Len(s) -> Position] :
           /\ o[0] = NoFills /\ \A k \in 1..Len(s) : o[k] = Trade(o[k - 1], s[k])
           /\ Executed(s) = o[Len(s)]
<1> DEFINE Recurs(f) ==
      f = [k \in 0..Len(s) |-> IF k = 0 THEN NoFills ELSE Trade(f[k - 1], s[k])]
<1>1. PICK step : step = [k \in 1..Len(s) |-> [o \in Position |-> Trade(o, s[k])]]
  OBVIOUS
<1>2. step \in [1..Len(s) -> [Position -> Position]]
  BY <1>1, TradeType
<1>3. NoFills \in Position /\ Len(s) \in Nat
  BY DEF NoFills, Position
<1>4. PICK f : Iterates(f, Len(s), Position, NoFills, step)
  BY <1>2, <1>3, Iteration
<1>5. ASSUME NEW k \in 1..Len(s) PROVE f[k] = Trade(f[k - 1], s[k])
  <2>1. f[k - 1] \in Position /\ f[k] = step[k][f[k - 1]]
    BY <1>4 DEF Iterates
  <2> QED BY <1>1, <2>1
<1>6. Recurs(f)
  BY <1>4, <1>5 DEF Iterates
<1>7. PICK g : g = CHOOSE h : Recurs(h)
  OBVIOUS
<1>8. Recurs(g)
  BY <1>6, <1>7
<1>9. Executed(s) = g[Len(s)]
  BY <1>7 DEF Executed
<1>10. g[0] = NoFills /\ \A k \in 1..Len(s) : g[k] = Trade(g[k - 1], s[k])
  BY <1>3, <1>8
<1>11. g \in [0..Len(s) -> Position]
  <2>1. \A k \in 1..Len(s) : g[k - 1] \in Position => g[k] \in Position
    BY <1>10, TradeType
  <2>2. g[0] \in Position
    BY <1>3, <1>10
  <2>3. \A k \in 0..Len(s) : g[k] \in Position
    BY ONLY <1>3, <2>1, <2>2, Stays
  <2> QED BY <1>8, <2>3
<1> QED BY <1>9, <1>10, <1>11

\* t[k] is the sum of the first k values.
Sums(t, values, n) ==
    /\ t \in [0..n -> Int]
    /\ t[0] = 0
    /\ \A k \in 1..n : t[k] = t[k - 1] + values[k]

\* Total goes from value to value by addition.
LEMMA Totalling ==
  ASSUME NEW v \in Seq(Int)
  PROVE  \E t : Sums(t, v, Len(v)) /\ Total(v) = t[Len(v)]
<1> DEFINE Recurs(f) == f = [k \in 0..Len(v) |-> IF k = 0 THEN 0 ELSE f[k - 1] + v[k]]
<1>1. PICK step : step = [k \in 1..Len(v) |-> [a \in Int |-> a + v[k]]]
  OBVIOUS
<1>2. step \in [1..Len(v) -> [Int -> Int]] /\ Len(v) \in Nat /\ 0 \in Int
  BY <1>1
<1>3. PICK f : Iterates(f, Len(v), Int, 0, step)
  BY <1>2, Iteration
<1>4. ASSUME NEW k \in 1..Len(v) PROVE f[k] = f[k - 1] + v[k]
  <2>1. f \in [0..Len(v) -> Int] /\ f[k] = step[k][f[k - 1]]
    BY <1>3 DEF Iterates
  <2>2. f[k - 1] \in Int
    <3>1. k - 1 \in 0..Len(v)
      BY <1>2
    <3> QED BY ONLY <2>1, <3>1
  <2> QED BY <1>1, <2>1, <2>2
<1>5. Recurs(f)
  BY <1>3, <1>4 DEF Iterates
<1>6. PICK g : g = CHOOSE h : Recurs(h)
  OBVIOUS
<1>7. Recurs(g)
  BY <1>5, <1>6
<1>8. Total(v) = g[Len(v)]
  BY <1>6 DEF Total
<1>9. g[0] = 0 /\ \A k \in 1..Len(v) : g[k] = g[k - 1] + v[k]
  BY <1>2, <1>7
<1>10. g \in [0..Len(v) -> Int]
  <2>1. \A k \in 1..Len(v) : g[k - 1] \in Int => g[k] \in Int
    <3>1. \A k \in 1..Len(v) : v[k] \in Int
      OBVIOUS
    <3> QED BY ONLY <1>9, <3>1
  <2>2. g[0] \in Int
    BY <1>9
  <2>3. \A k \in 0..Len(v) : g[k] \in Int
    BY ONLY <1>2, <2>1, <2>2, Stays
  <2> QED BY <1>7, <2>3
<1> QED BY <1>8, <1>9, <1>10 DEF Sums

\* Sums of the same values are the same.
LEMMA SameSums ==
  ASSUME NEW n \in Nat, NEW v, NEW w, NEW t, NEW u,
         Sums(t, v, n), Sums(u, w, n), \A k \in 1..n : v[k] = w[k]
  PROVE  t[n] = u[n]
<1>1. PICK T : T = {k \in 0..n : t[k] = u[k]}
  OBVIOUS
<1>2. T \in SUBSET (0..n) /\ 0 \in T
  BY <1>1 DEF Sums
<1>3. ASSUME NEW k \in 1..n, k - 1 \in T PROVE k \in T
  <2>1. t[k] = t[k - 1] + v[k] /\ u[k] = u[k - 1] + w[k] /\ t[k - 1] = u[k - 1]
    BY <1>1, <1>3 DEF Sums
  <2> QED BY <1>1, <2>1
<1>4. T = 0..n
  BY <1>2, <1>3, Upwards
<1> QED BY <1>1, <1>4

----------------------------------------------------------------------------
(* AvgPx.                                                                   *)

\* A fill adds at most half a step, at the quantity reached, to the error.
LEMMA TradeError ==
  ASSUME NEW o \in Position, NEW f \in Fill, NEW notional \in Int, NEW drift \in Int,
         2 * Magnitude(o.avg * o.cum - notional * Scale) <= drift
  PROVE  /\ Trade(o, f).cum = o.cum + f.qty
         /\ 2 * Magnitude(Trade(o, f).avg * Trade(o, f).cum - (notional + f.px * f.qty) * Scale)
              <= drift + Trade(o, f).cum
<1>1. PICK a, c, q, p, N : /\ a = o.avg /\ c = o.cum /\ q = f.qty /\ p = f.px
                           /\ N = notional
  OBVIOUS
<1>2. a \in Int /\ c \in Nat /\ q \in Nat \ {0} /\ p \in Int /\ N \in Int /\ Scale \in Int
  BY <1>1, ScaleAssumption DEF Position, Fill
<1>3. PICK num, d : num = a * c + p * Scale * q /\ d = c + q
  OBVIOUS
<1>4. num \in Int /\ d \in Nat \ {0}
  BY <1>2, <1>3
<1>5. DivRound(num, d) \in Int /\ 2 * Magnitude(DivRound(num, d) * d - num) <= d
  BY <1>4, HalfStep
<1>6. Trade(o, f) = [cum |-> d, avg |-> DivRound(num, d)]
  BY <1>1, <1>3 DEF Trade
<1>7. PICK x, e, N1 : x = DivRound(num, d) * d /\ e = a * c - N * Scale
                      /\ N1 = (N + p * q) * Scale
  OBVIOUS
<1>8. x \in Int /\ e \in Int /\ N1 \in Int /\ num - N1 = e
  BY <1>2, <1>3, <1>5, <1>4, <1>7
<1>9. 2 * Magnitude(x - num) <= d /\ 2 * Magnitude(e) <= drift
  BY <1>1, <1>5, <1>7
<1>10. 2 * Magnitude(x - N1) <= drift + d
  BY <1>4, <1>8, <1>9 DEF Magnitude
<1> QED BY <1>1, <1>3, <1>6, <1>7, <1>10

\* A fill leaves an average between prices it and the last average are between.
LEMMA TradeWithin ==
  ASSUME NEW o \in Position, NEW f \in Fill, NEW least \in Int, NEW most \in Int,
         least <= f.px, f.px <= most,
         o.cum = 0 \/ (least * Scale <= o.avg /\ o.avg <= most * Scale)
  PROVE  least * Scale <= Trade(o, f).avg /\ Trade(o, f).avg <= most * Scale
<1>1. PICK a, c, q, p : a = o.avg /\ c = o.cum /\ q = f.qty /\ p = f.px
  OBVIOUS
<1>2. a \in Int /\ c \in Nat /\ q \in Nat \ {0} /\ p \in Int /\ Scale \in Nat
  BY <1>1, ScaleAssumption DEF Position, Fill
<1>3. PICK num, d, lo, hi : /\ num = a * c + p * Scale * q /\ d = c + q
                            /\ lo = least * Scale /\ hi = most * Scale
  OBVIOUS
<1>4. num \in Int /\ d \in Nat \ {0} /\ lo \in Int /\ hi \in Int
  BY <1>2, <1>3
<1>5. lo * q <= p * Scale * q /\ p * Scale * q <= hi * q
  <2>1. lo <= p * Scale /\ p * Scale <= hi /\ p * Scale \in Int
    <3>1. \A x, y \in Int : x <= y => x * Scale <= y * Scale
      BY <1>2
    <3> QED BY <1>1, <1>2, <1>3, <3>1
  <2> QED BY <1>2, <1>4, <2>1
<1>6. lo * c <= a * c /\ a * c <= hi * c
  <2>1. c = 0 \/ (lo <= a /\ a <= hi)
    BY <1>1, <1>3
  <2> QED BY <1>2, <1>4, <2>1
<1>7. lo * d <= num /\ num <= hi * d
  BY <1>2, <1>3, <1>4, <1>5, <1>6
<1>8. lo <= DivRound(num, d) /\ DivRound(num, d) <= hi
  BY <1>4, <1>7, Within
<1> QED BY <1>1, <1>3, <1>8 DEF Trade
LEMMA Averaging ==
  ASSUME NEW s \in Seq(Fill)
  PROVE  /\ Executed(s) \in Position /\ Notional(s) \in Int /\ Drift(s) \in Int
         /\ Executed(s).cum = CumQty(s)
         /\ 2 * Magnitude(Executed(s).avg * Executed(s).cum - Notional(s) * Scale) <= Drift(s)
<1>1. PICK o \in [0..Len(s) -> Position] :
        /\ o[0] = NoFills /\ \A k \in 1..Len(s) : o[k] = Trade(o[k - 1], s[k])
        /\ Executed(s) = o[Len(s)]
  BY Executing
<1>2. Len(s) \in Nat /\ DOMAIN s = 1..Len(s) /\ \A k \in 1..Len(s) : s[k] \in Fill
  OBVIOUS
<1>3. PICK qtys : qtys = [i \in DOMAIN s |-> s[i].qty]
  OBVIOUS
<1>4. qtys \in Seq(Int) /\ Len(qtys) = Len(s) /\ \A k \in 1..Len(s) : qtys[k] = s[k].qty
  BY <1>2, <1>3 DEF Fill
<1>5. PICK q : Sums(q, qtys, Len(s)) /\ CumQty(s) = q[Len(s)]
  <2>1. \E t : Sums(t, qtys, Len(qtys)) /\ Total(qtys) = t[Len(qtys)]
    BY <1>4, Totalling
  <2> QED BY <1>3, <1>4, <2>1 DEF CumQty
<1>6. PICK costs : costs = [i \in DOMAIN s |-> s[i].px * s[i].qty]
  OBVIOUS
<1>7. /\ costs \in Seq(Int) /\ Len(costs) = Len(s)
      /\ \A k \in 1..Len(s) : costs[k] = s[k].px * s[k].qty
  BY <1>2, <1>6 DEF Fill
<1>8. PICK c : Sums(c, costs, Len(s)) /\ Notional(s) = c[Len(s)]
  <2>1. \E t : Sums(t, costs, Len(costs)) /\ Total(costs) = t[Len(costs)]
    BY <1>7, Totalling
  <2> QED BY <1>6, <1>7, <2>1 DEF Notional
<1>9. PICK steps : steps = [i \in DOMAIN s |-> CumQty(SubSeq(s, 1, i))]
  OBVIOUS
<1>10. ASSUME NEW k \in 1..Len(s) PROVE CumQty(SubSeq(s, 1, k)) = q[k]
  <2>1. PICK part : part = SubSeq(s, 1, k)
    OBVIOUS
  <2>2. /\ Len(part) = k /\ DOMAIN part = 1..k /\ \A i \in 1..k : part[i] = s[i]
    BY <1>2, <2>1
  <2>3. PICK some : some = [i \in DOMAIN part |-> part[i].qty]
    OBVIOUS
  <2>4. some \in Seq(Int) /\ Len(some) = k /\ \A i \in 1..k : some[i] = s[i].qty
    BY <1>2, <2>2, <2>3 DEF Fill
  <2>5. PICK t : Sums(t, some, k) /\ CumQty(part) = t[k]
    <3>1. \E t : Sums(t, some, Len(some)) /\ Total(some) = t[Len(some)]
      BY <2>4, Totalling
    <3> QED BY <2>3, <2>4, <3>1 DEF CumQty
  <2>6. PICK u : u = [i \in 0..k |-> q[i]]
    OBVIOUS
  <2>7. Sums(u, qtys, k)
    <3>1. 0 \in 0..k /\ \A i \in 0..k : i \in 0..Len(s)
      BY <1>2
    <3>2. q[0] = 0 /\ \A i \in 0..k : q[i] \in Int
      BY <1>5, <3>1 DEF Sums
    <3>4. u \in [0..k -> Int] /\ u[0] = 0
      BY ONLY <2>6, <3>1, <3>2
    <3>3. \A i \in 1..k : u[i] = u[i - 1] + qtys[i]
      BY <1>2, <1>5, <2>6 DEF Sums
    <3> QED BY <3>3, <3>4 DEF Sums
  <2>8. \A i \in 1..k : some[i] = qtys[i]
    BY <1>4, <2>4
  <2>9. t[k] = u[k]
    BY <2>5, <2>7, <2>8, SameSums
  <2> QED BY <2>1, <2>5, <2>6, <2>9
<1>11. /\ steps \in Seq(Int) /\ Len(steps) = Len(s)
       /\ \A k \in 1..Len(s) : steps[k] = q[k]
  <2>1. \A k \in 1..Len(s) : steps[k] = q[k] /\ q[k] \in Int
    BY <1>2, <1>5, <1>9, <1>10 DEF Sums
  <2> QED BY <1>2, <1>9, <2>1
<1>12. PICK d : Sums(d, steps, Len(s)) /\ Drift(s) = d[Len(s)]
  <2>1. \E t : Sums(t, steps, Len(steps)) /\ Total(steps) = t[Len(steps)]
    BY <1>11, Totalling
  <2> QED BY <1>9, <1>11, <2>1 DEF Drift
<1> DEFINE Close(k) == /\ o[k].cum = q[k]
                       /\ 2 * Magnitude(o[k].avg * o[k].cum - c[k] * Scale) <= d[k]
<1>13. PICK T : T = {k \in 0..Len(s) : Close(k)}
  OBVIOUS
<1>14. 0 \in T
  <2>1. o[0].cum = 0 /\ o[0].avg = 0 /\ q[0] = 0 /\ c[0] = 0 /\ d[0] = 0
    BY <1>1, <1>5, <1>8, <1>12 DEF Sums, NoFills
  <2> QED BY <1>2, <1>13, <2>1, ScaleAssumption DEF Magnitude
<1>15. ASSUME NEW k \in 1..Len(s), k - 1 \in T PROVE k \in T
  <2>1. o[k - 1] \in Position /\ s[k] \in Fill /\ o[k] = Trade(o[k - 1], s[k])
    BY <1>1, <1>2
  <2>2. /\ c[k - 1] \in Int /\ d[k - 1] \in Int /\ q[k] = q[k - 1] + s[k].qty
        /\ c[k] = c[k - 1] + s[k].px * s[k].qty /\ d[k] = d[k - 1] + q[k]
    <3>1. k - 1 \in 0..Len(s)
      BY <1>2
    <3>2. c[k - 1] \in Int /\ d[k - 1] \in Int
      BY <1>8, <1>12, <3>1 DEF Sums
    <3>3. /\ q[k] = q[k - 1] + qtys[k] /\ c[k] = c[k - 1] + costs[k]
          /\ d[k] = d[k - 1] + steps[k]
      BY <1>5, <1>8, <1>12 DEF Sums
    <3> QED BY <1>4, <1>7, <1>11, <3>2, <3>3
  <2>3. Close(k - 1)
    BY <1>13, <1>15
  <2>4. /\ Trade(o[k - 1], s[k]).cum = o[k - 1].cum + s[k].qty
        /\ 2 * Magnitude(Trade(o[k - 1], s[k]).avg * Trade(o[k - 1], s[k]).cum
                           - (c[k - 1] + s[k].px * s[k].qty) * Scale)
             <= d[k - 1] + Trade(o[k - 1], s[k]).cum
    BY <2>1, <2>2, <2>3, TradeError
  <2>5. Close(k)
    BY <2>1, <2>2, <2>3, <2>4
  <2> QED BY <1>13, <2>5
<1>16. T = 0..Len(s)
  BY <1>2, <1>13, <1>14, <1>15, Upwards
<1>17. Close(Len(s)) /\ o[Len(s)] \in Position /\ c[Len(s)] \in Int /\ d[Len(s)] \in Int
  BY <1>1, <1>2, <1>8, <1>12, <1>13, <1>16 DEF Sums
<1> QED BY <1>1, <1>5, <1>8, <1>12, <1>17

LEMMA Bounding ==
  ASSUME NEW s \in Seq(Fill), s # << >>, NEW least \in Int, NEW most \in Int,
         \A k \in 1..Len(s) : least <= s[k].px /\ s[k].px <= most
  PROVE  /\ least * Scale <= Executed(s).avg /\ Executed(s).avg <= most * Scale
         /\ least <= ReportedAvgPx(s) /\ ReportedAvgPx(s) <= most
<1>1. PICK o \in [0..Len(s) -> Position] :
        /\ o[0] = NoFills /\ \A k \in 1..Len(s) : o[k] = Trade(o[k - 1], s[k])
        /\ Executed(s) = o[Len(s)]
  BY Executing
<1>2. Len(s) \in Nat \ {0} /\ \A k \in 1..Len(s) : s[k] \in Fill
  OBVIOUS
<1> DEFINE Inside(k) == least * Scale <= o[k].avg /\ o[k].avg <= most * Scale
<1>3. PICK T : T = {k \in 0..Len(s) : k = 0 \/ Inside(k)}
  OBVIOUS
<1>4. ASSUME NEW k \in 1..Len(s), k - 1 \in T PROVE k \in T
  <2>1. o[k - 1] \in Position /\ s[k] \in Fill /\ o[k] = Trade(o[k - 1], s[k])
    BY <1>1, <1>2
  <2>2. o[k - 1].cum = 0 \/ Inside(k - 1)
    BY <1>1, <1>3, <1>4 DEF NoFills
  <2>3. Inside(k)
    BY <2>1, <2>2, TradeWithin
  <2> QED BY <1>3, <2>3
<1>5. T = 0..Len(s)
  <2>1. T \in SUBSET (0..Len(s)) /\ 0 \in T
    BY <1>2, <1>3
  <2> QED BY <1>2, <1>4, <2>1, Upwards
<1>6. Inside(Len(s)) /\ o[Len(s)] \in Position
  BY <1>1, <1>2, <1>3, <1>5
<1>7. o[Len(s)].avg \in Int /\ Scale \in Nat \ {0}
  BY <1>6, ScaleAssumption DEF Position
<1>8. least <= DivRound(o[Len(s)].avg, Scale) /\ DivRound(o[Len(s)].avg, Scale) <= most
  BY <1>6, <1>7, Within
<1> QED BY <1>1, <1>6, <1>8 DEF ReportedAvgPx

\* A series of fills has a lowest and a highest price.
LEMMA Extremes ==
  ASSUME NEW s \in Seq(Fill), s # << >>
  PROVE  \E i, j \in 1..Len(s) : \A k \in 1..Len(s) : s[i].px <= s[k].px /\ s[k].px <= s[j].px
<1>1. Len(s) \in Nat \ {0} /\ \A k \in 1..Len(s) : s[k].px \in Int
  <2>1. Len(s) \in Nat \ {0} /\ \A k \in 1..Len(s) : s[k] \in Fill
    OBVIOUS
  <2> QED BY <2>1 DEF Fill
<1> DEFINE Known(n) == \E i, j \in 1..n : \A k \in 1..n : s[i].px <= s[k].px /\ s[k].px <= s[j].px
<1>2. PICK T : T = {n \in 0..Len(s) : n = 0 \/ Known(n)}
  OBVIOUS
<1>3. ASSUME NEW n \in 1..Len(s), n - 1 \in T PROVE n \in T
  <2>1. CASE n = 1
    <3>1. \A k \in 1..n : s[1].px <= s[k].px /\ s[k].px <= s[1].px
      BY <1>1, <2>1
    <3> QED BY <1>2, <2>1, <3>1
  <2>2. CASE n # 1
    <3>1. PICK i, j \in 1..(n - 1) :
            \A k \in 1..(n - 1) : s[i].px <= s[k].px /\ s[k].px <= s[j].px
      BY <1>2, <1>3, <2>2
    <3>2. PICK a : a = IF s[n].px < s[i].px THEN n ELSE i
      OBVIOUS
    <3>3. PICK b : b = IF s[n].px > s[j].px THEN n ELSE j
      OBVIOUS
    <3>4. a \in 1..n /\ b \in 1..n
      BY <1>1, <3>2, <3>3
    <3>5. ASSUME NEW k \in 1..n PROVE s[a].px <= s[k].px /\ s[k].px <= s[b].px
      <4>1. /\ s[a].px <= s[n].px /\ s[n].px <= s[b].px
            /\ s[a].px <= s[i].px /\ s[j].px <= s[b].px
        BY <1>1, <3>2, <3>3
      <4>2. s[a].px \in Int /\ s[b].px \in Int /\ s[k].px \in Int
        BY <1>1, <3>4
      <4>3. s[i].px \in Int /\ s[j].px \in Int
        BY <1>1
      <4>4. k # n => s[i].px <= s[k].px /\ s[k].px <= s[j].px
        BY <3>1
      <4> QED BY <4>1, <4>2, <4>3, <4>4
    <3>6. Known(n)
      BY <3>4, <3>5
    <3> HIDE DEF Known
    <3> QED BY <1>2, <3>6
  <2> QED BY <2>1, <2>2
<1>4. T = 0..Len(s)
  <2>1. T \in SUBSET (0..Len(s)) /\ 0 \in T
    BY <1>1, <1>2
  <2> QED BY <1>1, <1>3, <2>1, Upwards
<1>5. Known(Len(s))
  <2>1. Len(s) \in T /\ Len(s) # 0
    BY <1>1, <1>4
  <2> HIDE DEF Known
  <2> QED BY <1>2, <2>1
<1> QED BY <1>5

----------------------------------------------------------------------------
(* What a client dials.                                                     *)

LEMMA HostAsTold ==
  ASSUME NEW program, NEW file \in Files, NEW host, host # NoHost
  PROVE  \A d \in Dialled(program, file, host) : d.host = host
<1> DEFINE written == [file EXCEPT !.global = host]
<1>1. OverrideConnectHost(file, host)
        = [file |-> written, ok |-> \A s \in Sessions(written) : HostOf(written, s) = host]
  BY DEF OverrideConnectHost, Sessions, Files
<1>2. ASSUME NEW d \in Dialled(program, file, host)
      PROVE  d.host = host
  <2>1. (\A s \in Sessions(written) : HostOf(written, s) = host) /\ d \in Dials(written)
    BY <1>1, <1>2 DEF Dialled
  <2> QED BY <2>1 DEF Dials
<1> QED BY <1>2

LEMMA Undirected ==
  ASSUME NEW program, NEW file
  PROVE  Dialled(program, file, NoHost) \in {{}, Dials(file)}
  BY DEF Dialled, OverrideConnectHost, Unchanged

\* A settings file has a finite number of sessions, so one is one.
LEMMA SoleDial ==
  ASSUME NEW program, NEW file \in Files, NEW host, StaysUp(program, file, host)
  PROVE  Cardinality(Dialled(program, file, host)) = 1
<1>1. PICK o : o = OverrideConnectHost(file, host)
  OBVIOUS
<1>2. Sessions(o.file) = Sessions(file)
  BY <1>1 DEF OverrideConnectHost, Unchanged, Sessions, Files
<1>3. IsFiniteSet(Sessions(file))
  <2>1. Sessions(file) \subseteq SessionIDs
    BY DEF Sessions, Files
  <2> QED BY <2>1, InputAssumption, FS_Subset
<1>4. PICK s : Sessions(o.file) = {s}
  BY <1>1, <1>2, <1>3, FS_Singleton DEF StaysUp, SoleSession
<1>5. Dialled(program, file, host) = Dials(o.file) /\ Dials(o.file) # {}
  BY <1>1 DEF StaysUp, Dialled
<1>6. Dials(o.file) = {[session |-> s, host |-> HostOf(o.file, s)]}
  BY <1>4, <1>5 DEF Dials
<1> QED BY <1>5, <1>6, FS_Singleton
----------------------------------------------------------------------------
(* What is logged.                                                        *)

\* IndexByte finds the first.
LEMMA FirstIndex ==
  ASSUME NEW s \in Seq(Int), NEW b
  PROVE  \/ IndexByte(s, b) = 0 /\ \A k \in 1..Len(s) : s[k] # b
         \/ /\ IndexByte(s, b) \in 1..Len(s) /\ s[IndexByte(s, b)] = b
            /\ \A k \in 1..(IndexByte(s, b) - 1) : s[k] # b
<1>1. PICK I : I = {i \in 1..Len(s) : s[i] = b}
  OBVIOUS
<1>2. IndexByte(s, b) = IF I # {} THEN Min(I) ELSE 0
  BY <1>1 DEF IndexByte, SelectInSeq
<1>3. CASE I = {}
  BY <1>1, <1>2, <1>3
<1>4. CASE I # {}
  <2>1. PICK i \in I : \A j \in I : i <= j
    <3>1. I \in SUBSET Nat
      BY <1>1
    <3> QED BY <1>4, <3>1, Least
  <2>2. Min(I) \in I /\ \A j \in I : Min(I) <= j
    BY <2>1 DEF Min
  <2>3. PICK m : m = Min(I)
    OBVIOUS
  <2>4. m \in 1..Len(s) /\ s[m] = b /\ \A j \in I : m <= j
    BY <1>1, <2>2, <2>3
  <2>5. \A k \in 1..(m - 1) : s[k] # b
    BY <1>1, <2>4
  <2> QED BY <1>2, <1>4, <2>3, <2>4, <2>5
<1> QED BY <1>3, <1>4

----------------------------------------------------------------------------
(* The number in a tag.                                                     *)

\* v[k] is the number that the first k digits spell.
Spells(v, tag) ==
    /\ v \in [0..Len(tag) -> Nat]
    /\ v[0] = 0
    /\ \A k \in 1..Len(tag) : v[k] = v[k - 1] * 10 + tag[k] - Zero

LEMMA Digital ==
  ASSUME NEW tag \in Seq(Int), AllDigits(tag)
  PROVE  Len(tag) \in Nat \ {0} /\ Zero = 48 /\ \A k \in 1..Len(tag) : tag[k] \in 48..57
  BY DEF AllDigits, Digits, Zero

LEMMA MoreDigits ==
  ASSUME NEW tag \in Seq(Int), AllDigits(tag), NEW k \in 1..Len(tag), NEW a \in Nat
  PROVE  /\ a * 10 + tag[k] - Zero \in Nat
         /\ a <= a * 10 + tag[k] - Zero /\ tag[k] - Zero <= a * 10 + tag[k] - Zero
<1>1. PICK d \in 48..57 : d = tag[k]
  BY Digital
<1>2. \A x \in 48..57 : a * 10 + x - 48 \in Nat /\ a <= a * 10 + x - 48 /\ x - 48 <= a * 10 + x - 48
  OBVIOUS
<1>3. Zero = 48
  BY Digital
<1> QED BY <1>1, <1>2, <1>3

LEMMA Valuing ==
  ASSUME NEW tag \in Seq(Int), AllDigits(tag)
  PROVE  \E v : Spells(v, tag) /\ Value(tag) = v[Len(tag)]
<1> DEFINE Recurs(f) == f = [k \in 0..Len(tag) |->
                               IF k = 0 THEN 0 ELSE f[k - 1] * 10 + tag[k] - Zero]
<1>1. PICK step : step = [k \in 1..Len(tag) |-> [a \in Nat |-> a * 10 + tag[k] - Zero]]
  OBVIOUS
<1>2. step \in [1..Len(tag) -> [Nat -> Nat]] /\ Len(tag) \in Nat
  <2>1. \A k \in 1..Len(tag), a \in Nat : a * 10 + tag[k] - Zero \in Nat
    BY MoreDigits
  <2> QED BY <1>1, <2>1, Digital
<1>3. PICK f : Iterates(f, Len(tag), Nat, 0, step)
  BY <1>2, Iteration
<1>4. ASSUME NEW k \in 1..Len(tag) PROVE f[k] = f[k - 1] * 10 + tag[k] - Zero
  <2>1. k - 1 \in 0..Len(tag)
    BY <1>2
  <2>2. f[k - 1] \in Nat /\ f[k] = step[k][f[k - 1]]
    BY <1>3, <2>1 DEF Iterates
  <2> QED BY <1>1, <2>2
<1>5. Recurs(f)
  <2>1. f \in [0..Len(tag) -> Nat] /\ f[0] = 0
    BY <1>3 DEF Iterates
  <2> QED BY <1>2, <1>4, <2>1
<1>6. PICK v : v = CHOOSE h : Recurs(h)
  OBVIOUS
<1>7. Recurs(v)
  BY <1>5, <1>6
<1>8. Value(tag) = v[Len(tag)]
  BY <1>6 DEF Value
<1>9. v[0] = 0 /\ \A k \in 1..Len(tag) : v[k] = v[k - 1] * 10 + tag[k] - Zero
  BY <1>2, <1>7
<1>10. \A k \in 1..Len(tag) : v[k - 1] \in Nat => v[k] \in Nat
  BY <1>9, MoreDigits
<1>11. \A k \in 0..Len(tag) : v[k] \in Nat
  <2>1. v[0] \in Nat
    BY <1>9
  <2> QED BY ONLY <1>2, <1>10, <2>1, Stays
<1>12. v \in [0..Len(tag) -> Nat]
  BY <1>7, <1>11
<1> QED BY <1>8, <1>9, <1>12 DEF Spells

\* More digits make no smaller number, and a digit is no larger than its number.
LEMMA Growing ==
  ASSUME NEW tag \in Seq(Int), AllDigits(tag), NEW v, Spells(v, tag)
  PROVE  /\ \A j \in 0..Len(tag) : \A i \in 0..j : v[i] <= v[j]
         /\ \A k \in 1..Len(tag) : tag[k] - Zero <= v[k]
<1>1. \A k \in 1..Len(tag) : /\ v[k - 1] \in Nat /\ v[k] \in Nat
                             /\ v[k - 1] <= v[k] /\ tag[k] - Zero <= v[k]
  <2>1. ASSUME NEW k \in 1..Len(tag)
        PROVE  /\ v[k - 1] \in Nat /\ v[k] \in Nat
               /\ v[k - 1] <= v[k] /\ tag[k] - Zero <= v[k]
    <3>1. k - 1 \in 0..Len(tag) /\ k \in 0..Len(tag)
      BY Digital
    <3>2. v[k - 1] \in Nat /\ v[k] \in Nat /\ v[k] = v[k - 1] * 10 + tag[k] - Zero
      BY <3>1 DEF Spells
    <3> QED BY <3>2, MoreDigits
  <2> QED BY <2>1
<1>2. PICK T : T = {j \in 0..Len(tag) : \A i \in 0..j : v[i] <= v[j]}
  OBVIOUS
<1>3. T \in SUBSET (0..Len(tag)) /\ 0 \in T
  <2>1. Len(tag) \in Nat /\ v[0] <= v[0]
    BY Digital DEF Spells
  <2> QED BY <1>2, <2>1
<1>4. ASSUME NEW k \in 1..Len(tag), k - 1 \in T PROVE k \in T
  <2>1. ASSUME NEW i \in 0..k PROVE v[i] <= v[k]
    <3>1. CASE i = k
      BY <1>1, <3>1
    <3>2. CASE i # k
      <4>1. i \in 0..(k - 1) /\ i \in 0..Len(tag)
        BY <3>2, Digital
      <4>2. v[i] <= v[k - 1] /\ v[i] \in Nat
        BY <1>2, <1>4, <4>1 DEF Spells
      <4> QED BY <1>1, <4>2
    <3> QED BY <3>1, <3>2
  <2> QED BY <1>2, <2>1
<1>5. T = 0..Len(tag)
  BY <1>3, <1>4, Digital, Upwards
<1> QED BY <1>1, <1>2, <1>5

LEMMA Remainder ==
  ASSUME NEW x \in Nat, NEW m \in Nat \ {0}, x < m
  PROVE  x % m = x
  OBVIOUS

\* A number that an int holds is found.
LEMMA NoWrap ==
  ASSUME NEW tag \in Seq(Int), AllDigits(tag), Value(tag) < Modulus
  PROVE  Number(tag) = Value(tag)
<1> DEFINE Recurs(f) == f = [k \in 0..Len(tag) |->
                               IF k = 0 THEN 0 ELSE (f[k - 1] * 10 + tag[k] - Zero) % Modulus]
<1>1. PICK v : Spells(v, tag) /\ Value(tag) = v[Len(tag)]
  BY Valuing
<1>2. Len(tag) \in Nat \ {0}
  BY Digital
<1>3. ASSUME NEW k \in 1..Len(tag)
      PROVE  v[k] = (v[k - 1] * 10 + tag[k] - Zero) % Modulus
  <2>1. v[k] \in Nat /\ v[k] <= v[Len(tag)] /\ v[Len(tag)] < Modulus
    <3>1. k \in 0..Len(tag) /\ Len(tag) \in 0..Len(tag) /\ k \in 0..Len(tag)
      BY <1>2
    <3>2. v[k] <= v[Len(tag)]
      BY <1>1, <3>1, Growing
    <3> QED BY <1>1, <3>1, <3>2 DEF Spells
  <2>2. v[k] % Modulus = v[k]
    <3>1. Modulus \in Nat \ {0} /\ v[k] < Modulus
      <4>1. v[Len(tag)] \in Nat
        BY <1>1, <1>2 DEF Spells
      <4> QED BY ONLY <2>1, <4>1, ModulusAssumption DEF SecretTags
    <3> QED BY <2>1, <3>1, Remainder
  <2>3. v[k] = v[k - 1] * 10 + tag[k] - Zero
    BY <1>1 DEF Spells
  <2> QED BY <2>2, <2>3
<1>4. Recurs(v)
  <2>1. v \in [0..Len(tag) -> Nat] /\ v[0] = 0
    BY <1>1 DEF Spells
  <2> QED BY <1>2, <1>3, <2>1
<1>5. PICK n : n = CHOOSE h : Recurs(h)
  OBVIOUS
<1>6. Recurs(n) /\ Number(tag) = n[Len(tag)]
  BY <1>4, <1>5 DEF Number
<1>7. n[0] = 0 /\ \A k \in 1..Len(tag) : n[k] = (n[k - 1] * 10 + tag[k] - Zero) % Modulus
  <2>1. 0 \in 0..Len(tag) /\ \A k \in 1..Len(tag) : k \in 0..Len(tag) /\ k # 0
    BY <1>2
  <2> QED BY ONLY <1>6, <2>1
<1>8. PICK T : T = {k \in 0..Len(tag) : n[k] = v[k]}
  OBVIOUS
<1>9. T \in SUBSET (0..Len(tag)) /\ 0 \in T
  BY <1>1, <1>2, <1>7, <1>8 DEF Spells
<1>10. ASSUME NEW k \in 1..Len(tag), k - 1 \in T PROVE k \in T
  <2>1. n[k - 1] = v[k - 1]
    BY <1>8, <1>10
  <2> QED BY <1>3, <1>7, <1>8, <2>1
<1>11. T = 0..Len(tag)
  BY <1>2, <1>9, <1>10, Upwards
<1>12. Len(tag) \in T
  BY <1>2, <1>11
<1> QED BY ONLY <1>1, <1>6, <1>8, <1>12

\* What a tag of leading zeros and a secret one looks like.
EndsWith(tag, secret) ==
    /\ Len(secret) <= Len(tag)
    /\ \A k \in 1..(Len(tag) - Len(secret)) : tag[k] = 48
    /\ \A k \in 1..Len(secret) : tag[Len(tag) - Len(secret) + k] = secret[k]

LEMMA LeadingZeros ==
  ASSUME NEW tag \in Seq(Int), NEW secret \in Seq(Int)
  PROVE  tag = [i \in 1..Len(tag) - Len(secret) |-> Zero] \o secret <=> EndsWith(tag, secret)
<1>0. PICK m, zeros : /\ m = Len(tag) - Len(secret)
                      /\ zeros = [i \in 1..Len(tag) - Len(secret) |-> Zero]
  OBVIOUS
<1> SUFFICES tag = zeros \o secret <=> EndsWith(tag, secret)
  BY <1>0
<1>1. m = Len(tag) - Len(secret) /\ zeros = [i \in 1..m |-> Zero]
  BY <1>0
<1>2. Len(tag) \in Nat /\ Len(secret) \in Nat /\ m \in Int
  BY <1>1
<1>3. CASE m < 0
  <2>1. zeros = << >>
    BY <1>1, <1>2, <1>3
  <2>2. zeros \o secret = secret
    BY <2>1, ConcatEmptySeq
  <2>3. ~ EndsWith(tag, secret)
    BY <1>1, <1>2, <1>3 DEF EndsWith
  <2>4. tag # secret
    BY <1>1, <1>2, <1>3
  <2> QED BY <1>1, <2>2, <2>3, <2>4
<1>4. CASE m >= 0
  <2>1. zeros \in Seq(Int) /\ Len(zeros) = m /\ \A k \in 1..m : zeros[k] = 48
    BY <1>1, <1>2, <1>4 DEF Zero
  <2>2. PICK whole : whole = zeros \o secret
    OBVIOUS
  <2>3. /\ whole \in Seq(Int) /\ Len(whole) = Len(tag)
        /\ \A k \in 1..Len(tag) : whole[k] = IF k <= m THEN 48 ELSE secret[k - m]
    <3>1. /\ whole \in Seq(Int) /\ Len(whole) = m + Len(secret)
          /\ \A k \in 1..(m + Len(secret)) :
               whole[k] = IF k <= m THEN zeros[k] ELSE secret[k - m]
      BY <2>1, <2>2, ConcatProperties
    <3>2. m + Len(secret) = Len(tag)
      BY <1>1, <1>2
    <3>3. \A k \in 1..Len(tag) : k <= m => zeros[k] = 48
      BY <1>2, <2>1
    <3> QED BY ONLY <3>1, <3>2, <3>3
  <2>4. ASSUME EndsWith(tag, secret) PROVE tag = whole
    <3>1. ASSUME NEW k \in 1..Len(tag) PROVE tag[k] = whole[k]
      <4>1. CASE k <= m
        BY <1>1, <1>2, <2>3, <2>4, <4>1 DEF EndsWith
      <4>2. CASE k > m
        <5>1. k - m \in 1..Len(secret) /\ k = m + (k - m)
          BY <1>1, <1>2, <4>2
        <5>2. tag[m + (k - m)] = secret[k - m]
          BY <1>1, <2>4, <5>1 DEF EndsWith
        <5>3. whole[k] = secret[k - m]
          BY <1>2, <2>3, <4>2
        <5> QED BY <5>1, <5>2, <5>3
      <4> QED BY <1>2, <4>1, <4>2
    <3> QED BY <2>3, <3>1, SeqEqual
  <2>5. ASSUME tag = whole PROVE EndsWith(tag, secret)
    <3>1. \A k \in 1..m : tag[k] = 48
      BY <1>1, <1>2, <2>3, <2>5
    <3>2. ASSUME NEW k \in 1..Len(secret) PROVE tag[m + k] = secret[k]
      <4>1. m + k \in 1..Len(tag) /\ ~ (m + k <= m) /\ (m + k) - m = k
        BY <1>1, <1>2, <1>4
      <4> QED BY <2>3, <2>5, <4>1
    <3> QED BY <1>1, <1>2, <1>4, <3>1, <3>2 DEF EndsWith
  <2> QED BY <2>2, <2>4, <2>5
<1> QED BY <1>2, <1>3, <1>4

RawData  == <<57, 54>>
Password == <<53, 53, 52>>

LEMMA Spelling ==
  ASSUME NEW tag \in Seq(Int)
  PROVE  SpellsSecret(tag) <=> EndsWith(tag, RawData) \/ EndsWith(tag, Password)
<1>1. RawData \in Seq(Int) /\ Password \in Seq(Int)
  BY DEF RawData, Password
<1>2. Spelled = {RawData, Password}
  BY DEF Spelled, RawData, Password
<1>3. SpellsSecret(tag) <=> \E secret \in Spelled : EndsWith(tag, secret)
  BY <1>1, <1>2, LeadingZeros DEF SpellsSecret
<1> QED BY <1>2, <1>3

LEMMA Endings ==
  ASSUME NEW tag \in Seq(Int)
  PROVE  \E n \in Nat :
         /\ n = Len(tag)
         /\ EndsWith(tag, RawData) <=>
              /\ n >= 2 /\ (\A i \in 1..(n - 2) : tag[i] = 48)
              /\ tag[n - 1] = 57 /\ tag[n] = 54
         /\ EndsWith(tag, Password) <=>
              /\ n >= 3 /\ (\A i \in 1..(n - 3) : tag[i] = 48)
              /\ tag[n - 2] = 53 /\ tag[n - 1] = 53 /\ tag[n] = 52
<1>1. PICK n \in Nat : n = Len(tag)
  OBVIOUS
<1>2. PICK s : s = RawData
  OBVIOUS
<1>3. Len(s) = 2 /\ s[1] = 57 /\ s[2] = 54 /\ 1..2 = {1, 2}
  BY <1>2 DEF RawData
<1>4. (\A k \in 1..2 : tag[n - 2 + k] = s[k]) <=> tag[n - 1] = 57 /\ tag[n] = 54
  <2>1. n - 2 + 1 = n - 1 /\ n - 2 + 2 = n
    BY <1>1
  <2> QED BY ONLY <1>3, <2>1
<1>5. PICK t : t = Password
  OBVIOUS
<1>6. Len(t) = 3 /\ t[1] = 53 /\ t[2] = 53 /\ t[3] = 52 /\ 1..3 = {1, 2, 3}
  BY <1>5 DEF Password
<1>7. (\A k \in 1..3 : tag[n - 3 + k] = t[k])
        <=> tag[n - 2] = 53 /\ tag[n - 1] = 53 /\ tag[n] = 52
  <2>1. n - 3 + 1 = n - 2 /\ n - 3 + 2 = n - 1 /\ n - 3 + 3 = n
    BY <1>1
  <2> QED BY ONLY <1>6, <2>1
<1>8. EndsWith(tag, s) <=>
        /\ n >= 2 /\ (\A i \in 1..(n - 2) : tag[i] = 48) /\ tag[n - 1] = 57 /\ tag[n] = 54
  BY ONLY <1>1, <1>3, <1>4 DEF EndsWith
<1>9. EndsWith(tag, t) <=>
        /\ n >= 3 /\ (\A i \in 1..(n - 3) : tag[i] = 48)
        /\ tag[n - 2] = 53 /\ tag[n - 1] = 53 /\ tag[n] = 52
  BY ONLY <1>1, <1>6, <1>7 DEF EndsWith
<1>10. EndsWith(tag, RawData) <=>
         /\ n >= 2 /\ (\A i \in 1..(n - 2) : tag[i] = 48) /\ tag[n - 1] = 57 /\ tag[n] = 54
  BY ONLY <1>2, <1>8
<1>11. EndsWith(tag, Password) <=>
         /\ n >= 3 /\ (\A i \in 1..(n - 3) : tag[i] = 48)
         /\ tag[n - 2] = 53 /\ tag[n - 1] = 53 /\ tag[n] = 52
  BY ONLY <1>5, <1>9
<1> WITNESS n \in Nat
<1> QED BY <1>1, <1>10, <1>11

LEMMA SecretNumbers ==
  ASSUME NEW tag \in Seq(Int), AllDigits(tag)
  PROVE  Value(tag) \in SecretTags <=> SpellsSecret(tag)
<1>1. PICK v : Spells(v, tag) /\ Value(tag) = v[Len(tag)]
  BY Valuing
<1>2. PICK n \in Nat :
        /\ n = Len(tag)
        /\ EndsWith(tag, RawData) <=>
             /\ n >= 2 /\ (\A i \in 1..(n - 2) : tag[i] = 48)
             /\ tag[n - 1] = 57 /\ tag[n] = 54
        /\ EndsWith(tag, Password) <=>
             /\ n >= 3 /\ (\A i \in 1..(n - 3) : tag[i] = 48)
             /\ tag[n - 2] = 53 /\ tag[n - 1] = 53 /\ tag[n] = 52
  BY Endings
<1>3. n \in Nat \ {0} /\ Zero = 48 /\ \A k \in 1..n : tag[k] \in 48..57
  BY <1>2, Digital
<1>4. n = Len(tag)
  BY <1>2
<1>5. /\ \A j \in 0..n : \A i \in 0..j : v[i] <= v[j]
      /\ \A k \in 1..n : tag[k] - Zero <= v[k]
  BY <1>1, <1>4, Growing
<1>6. /\ \A k \in 0..n : v[k] \in Nat
      /\ v[0] = 0
      /\ \A k \in 1..n : v[k] = v[k - 1] * 10 + tag[k] - 48
  BY <1>1, <1>2, <1>3 DEF Spells
\* The digits before k are zeros if and only if they spell 0.
<1>7. ASSUME NEW k \in 0..n
      PROVE  v[k] = 0 <=> \A i \in 1..k : tag[i] = 48
  <2>1. ASSUME v[k] = 0, NEW i \in 1..k PROVE tag[i] = 48
    <3>1. i \in 0..k /\ i \in 1..n /\ k \in 0..n
      BY <1>3
    <3>2. v[i] <= v[k] /\ tag[i] - Zero <= v[i] /\ v[i] \in Nat
      BY ONLY <1>6, <1>5, <3>1
    <3>3. tag[i] \in 48..57
      BY <1>3, <3>1
    <3>4. tag[i] - 48 <= v[i] /\ v[i] <= 0
      BY ONLY <1>3, <2>1, <3>2
    <3> QED BY ONLY <3>2, <3>3, <3>4
  <2>2. ASSUME \A i \in 1..k : tag[i] = 48 PROVE v[k] = 0
    <3>1. PICK Z : Z = {0}
      OBVIOUS
    <3>2. v[0] \in Z
      BY <1>6, <3>1
    <3>3. \A i \in 1..k : v[i - 1] \in Z => v[i] \in Z
      <4>1. ASSUME NEW i \in 1..k, v[i - 1] = 0 PROVE v[i] = 0
        <5>1. i \in 1..n
          BY <1>3
        <5>2. v[i] = v[i - 1] * 10 + tag[i] - 48 /\ tag[i] = 48
          BY ONLY <1>6, <2>2, <5>1
        <5> QED BY ONLY <4>1, <5>2
      <4> QED BY <3>1, <4>1
    <3>4. k \in Nat /\ k \in 0..k
      BY <1>3
    <3>5. \A i \in 0..k : v[i] \in Z
      BY ONLY <3>2, <3>3, <3>4, Stays
    <3> QED BY <3>1, <3>4, <3>5
  <2> QED BY <2>1, <2>2
<1>8. n >= 2 => /\ v[n] = v[n - 1] * 10 + tag[n] - 48
                /\ v[n - 1] = v[n - 2] * 10 + tag[n - 1] - 48
                /\ v[n - 1] \in Nat /\ v[n - 2] \in Nat
                /\ tag[n] \in 48..57 /\ tag[n - 1] \in 48..57
  <2> SUFFICES ASSUME n >= 2
               PROVE  /\ v[n] = v[n - 1] * 10 + tag[n] - 48
                      /\ v[n - 1] = v[n - 2] * 10 + tag[n - 1] - 48
                      /\ v[n - 1] \in Nat /\ v[n - 2] \in Nat
                      /\ tag[n] \in 48..57 /\ tag[n - 1] \in 48..57
    OBVIOUS
  <2>1. /\ n \in 1..n /\ n - 1 \in 1..n /\ n - 1 \in 0..n /\ n - 2 \in 0..n
        /\ (n - 1) - 1 = n - 2
    BY <1>3
  <2> QED BY ONLY <1>3, <1>6, <2>1
<1>9. n >= 3 => /\ v[n - 2] = v[n - 3] * 10 + tag[n - 2] - 48
                /\ v[n - 3] \in Nat /\ tag[n - 2] \in 48..57
  <2> SUFFICES ASSUME n >= 3
               PROVE  /\ v[n - 2] = v[n - 3] * 10 + tag[n - 2] - 48
                      /\ v[n - 3] \in Nat /\ tag[n - 2] \in 48..57
    OBVIOUS
  <2>1. n - 2 \in 1..n /\ n - 3 \in 0..n /\ (n - 2) - 1 = n - 3
    BY <1>3
  <2> QED BY ONLY <1>3, <1>6, <2>1
<1>10. n = 1 => v[n] \in 0..9
  <2> SUFFICES ASSUME n = 1 PROVE v[1] \in 0..9
    OBVIOUS
  <2>1. v[1] = v[0] * 10 + tag[1] - 48 /\ tag[1] \in 48..57 /\ v[0] = 0
    BY <1>3, <1>6
  <2>2. PICK t \in 48..57 : v[1] = 0 * 10 + t - 48
    BY ONLY <2>1
  <2> QED BY ONLY <2>2
<1>11. v[n] = 96 <=> n >= 2 /\ v[n - 2] = 0 /\ tag[n - 1] = 57 /\ tag[n] = 54
  <2>1. CASE n >= 2
    <3>1. PICK a, b, c, d, e : /\ a = v[n - 2] /\ b = v[n - 1] /\ c = v[n]
                               /\ d = tag[n - 1] /\ e = tag[n]
      OBVIOUS
    <3>2. /\ a \in Nat /\ d \in 48..57 /\ e \in 48..57
          /\ b = a * 10 + d - 48 /\ c = b * 10 + e - 48
      BY ONLY <1>8, <2>1, <3>1
    <3>3. c = 96 <=> a = 0 /\ d = 57 /\ e = 54
      BY ONLY <3>2
    <3> QED BY ONLY <2>1, <3>1, <3>3
  <2>2. CASE n = 1
    BY <1>10, <2>2
  <2> QED BY <1>3, <2>1, <2>2
<1>12. v[n] = 554 <=> n >= 3 /\ v[n - 3] = 0 /\ tag[n - 2] = 53 /\ tag[n - 1] = 53 /\ tag[n] = 52
  <2>1. CASE n >= 3
    <3>1. PICK a, b, c, d, e, f, g :
            /\ a = v[n - 3] /\ b = v[n - 2] /\ c = v[n - 1] /\ d = v[n]
            /\ e = tag[n - 2] /\ f = tag[n - 1] /\ g = tag[n]
      OBVIOUS
    <3>2. /\ a \in Nat /\ e \in 48..57 /\ f \in 48..57 /\ g \in 48..57
          /\ b = a * 10 + e - 48 /\ c = b * 10 + f - 48 /\ d = c * 10 + g - 48
      BY ONLY <1>3, <1>8, <1>9, <2>1, <3>1
    <3>3. d = 554 <=> a = 0 /\ e = 53 /\ f = 53 /\ g = 52
      BY ONLY <3>2
    <3> QED BY ONLY <2>1, <3>1, <3>3
  <2>2. CASE n = 2
    <3>1. PICK b, c, d, e : /\ b = v[n - 1] /\ c = v[n] /\ d = tag[n - 1] /\ e = tag[n]
      OBVIOUS
    <3>2. /\ d \in 48..57 /\ e \in 48..57
          /\ b = 0 * 10 + d - 48 /\ c = b * 10 + e - 48
      BY <1>6, <1>8, <2>2, <3>1
    <3>3. c # 554
      BY ONLY <3>2
    <3> QED BY <2>2, <3>1, <3>3
  <2>3. CASE n = 1
    BY <1>10, <2>3
  <2> QED BY <1>3, <2>1, <2>2, <2>3
<1>13. v[n] = 96 <=> EndsWith(tag, RawData)
  <2>1. n >= 2 => (v[n - 2] = 0 <=> \A i \in 1..(n - 2) : tag[i] = 48)
    BY <1>3, <1>7
  <2> QED BY ONLY <1>2, <1>11, <2>1
<1>14. v[n] = 554 <=> EndsWith(tag, Password)
  <2>1. n >= 3 => (v[n - 3] = 0 <=> \A i \in 1..(n - 3) : tag[i] = 48)
    BY <1>3, <1>7
  <2> QED BY ONLY <1>2, <1>12, <2>1
<1> QED BY <1>1, <1>2, <1>13, <1>14, Spelling DEF SecretTags

LEMMA SpelledDigits ==
  ASSUME NEW tag \in Seq(Int), SpellsSecret(tag)
  PROVE  AllDigits(tag)
<1>1. EndsWith(tag, RawData) \/ EndsWith(tag, Password)
  BY Spelling
<1>2. PICK n \in Nat :
        /\ n = Len(tag)
        /\ EndsWith(tag, RawData) <=>
             /\ n >= 2 /\ (\A i \in 1..(n - 2) : tag[i] = 48)
             /\ tag[n - 1] = 57 /\ tag[n] = 54
        /\ EndsWith(tag, Password) <=>
             /\ n >= 3 /\ (\A i \in 1..(n - 3) : tag[i] = 48)
             /\ tag[n - 2] = 53 /\ tag[n - 1] = 53 /\ tag[n] = 52
  BY Endings
<1>3. ASSUME NEW i \in 1..n PROVE tag[i] \in {48, 52, 53, 54, 57}
  <2>1. \/ i \in 1..(n - 3) \/ i = n - 2 \/ i = n - 1 \/ i = n
    OBVIOUS
  <2>2. CASE EndsWith(tag, RawData)
    <3>1. i \in 1..(n - 2) \/ i = n - 1 \/ i = n
      BY <1>2, <2>2
    <3> QED BY <1>2, <2>2, <3>1
  <2>3. CASE EndsWith(tag, Password)
    <3>1. /\ \A j \in 1..(n - 3) : tag[j] = 48
          /\ tag[n - 2] = 53 /\ tag[n - 1] = 53 /\ tag[n] = 52
      BY <1>2, <2>3
    <3> QED BY ONLY <2>1, <3>1
  <2> QED BY <1>1, <2>2, <2>3
<1>4. n # 0 /\ DOMAIN tag = 1..n
  BY <1>1, <1>2
<1>5. tag # << >>
  BY <1>2, <1>4
<1> QED BY <1>3, <1>4, <1>5 DEF AllDigits, Digits, Zero

\* isSecret knows every secret tag, and no other that fits an int.
LEMMA Secrets ==
  ASSUME NEW tag \in Seq(Int)
  PROVE  /\ SpellsSecret(tag) => isSecret(tag)
         /\ isSecret(tag) /\ ~ Overlong(tag) => SpellsSecret(tag)
<1>1. ASSUME SpellsSecret(tag) PROVE isSecret(tag)
  <2>1. AllDigits(tag) /\ Value(tag) \in SecretTags
    BY <1>1, SpelledDigits, SecretNumbers
  <2>2. Number(tag) = Value(tag)
    BY <2>1, NoWrap, ModulusAssumption
  <2> QED BY <2>1, <2>2 DEF isSecret
<1>2. ASSUME isSecret(tag), ~ Overlong(tag) PROVE SpellsSecret(tag)
  <2>1. AllDigits(tag) /\ Number(tag) \in SecretTags
    BY <1>2 DEF isSecret
  <2>2. Value(tag) \in Nat
    BY <2>1, Valuing, Digital DEF Spells
  <2>3. Value(tag) < Modulus
    BY <1>2, <2>1, <2>2, ModulusAssumption DEF Overlong
  <2> QED BY <2>1, <2>3, NoWrap, SecretNumbers
<1> QED BY <1>1, <1>2

----------------------------------------------------------------------------
(* Fields.                                                                  *)

LEMMA FirstBytes ==
  ASSUME NEW s \in Seq(Int), NEW l \in 0..Len(s)
  PROVE  /\ SubSeq(s, 1, l) \in Seq(Int) /\ Len(SubSeq(s, 1, l)) = l
         /\ \A k \in 1..l : SubSeq(s, 1, l)[k] = s[k]
  OBVIOUS

\* The tag of a field is what stands before its first '='.
LEMMA Tagging ==
  ASSUME NEW field \in Seq(Int)
  PROVE  TagOf(field) = IF IndexByte(field, EqualsSign) = 0 THEN << >>
                        ELSE SubSeq(field, 1, IndexByte(field, EqualsSign) - 1)
<1>1. PICK eq : eq = IndexByte(field, EqualsSign)
  OBVIOUS
<1>2. \/ eq = 0 /\ \A k \in 1..Len(field) : field[k] # EqualsSign
      \/ /\ eq \in 1..Len(field) /\ field[eq] = EqualsSign
         /\ \A k \in 1..(eq - 1) : field[k] # EqualsSign
  BY <1>1, FirstIndex
<1>3. CASE eq = 0
  BY <1>1, <1>2, <1>3 DEF TagOf, ToSet
<1>4. CASE eq # 0
  <2>1. /\ eq \in 1..Len(field) /\ field[eq] = EqualsSign
        /\ \A k \in 1..(eq - 1) : field[k] # EqualsSign
    BY <1>2, <1>4
  <2>2. EqualsSign \in ToSet(field)
    BY <2>1 DEF ToSet
  <2>3. PICK tag : tag = SubSeq(field, 1, eq - 1)
    OBVIOUS
  <2>4. eq - 1 \in 0..Len(field)
    BY <2>1
  <2>5. tag \in Seq(Int) /\ Len(tag) = eq - 1 /\ \A k \in 1..(eq - 1) : tag[k] = field[k]
    BY <2>3, <2>4, FirstBytes
  <2>6. tag \in Prefixes(field)
    BY <2>3, <2>4 DEF Prefixes
  <2>7. IsField(field, tag)
    <3>1. IsPrefix(tag, field)
      <4>1. SubSeq(tag, 1, Len(tag)) = tag
        BY <2>5, SubSeqFull
      <4> QED BY <2>1, <2>3, <2>5, <4>1 DEF IsPrefix
    <3> QED BY <2>1, <2>5, <3>1 DEF IsField
  <2>8. ASSUME NEW t \in Prefixes(field), IsField(field, t) PROVE t = tag
    <3>1. PICK l \in 0..Len(field) : t = SubSeq(field, 1, l)
      BY DEF Prefixes
    <3>2. t \in Seq(Int) /\ Len(t) = l /\ \A k \in 1..l : t[k] = field[k]
      BY <3>1, FirstBytes
    <3>3. l < Len(field) /\ field[l + 1] = EqualsSign /\ \A k \in 1..l : field[k] # EqualsSign
      <4>1. Len(t) < Len(field) /\ field[Len(t) + 1] = EqualsSign
        BY <2>8 DEF IsField
      <4>2. DOMAIN t = 1..l
        BY <3>2
      <4>3. \A k \in 1..l : t[k] # EqualsSign
        BY <2>8, <4>2 DEF IsField
      <4> QED BY ONLY <3>2, <4>1, <4>3
    <3>4. l = eq - 1
      BY <2>1, <3>3
    <3> QED BY <2>3, <3>1, <3>4
  <2>9. TagOf(field) = tag
    BY <2>2, <2>6, <2>7, <2>8 DEF TagOf
  <2> QED BY <1>1, <1>4, <2>3, <2>9
<1> QED BY <1>3, <1>4

\* A field as it is shown.
Masked(field) ==
    IF isSecret(TagOf(field)) THEN TagOf(field) \o <<EqualsSign>> \o Mask ELSE field

LEMMA FieldShown ==
  ASSUME NEW field \in Seq(Int)
  PROVE  RedactField(field) = Masked(field) /\ Masked(field) \in Seq(Int)
<1>1. PICK eq : eq = IndexByte(field, EqualsSign)
  OBVIOUS
<1>2. PICK tag : tag = TagOf(field)
  OBVIOUS
<1>3. tag = IF eq = 0 THEN << >> ELSE SubSeq(field, 1, eq - 1)
  BY <1>1, <1>2, Tagging
<1>4. eq # 0 => eq \in 1..Len(field) /\ field[eq] = EqualsSign
  BY <1>1, FirstIndex
<1>5. RedactField(field) =
        IF eq > 1 /\ isSecret(SubSeq(field, 1, eq - 1)) THEN SubSeq(field, 1, eq) \o Mask ELSE field
  BY <1>1 DEF RedactField
<1>6. ~ isSecret(<< >>)
  BY DEF isSecret, AllDigits
<1>7. Mask \in Seq(Int) /\ EqualsSign \in Int
  BY DEF Mask, EqualsSign
<1>8. CASE isSecret(tag)
  <2>1. eq \in 1..Len(field) /\ field[eq] = EqualsSign /\ tag = SubSeq(field, 1, eq - 1)
    BY <1>3, <1>4, <1>6, <1>8
  <2>2. eq # 1
    <3>1. eq = 1 => tag = << >>
      BY <2>1, SubSeqEmpty
    <3> QED BY <1>6, <1>8, <3>1
  <2>3. SubSeq(field, 1, eq) = tag \o <<EqualsSign>>
    <3>1. 1 \in 1..Len(field) /\ eq \in 1..Len(field)
      BY <2>1
    <3> QED BY <2>1, <3>1, SubSeqRecursiveSecond
  <2>4. tag \o <<EqualsSign>> \in Seq(Int)
    BY <2>1, <2>3
  <2>5. eq > 1
    BY <2>1, <2>2
  <2>6. (tag \o <<EqualsSign>>) \o Mask \in Seq(Int)
    BY <1>7, <2>4, ConcatProperties
  <2> QED BY <1>2, <1>5, <1>8, <2>1, <2>3, <2>5, <2>6 DEF Masked
<1>9. CASE ~ isSecret(tag)
  <2>1. eq > 1 => tag = SubSeq(field, 1, eq - 1)
    BY <1>3, <1>4
  <2> QED BY <1>2, <1>5, <1>9, <2>1 DEF Masked
<1> QED BY <1>8, <1>9

\* seqs put together, the first k of them.
Joins(f, seqs) ==
    /\ f[1] = seqs[1]
    /\ \A k \in 2..Len(seqs) : f[k] = f[k - 1] \o seqs[k]

LEMMA Joining ==
  ASSUME NEW seqs \in Seq(Seq(Int)), Len(seqs) # 0
  PROVE  \E f \in [1..Len(seqs) -> Seq(Int)] : Joins(f, seqs) /\ FlattenSeq(seqs) = f[Len(seqs)]
<1> DEFINE Recurs(f) == f = [i \in 1..Len(seqs) |-> IF i = 1 THEN seqs[i] ELSE f[i - 1] \o seqs[i]]
<1>1. PICK n \in Nat \ {0} : n = Len(seqs)
  OBVIOUS
<1>2. \A k \in 1..n : seqs[k] \in Seq(Int)
  BY <1>1
<1>3. PICK step : step = [k \in 1..n |-> [s \in Seq(Int) |-> s \o seqs[k]]]
  OBVIOUS
<1>4. step \in [1..n -> [Seq(Int) -> Seq(Int)]]
  <2>1. \A k \in 1..n, s \in Seq(Int) : s \o seqs[k] \in Seq(Int)
    BY <1>2, ConcatProperties
  <2> QED BY <1>3, <2>1
<1>5. << >> \in Seq(Int)
  OBVIOUS
<1>6. PICK f : Iterates(f, n, Seq(Int), << >>, step)
  BY <1>4, <1>5, Iteration
<1>7. /\ f \in [0..n -> Seq(Int)] /\ f[0] = << >>
      /\ \A k \in 1..n : f[k] = f[k - 1] \o seqs[k]
  <2>1. f \in [0..n -> Seq(Int)] /\ f[0] = << >> /\ \A k \in 1..n : f[k] = step[k][f[k - 1]]
    BY <1>6 DEF Iterates
  <2>2. ASSUME NEW k \in 1..n PROVE f[k] = f[k - 1] \o seqs[k]
    <3>1. k - 1 \in 0..n
      OBVIOUS
    <3>2. f[k - 1] \in Seq(Int)
      BY <2>1, <3>1
    <3> QED BY <1>3, <2>1, <3>2
  <2> QED BY <2>1, <2>2
<1>8. PICK g : g = [k \in 1..n |-> f[k]]
  OBVIOUS
<1>9. f[1] = seqs[1]
  <2>1. 1 \in 1..n /\ 1 - 1 = 0
    OBVIOUS
  <2>2. f[1] = f[1 - 1] \o seqs[1]
    BY ONLY <1>7, <2>1
  <2>3. f[1] = << >> \o seqs[1]
    BY ONLY <1>7, <2>1, <2>2
  <2>4. seqs[1] \in Seq(Int)
    BY <1>2, <2>1
  <2> QED BY <2>3, <2>4, ConcatEmptySeq
<1>10. Recurs(g)
  <2>1. \A k \in 1..n : k # 1 => k - 1 \in 1..n
    OBVIOUS
  <2>2. g = [k \in 1..n |-> IF k = 1 THEN seqs[k] ELSE g[k - 1] \o seqs[k]]
    BY ONLY <1>7, <1>8, <1>9, <2>1
  <2> QED BY ONLY <1>1, <2>2
<1>11. PICK h : h = CHOOSE r : Recurs(r)
  OBVIOUS
<1>12. Recurs(h)
  BY <1>10, <1>11
<1>13. FlattenSeq(seqs) = h[n]
  BY <1>1, <1>11 DEF FlattenSeq
<1>14. Joins(h, seqs)
  <2>1. h = [k \in 1..n |-> IF k = 1 THEN seqs[k] ELSE h[k - 1] \o seqs[k]]
    BY <1>1, <1>12
  <2>2. 1 \in 1..n /\ \A k \in 2..n : k \in 1..n /\ k # 1
    OBVIOUS
  <2>3. h[1] = seqs[1] /\ \A k \in 2..n : h[k] = h[k - 1] \o seqs[k]
    BY ONLY <2>1, <2>2
  <2> QED BY <1>1, <2>3 DEF Joins
<1>15. h \in [1..n -> Seq(Int)]
  <2>1. PICK T : T = {k \in 0..n : k = 0 \/ h[k] \in Seq(Int)}
    OBVIOUS
  <2>2. T \in SUBSET (0..n) /\ 0 \in T
    BY <2>1
  <2>3. ASSUME NEW k \in 1..n, k - 1 \in T PROVE k \in T
    <3>1. CASE k = 1
      BY <1>1, <1>2, <1>14, <2>1, <3>1 DEF Joins
    <3>2. CASE k # 1
      <4>1. k \in 2..n /\ h[k - 1] \in Seq(Int)
        BY <2>1, <2>3, <3>2
      <4>2. h[k] = h[k - 1] \o seqs[k] /\ seqs[k] \in Seq(Int)
        BY <1>1, <1>2, <1>14, <4>1 DEF Joins
      <4>3. h[k - 1] \o seqs[k] \in Seq(Int)
        BY <4>1, <4>2, ConcatProperties
      <4>4. h[k] \in Seq(Int) /\ k \in 0..n
        BY <4>2, <4>3
      <4> QED BY ONLY <2>1, <4>4
    <3> QED BY <3>1, <3>2
  <2>4. T = 0..n
    BY <2>2, <2>3, Upwards
  <2>5. ASSUME NEW k \in 1..n PROVE h[k] \in Seq(Int)
    <3>1. k \in 0..n /\ k # 0
      OBVIOUS
    <3> QED BY ONLY <2>1, <2>4, <3>1
  <2> QED BY <1>1, <1>12, <2>5
<1> QED BY <1>1, <1>13, <1>14, <1>15

----------------------------------------------------------------------------
(* The delimiters, in order.                                                *)

LEMMA SomeEnds ==
  ASSUME NEW bytes \in Seq(Int)
  PROVE  /\ Ends(bytes) \in SUBSET (0..Len(bytes) + 1)
         /\ 0 \in Ends(bytes) /\ Len(bytes) + 1 \in Ends(bytes)
         /\ \A i \in 1..Len(bytes) : i \in Ends(bytes) <=> bytes[i] = SOH
  BY DEF Ends

LEMMA FiniteEnds ==
  ASSUME NEW bytes \in Seq(Int), NEW D \in SUBSET Ends(bytes)
  PROVE  IsFiniteSet(D) /\ Cardinality(D) \in Nat
<1>1. IsFiniteSet(0..Len(bytes) + 1)
  BY FS_Interval
<1>2. D \in SUBSET (0..Len(bytes) + 1)
  BY SomeEnds
<1> QED BY <1>1, <1>2, FS_Subset, FS_CardinalityType

\* The delimiters up to e.
UpTo(bytes, e) == {d \in Ends(bytes) : d <= e}

LEMMA Ranks ==
  ASSUME NEW bytes \in Seq(Int), NEW e \in Ends(bytes)
  PROVE  /\ Rank(bytes, e) = Cardinality(UpTo(bytes, e))
         /\ Rank(bytes, e) \in 1..Cardinality(Ends(bytes))
<1>1. Rank(bytes, e) = Cardinality(UpTo(bytes, e))
  BY DEF Rank, UpTo
<1>2. UpTo(bytes, e) \in SUBSET Ends(bytes) /\ UpTo(bytes, e) # {}
  <2>1. e \in Int /\ e <= e
    BY SomeEnds
  <2> QED BY <2>1 DEF UpTo
<1>3. /\ IsFiniteSet(Ends(bytes)) /\ IsFiniteSet(UpTo(bytes, e))
      /\ Cardinality(Ends(bytes)) \in Nat /\ Cardinality(UpTo(bytes, e)) \in Nat
  BY <1>2, FiniteEnds
<1>4. Cardinality(UpTo(bytes, e)) <= Cardinality(Ends(bytes)) /\ Cardinality(UpTo(bytes, e)) # 0
  BY <1>2, <1>3, FS_Subset, FS_EmptySet
<1> QED BY <1>1, <1>3, <1>4

LEMMA FirstRank ==
  ASSUME NEW bytes \in Seq(Int)
  PROVE  Rank(bytes, 0) = 1 /\ Rank(bytes, Len(bytes) + 1) = Cardinality(Ends(bytes))
<1>1. UpTo(bytes, 0) = {0}
  BY SomeEnds DEF UpTo
<1>2. UpTo(bytes, Len(bytes) + 1) = Ends(bytes)
  BY SomeEnds DEF UpTo
<1>3. 0 \in Ends(bytes) /\ Len(bytes) + 1 \in Ends(bytes) /\ Cardinality({0}) = 1
  BY FS_Singleton, SomeEnds
<1> QED BY <1>1, <1>2, <1>3, Ranks

\* e is the delimiter after d.
Follows(bytes, d, e) ==
    /\ d \in Ends(bytes) /\ e \in Ends(bytes) /\ d < e
    /\ \A x \in Ends(bytes) : x <= d \/ e <= x

LEMMA NextRank ==
  ASSUME NEW bytes \in Seq(Int), NEW d, NEW e, Follows(bytes, d, e)
  PROVE  Rank(bytes, e) = Rank(bytes, d) + 1
<1>1. d \in Ends(bytes) /\ e \in Ends(bytes) /\ d \in Int /\ e \in Int /\ d < e
  BY SomeEnds DEF Follows
<1>2. UpTo(bytes, e) = UpTo(bytes, d) \cup {e} /\ e \notin UpTo(bytes, d)
  BY <1>1, SomeEnds DEF Follows, UpTo
<1>3. IsFiniteSet(UpTo(bytes, d))
  BY FiniteEnds DEF UpTo
<1> QED BY <1>1, <1>2, <1>3, FS_AddElement, Ranks

LEMMA RankOrder ==
  ASSUME NEW bytes \in Seq(Int), NEW d \in Ends(bytes), NEW e \in Ends(bytes), d < e
  PROVE  Rank(bytes, d) < Rank(bytes, e)
<1>1. d \in Int /\ e \in Int
  BY SomeEnds
<1>2. UpTo(bytes, d) \cup {e} \in SUBSET UpTo(bytes, e) /\ e \notin UpTo(bytes, d)
  BY <1>1, SomeEnds DEF UpTo
<1>3. IsFiniteSet(UpTo(bytes, d)) /\ IsFiniteSet(UpTo(bytes, e))
  BY FiniteEnds DEF UpTo
<1>4. Cardinality(UpTo(bytes, d) \cup {e}) = Cardinality(UpTo(bytes, d)) + 1
  BY <1>2, <1>3, FS_AddElement
<1>5. Cardinality(UpTo(bytes, d) \cup {e}) <= Cardinality(UpTo(bytes, e))
  BY <1>2, <1>3, FS_Subset
<1> QED BY <1>4, <1>5, Ranks

LEMMA EndOfRank ==
  ASSUME NEW bytes \in Seq(Int), NEW e \in Ends(bytes)
  PROVE  End(bytes, Rank(bytes, e)) = e
<1>1. ASSUME NEW d \in Ends(bytes), Rank(bytes, d) = Rank(bytes, e) PROVE d = e
  <2>1. d \in Int /\ e \in Int /\ Rank(bytes, d) \in Int
    BY SomeEnds, Ranks
  <2>2. ~ (d < e) /\ ~ (e < d)
    BY <1>1, <2>1, RankOrder
  <2> QED BY <2>1, <2>2
<1> QED BY <1>1 DEF End

\* After each delimiter but the last there is one.
LEMMA SomeAfter ==
  ASSUME NEW bytes \in Seq(Int), NEW d \in Ends(bytes), d # Len(bytes) + 1
  PROVE  \E e : Follows(bytes, d, e)
<1>1. PICK T : T = {x \in Ends(bytes) : d < x}
  OBVIOUS
<1>2. T \in SUBSET Nat /\ Len(bytes) + 1 \in T /\ d \in Nat
  BY <1>1, SomeEnds
<1>3. PICK e \in T : \A x \in T : e <= x
  BY <1>2, Least
<1>4. \A x \in Ends(bytes) : x \in Nat
  BY SomeEnds
<1>5. Follows(bytes, d, e)
  BY <1>1, <1>2, <1>3, <1>4 DEF Follows
<1> QED BY <1>5

\* There are no fewer delimiters than ranks.
LEMMA Ranked ==
  ASSUME NEW bytes \in Seq(Int), NEW k \in 1..Cardinality(Ends(bytes))
  PROVE  End(bytes, k) \in Ends(bytes) /\ Rank(bytes, End(bytes, k)) = k
<1>1. PICK n \in Nat : n = Cardinality(Ends(bytes))
  BY FiniteEnds
<1>2. PICK T : T = {j \in 0..n : j = 0 \/ \E e \in Ends(bytes) : Rank(bytes, e) = j}
  OBVIOUS
<1>3. T \in SUBSET (0..n) /\ 0 \in T
  BY <1>2
<1>4. ASSUME NEW j \in 1..n, j - 1 \in T PROVE j \in T
  <2>1. CASE j = 1
    BY <1>2, <2>1, FirstRank, SomeEnds
  <2>2. CASE j # 1
    <3>1. PICK d \in Ends(bytes) : Rank(bytes, d) = j - 1
      BY <1>2, <1>4, <2>2
    <3>2. d # Len(bytes) + 1
      BY <1>1, <3>1, FirstRank
    <3>3. PICK e : Follows(bytes, d, e)
      BY <3>2, SomeAfter
    <3>4. e \in Ends(bytes) /\ Rank(bytes, e) = (j - 1) + 1
      BY <3>1, <3>3, NextRank DEF Follows
    <3> QED BY <1>2, <3>4
  <2> QED BY <2>1, <2>2
<1>5. T = 0..n
  BY <1>3, <1>4, Upwards
<1>6. PICK e \in Ends(bytes) : Rank(bytes, e) = k
  BY <1>1, <1>2, <1>5
<1> QED BY <1>6, EndOfRank

LEMMA SomeFields ==
  ASSUME NEW bytes \in Seq(Int)
  PROVE  /\ Fields(bytes) \in Seq(Seq(Int))
         /\ Len(Fields(bytes)) = Cardinality(Ends(bytes)) - 1 /\ Len(Fields(bytes)) \in Nat \ {0}
<1>1. PICK n \in Nat : n = Cardinality(Ends(bytes))
  BY FiniteEnds
<1>2. n > 1
  <2>1. Rank(bytes, 0) < Rank(bytes, Len(bytes) + 1)
    <3>1. Len(bytes) + 1 > 0
      OBVIOUS
    <3> QED BY <3>1, RankOrder, SomeEnds
  <2> QED BY <1>1, <2>1, FirstRank
<1>3. ASSUME NEW k \in 1..(n - 1)
      PROVE  SubSeq(bytes, End(bytes, k) + 1, End(bytes, k + 1) - 1) \in Seq(Int)
  <2>1. k \in 1..n /\ k + 1 \in 1..n
    OBVIOUS
  <2>2. End(bytes, k) \in 0..Len(bytes) + 1 /\ End(bytes, k + 1) \in 0..Len(bytes) + 1
    BY <1>1, <2>1, Ranked, SomeEnds
  <2>3. PICK a, b \in Int : /\ a = End(bytes, k) + 1 /\ b = End(bytes, k + 1) - 1
                            /\ a >= 1 /\ b <= Len(bytes)
    BY <2>2
  <2>4. \A i \in a..b : bytes[i] \in Int
    BY <2>3
  <2>5. SubSeq(bytes, a, b) \in Seq(Int)
    BY <2>4, SubSeqProperties
  <2> QED BY <2>3, <2>5
<1>4. Fields(bytes) = [k \in 1..(n - 1) |-> SubSeq(bytes, End(bytes, k) + 1, End(bytes, k + 1) - 1)]
  BY <1>1 DEF Fields
<1>5. Fields(bytes) \in [1..(n - 1) -> Seq(Int)]
  BY <1>3, <1>4
<1> QED BY <1>1, <1>2, <1>5

\* The field between a delimiter and the next.
LEMMA FieldBetween ==
  ASSUME NEW bytes \in Seq(Int), NEW d, NEW e, Follows(bytes, d, e)
  PROVE  /\ Rank(bytes, d) \in 1..Len(Fields(bytes))
         /\ Fields(bytes)[Rank(bytes, d)] = SubSeq(bytes, d + 1, e - 1)
         /\ Fields(bytes)[Rank(bytes, d)] \in Seq(Int)
<1>1. PICK k : k = Rank(bytes, d)
  OBVIOUS
<1>2. d \in Ends(bytes) /\ e \in Ends(bytes) /\ Rank(bytes, e) = k + 1
  BY <1>1, NextRank DEF Follows
<1>3. k \in 1..Cardinality(Ends(bytes)) - 1
  <2>1. PICK n \in Nat : n = Cardinality(Ends(bytes))
    BY FiniteEnds
  <2>2. k \in 1..n /\ k + 1 \in 1..n
    BY <1>1, <1>2, <2>1, Ranks
  <2> QED BY <2>1, <2>2
<1>4. End(bytes, k) = d /\ End(bytes, k + 1) = e
  BY <1>1, <1>2, EndOfRank
<1>5. PICK fields : fields = Fields(bytes)
  OBVIOUS
<1>6. k \in 1..Len(fields) /\ fields \in Seq(Seq(Int))
  BY <1>3, <1>5, SomeFields
<1>7. fields[k] \in Seq(Int)
  BY ONLY <1>6
<1>8. fields[k] = SubSeq(bytes, d + 1, e - 1)
  BY <1>3, <1>4, <1>5 DEF Fields
<1> QED BY <1>1, <1>5, <1>6, <1>7, <1>8

----------------------------------------------------------------------------
(* The loop.                                                                *)

Separator(bytes, e) == IF e <= Len(bytes) THEN <<DisplaySep>> ELSE << >>

\* A turn takes the loop from a delimiter to the next.
LEMMA Turning ==
  ASSUME NEW bytes \in Seq(Int), NEW out, NEW d \in Ends(bytes), d < Len(bytes)
  PROVE  \E e : /\ Follows(bytes, d, e)
                /\ Turn(bytes, [out |-> out, i |-> d + 1])
                     = [out |-> out \o Masked(SubSeq(bytes, d + 1, e - 1)) \o Separator(bytes, e),
                        i   |-> e + 1]
<1>1. PICK n \in Nat : n = Len(bytes)
  OBVIOUS
<1>2. d \in 0..(n - 1)
  BY <1>1, SomeEnds
<1>3. PICK rest : rest = SubSeq(bytes, d + 1, n)
  OBVIOUS
<1>4. rest \in Seq(Int) /\ Len(rest) = n - d /\ \A k \in 1..(n - d) : rest[k] = bytes[d + k]
  <2>1. PICK a \in Int : a = d + 1
    BY <1>2
  <2>2. \A i \in a..n : bytes[i] \in Int
    BY <1>1, <1>2, <2>1
  <2>3. /\ rest \in Seq(Int) /\ Len(rest) = IF a <= n THEN n - a + 1 ELSE 0
        /\ \A k \in 1..(n - a + 1) : rest[k] = bytes[a + k - 1]
    BY <1>3, <2>1, <2>2, SubSeqProperties
  <2>4. a <= n /\ n - a + 1 = n - d
    BY <1>2, <2>1
  <2>5. ASSUME NEW k \in 1..(n - d) PROVE rest[k] = bytes[d + k]
    <3>1. k \in 1..(n - a + 1) /\ a + k - 1 = d + k
      BY <1>2, <2>1
    <3> QED BY ONLY <2>3, <3>1
  <2>6. Len(rest) = n - d
    BY ONLY <2>3, <2>4
  <2> QED BY <2>3, <2>5, <2>6
<1>5. PICK soh : soh = IndexByte(rest, SOH)
  OBVIOUS
<1>6. \/ soh = 0 /\ \A k \in 1..(n - d) : rest[k] # SOH
      \/ /\ soh \in 1..(n - d) /\ rest[soh] = SOH
         /\ \A k \in 1..(soh - 1) : rest[k] # SOH
  BY <1>4, <1>5, FirstIndex
<1>7. PICK e : e = d + 1 + (IF soh = 0 THEN Len(rest) ELSE soh - 1)
  OBVIOUS
<1>8. /\ e \in (d + 1)..(n + 1) /\ (e = n + 1 \/ bytes[e] = SOH)
      /\ \A x \in (d + 1)..(e - 1) : bytes[x] # SOH
  <2>1. CASE soh = 0
    <3>1. e = n + 1
      BY <1>2, <1>4, <1>7, <2>1
    <3>2. ASSUME NEW x \in (d + 1)..n PROVE bytes[x] # SOH
      <4>1. x - d \in 1..(n - d) /\ d + (x - d) = x
        BY <1>2
      <4> QED BY <1>4, <1>6, <2>1, <4>1
    <3> QED BY <1>2, <3>1, <3>2
  <2>2. CASE soh # 0
    <3>1. soh \in 1..(n - d) /\ e = d + soh
      BY <1>2, <1>6, <1>7, <2>2
    <3>2. ASSUME NEW x \in (d + 1)..(e - 1) PROVE bytes[x] # SOH
      <4>1. x - d \in 1..(soh - 1) /\ x - d \in 1..(n - d) /\ d + (x - d) = x
        BY <1>2, <3>1
      <4> QED BY <1>4, <1>6, <2>2, <4>1
    <3>3. bytes[e] = SOH
      BY <1>4, <1>6, <2>2, <3>1
    <3> QED BY <1>2, <3>1, <3>2, <3>3
  <2> QED BY <2>1, <2>2
<1>9. Follows(bytes, d, e)
  <2>1. e \in Ends(bytes)
    BY <1>1, <1>2, <1>8, SomeEnds
  <2>2. ASSUME NEW x \in Ends(bytes) PROVE x <= d \/ e <= x
    <3>1. x \in 0..(n + 1) /\ (x \in 1..n => bytes[x] = SOH)
      BY <1>1, SomeEnds
    <3> QED BY <1>2, <1>8, <3>1
  <2> QED BY <1>2, <1>8, <2>1, <2>2 DEF Follows
<1>10. PICK field : field = SubSeq(bytes, d + 1, e - 1)
  OBVIOUS
<1>11. RedactField(field) = Masked(field)
  <2>1. PICK a, b \in Int : a = d + 1 /\ b = e - 1
    BY <1>2, <1>8
  <2>2. \A i \in a..b : bytes[i] \in Int
    BY <1>1, <1>2, <1>8, <2>1
  <2>3. field \in Seq(Int)
    BY <1>10, <2>1, <2>2, SubSeqProperties
  <2> QED BY <2>3, FieldShown
<1>12. PICK loop : loop = [out |-> out, i |-> d + 1]
  OBVIOUS
<1>13. loop.i = d + 1 /\ loop.out = out /\ ~ (loop.i > n)
  BY <1>2, <1>12
<1>14. Turn(bytes, loop) =
         [out |-> out \o RedactField(field) \o Separator(bytes, e), i |-> e + 1]
  BY ONLY <1>1, <1>3, <1>5, <1>7, <1>10, <1>13 DEF Turn, Separator
<1> QED BY <1>9, <1>10, <1>11, <1>12, <1>14

\* The screen, up to the k-th field.
Screens(screen, bytes) ==
    /\ screen \in [1..Len(Fields(bytes)) -> Seq(Int)]
    /\ screen[1] = Masked(Fields(bytes)[1])
    /\ \A k \in 2..Len(Fields(bytes)) :
         screen[k] = screen[k - 1] \o (<<DisplaySep>> \o Masked(Fields(bytes)[k]))

LEMMA Associative ==
  ASSUME NEW a \in Seq(Int), NEW b \in Seq(Int), NEW c \in Seq(Int)
  PROVE  (a \o b) \o c = a \o (b \o c)
  BY ConcatAssociative

\* What the loop has written at delimiter d.
Written(screen, bytes, d) ==
    IF d = 0 THEN << >> ELSE screen[Rank(bytes, d) - 1] \o Separator(bytes, d)

LEMMA Writing ==
  ASSUME NEW bytes \in Seq(Int), NEW screen, Screens(screen, bytes), NEW d, NEW e, Follows(bytes, d, e)
  PROVE  /\ Written(screen, bytes, d) \o Masked(SubSeq(bytes, d + 1, e - 1)) \o Separator(bytes, e)
              = Written(screen, bytes, e)
         /\ Written(screen, bytes, e) \in Seq(Int)
<1>1. PICK n, k : n = Len(Fields(bytes)) /\ k = Rank(bytes, d)
  OBVIOUS
<1>2. PICK shown : shown = Masked(SubSeq(bytes, d + 1, e - 1))
  OBVIOUS
<1>3. n \in Nat \ {0} /\ k \in 1..n /\ shown = Masked(Fields(bytes)[k]) /\ Fields(bytes)[k] \in Seq(Int)
  <2>1. n \in Nat \ {0}
    BY <1>1, SomeFields
  <2> QED BY <1>1, <1>2, <2>1, FieldBetween
<1>4. shown \in Seq(Int)
  BY <1>3, FieldShown
<1>5. <<DisplaySep>> \in Seq(Int)
  BY DEF DisplaySep
<1>6. d \in 0..Len(bytes) /\ e \in 1..Len(bytes) + 1 /\ d \in Ends(bytes)
  BY SomeEnds DEF Follows
<1>7. Separator(bytes, d) = <<DisplaySep>> /\ Separator(bytes, e) \in Seq(Int)
  BY <1>5, <1>6 DEF Separator
<1>8. screen[k] \in Seq(Int)
  BY <1>1, <1>3 DEF Screens
<1>9. Written(screen, bytes, d) \o shown = screen[k]
  <2>1. CASE d = 0
    <3>1. k = 1
      BY <1>1, <2>1, FirstRank
    <3>2. screen[k] = shown
      BY <1>1, <1>3, <3>1 DEF Screens
    <3> QED BY <1>4, <2>1, <3>2, ConcatEmptySeq DEF Written
  <2>2. CASE d # 0
    <3>1. k \in 2..n
      <4>1. 0 \in Ends(bytes) /\ 0 < d
        BY <1>6, <2>2, SomeEnds
      <4>2. Rank(bytes, 0) < k /\ Rank(bytes, 0) = 1
        BY <1>1, <1>6, <4>1, RankOrder, FirstRank
      <4> QED BY <1>3, <4>2
    <3>2. k - 1 \in 1..n
      BY <1>3, <3>1
    <3>3. screen[k - 1] \in Seq(Int) /\ screen[k] = screen[k - 1] \o (<<DisplaySep>> \o shown)
      BY <1>1, <1>3, <3>1, <3>2 DEF Screens
    <3>4. screen[k] = (screen[k - 1] \o <<DisplaySep>>) \o shown
      <4>1. PICK a, b \in Seq(Int) : a = screen[k - 1] /\ b = <<DisplaySep>>
        BY <1>5, <3>3
      <4>2. (a \o b) \o shown = a \o (b \o shown)
        BY <1>4, Associative
      <4> QED BY ONLY <3>3, <4>1, <4>2
    <3> QED BY <1>1, <1>7, <2>2, <3>4 DEF Written
  <2> QED BY <2>1, <2>2
<1>10. Written(screen, bytes, e) = screen[k] \o Separator(bytes, e)
  <2>1. Rank(bytes, e) = k + 1
    BY <1>1, NextRank
  <2>2. k \in Int /\ e # 0
    BY <1>3, <1>6
  <2>3. Rank(bytes, e) - 1 = k
    BY ONLY <2>1, <2>2
  <2> QED BY <2>2, <2>3 DEF Written
<1>11. screen[k] \o Separator(bytes, e) \in Seq(Int)
  BY <1>7, <1>8, ConcatProperties
<1> QED BY <1>2, <1>9, <1>10, <1>11

\* The loop, at a delimiter or past the end.
Loops(bytes) == [out : Seq(Int), i : {d + 1 : d \in Ends(bytes)}]

LEMMA TurnType ==
  ASSUME NEW bytes \in Seq(Int), NEW loop \in Loops(bytes)
  PROVE  Turn(bytes, loop) \in Loops(bytes)
<1>1. PICK d \in Ends(bytes), out \in Seq(Int) : loop = [out |-> out, i |-> d + 1]
  BY DEF Loops
<1>2. d \in Nat
  BY SomeEnds
<1>3. CASE d < Len(bytes)
  <2>1. PICK e : /\ Follows(bytes, d, e)
                 /\ Turn(bytes, loop)
                      = [out |-> out \o Masked(SubSeq(bytes, d + 1, e - 1)) \o Separator(bytes, e),
                         i   |-> e + 1]
    BY <1>1, <1>3, Turning
  <2>2. Fields(bytes)[Rank(bytes, d)] = SubSeq(bytes, d + 1, e - 1) /\ Fields(bytes)[Rank(bytes, d)] \in Seq(Int)
    BY <2>1, FieldBetween
  <2>4. PICK shown \in Seq(Int) : shown = Masked(SubSeq(bytes, d + 1, e - 1))
    BY <2>2, FieldShown
  <2>3. <<DisplaySep>> \in Seq(Int) /\ << >> \in Seq(Int)
    BY DEF DisplaySep
  <2>5. PICK separator \in Seq(Int) : separator = Separator(bytes, e)
    BY <2>3 DEF Separator
  <2>6. (out \o shown) \o separator \in Seq(Int)
    BY ConcatProperties
  <2>7. e \in Ends(bytes)
    BY <2>1 DEF Follows
  <2> QED BY <2>1, <2>4, <2>5, <2>6, <2>7 DEF Loops
<1>4. CASE ~ (d < Len(bytes))
  <2>1. loop.i > Len(bytes)
    BY <1>1, <1>2, <1>4
  <2> QED BY <2>1 DEF Turn
<1> QED BY <1>3, <1>4

\* RedactBytes goes from turn to turn.
Turns(s, bytes) ==
    /\ s[0] = [out |-> << >>, i |-> 1]
    /\ \A k \in 1..Len(bytes) : s[k] = Turn(bytes, s[k - 1])

LEMMA Looping ==
  ASSUME NEW bytes \in Seq(Int)
  PROVE  \E s : Turns(s, bytes) /\ RedactBytes(bytes) = s[Len(bytes)].out
<1> DEFINE Recurs(s) == s = [k \in 0..Len(bytes) |->
                               IF k = 0 THEN [out |-> << >>, i |-> 1] ELSE Turn(bytes, s[k - 1])]
<1>1. PICK n \in Nat : n = Len(bytes)
  OBVIOUS
<1>2. PICK step : step = [k \in 1..n |-> [loop \in Loops(bytes) |-> Turn(bytes, loop)]]
  OBVIOUS
<1>3. step \in [1..n -> [Loops(bytes) -> Loops(bytes)]]
  BY <1>2, TurnType
<1>4. PICK start0 : start0 = [out |-> << >>, i |-> 1]
  OBVIOUS
<1>5. start0 \in Loops(bytes)
  <2>1. 1 \in {d + 1 : d \in Ends(bytes)}
    BY SomeEnds
  <2> QED BY <1>4, <2>1 DEF Loops
<1>6. PICK f : Iterates(f, n, Loops(bytes), start0, step)
  BY <1>3, <1>5, Iteration
<1>7. f \in [0..n -> Loops(bytes)] /\ f[0] = start0 /\ \A k \in 1..n : f[k] = step[k][f[k - 1]]
  BY <1>6 DEF Iterates
<1>8. ASSUME NEW k \in 1..n PROVE f[k] = Turn(bytes, f[k - 1])
  <2>1. k - 1 \in 0..n
    OBVIOUS
  <2>2. f[k - 1] \in Loops(bytes)
    BY ONLY <1>7, <2>1
  <2> QED BY <1>2, <1>7, <2>2
<1>9. Recurs(f)
  <2>1. f = [k \in 0..n |-> IF k = 0 THEN start0 ELSE Turn(bytes, f[k - 1])]
    BY <1>7, <1>8
  <2> QED BY <1>1, <1>4, <2>1
<1>10. PICK s : s = CHOOSE r : Recurs(r)
  OBVIOUS
<1>11. Recurs(s)
  BY <1>9, <1>10
<1>12. RedactBytes(bytes) = s[Len(bytes)].out
  BY <1>10 DEF RedactBytes
<1>13. Turns(s, bytes)
  <2>1. 0 \in 0..n /\ \A k \in 1..n : k \in 0..n /\ k # 0
    OBVIOUS
  <2>2. s[0] = [out |-> << >>, i |-> 1] /\ \A k \in 1..n : s[k] = Turn(bytes, s[k - 1])
    BY ONLY <1>1, <1>11, <2>1
  <2> QED BY <1>1, <2>2 DEF Turns
<1> QED BY <1>12, <1>13

\* The loop writes the screen.
LEMMA Redacting ==
  ASSUME NEW bytes \in Seq(Int), NEW screen, Screens(screen, bytes)
  PROVE  RedactBytes(bytes) = screen[Len(Fields(bytes))]
<1>1. PICK n \in Nat : n = Len(bytes)
  OBVIOUS
<1>2. PICK s : Turns(s, bytes) /\ RedactBytes(bytes) = s[n].out
  BY <1>1, Looping
<1> DEFINE At(loop, d) == loop = [out |-> Written(screen, bytes, d), i |-> d + 1]
<1>3. PICK T : T = {k \in 0..n : \E d \in Ends(bytes) : k <= d /\ At(s[k], d)}
  OBVIOUS
<1>4. \A d \in Ends(bytes) : d \in 0..n + 1
  BY <1>1, SomeEnds
<1>5. 0 \in T
  <2>1. At(s[0], 0)
    BY <1>2 DEF Turns, Written
  <2> HIDE DEF At
  <2> QED BY <1>3, <2>1, SomeEnds
<1>6. ASSUME NEW k \in 1..n, k - 1 \in T PROVE k \in T
  <2>1. PICK d \in Ends(bytes) : k - 1 <= d /\ At(s[k - 1], d)
    BY <1>3, <1>6
  <2>2. s[k] = Turn(bytes, s[k - 1]) /\ d \in 0..n + 1
    BY <1>1, <1>2, <1>4 DEF Turns
  <2>3. CASE d < n
    <3>1. PICK e : /\ Follows(bytes, d, e)
                   /\ Turn(bytes, s[k - 1])
                        = [out |-> Written(screen, bytes, d)
                                     \o Masked(SubSeq(bytes, d + 1, e - 1)) \o Separator(bytes, e),
                           i   |-> e + 1]
      BY <1>1, <2>1, <2>3, Turning
    <3>2. At(s[k], e)
      BY <2>2, <3>1, Writing
    <3>3. e \in Ends(bytes) /\ k <= e
      <4>1. e \in Ends(bytes) /\ d < e
        BY <3>1 DEF Follows
      <4> QED BY <1>4, <2>1, <2>2, <4>1
    <3> HIDE DEF At
    <3> QED BY <1>3, <3>2, <3>3
  <2>4. CASE ~ (d < n)
    <3>1. s[k - 1].i > Len(bytes)
      BY <1>1, <2>1, <2>2, <2>4
    <3>2. s[k] = s[k - 1]
      BY <2>2, <3>1 DEF Turn
    <3>3. k <= d /\ At(s[k], d)
      BY <2>1, <2>2, <2>4, <3>2
    <3> HIDE DEF At
    <3> QED BY <1>3, <3>3
  <2> QED BY <2>3, <2>4
<1>7. T = 0..n
  <2>1. T \in SUBSET (0..n)
    BY <1>3
  <2> HIDE DEF At
  <2> QED BY <1>5, <1>6, <2>1, Upwards
<1>8. PICK d \in Ends(bytes) : n <= d /\ At(s[n], d)
  <2>1. n \in T
    BY <1>7
  <2> HIDE DEF At
  <2> QED BY <1>3, <2>1
<1>9. RedactBytes(bytes) = Written(screen, bytes, d)
  BY <1>2, <1>8
<1>10. Written(screen, bytes, n + 1) = screen[Len(Fields(bytes))]
  <2>1. PICK m : m = Len(Fields(bytes))
    OBVIOUS
  <2>2. m \in Nat \ {0} /\ Rank(bytes, n + 1) - 1 = m
    BY <1>1, <2>1, FirstRank, SomeFields
  <2>3. screen[m] \in Seq(Int)
    BY <2>1, <2>2 DEF Screens
  <2>4. Separator(bytes, n + 1) = << >> /\ n + 1 # 0
    BY <1>1 DEF Separator
  <2> QED BY <2>1, <2>2, <2>3, <2>4, ConcatEmptySeq DEF Written
\* A delimiter at the end leaves an empty field.
<1>11. ASSUME n \in Ends(bytes) PROVE Written(screen, bytes, n) = Written(screen, bytes, n + 1)
  <2>1. Follows(bytes, n, n + 1)
    BY <1>1, <1>4, <1>11, SomeEnds DEF Follows
  <2>2. SubSeq(bytes, n + 1, n + 1 - 1) = << >>
    BY SubSeqEmpty
  <2>3. Masked(<< >>) = << >>
    <3>1. PICK none \in Seq(Int) : none = << >> /\ 1..Len(none) = {}
      <4>1. << >> \in Seq(Int) /\ Len(<< >>) = 0 /\ 1..0 = {}
        OBVIOUS
      <4> QED BY <4>1
    <3>2. IndexByte(none, EqualsSign) = 0
      BY <3>1, FirstIndex
    <3>3. RedactField(none) = none
      BY <3>2 DEF RedactField
    <3> QED BY <3>1, <3>3, FieldShown
  <2>4. Separator(bytes, n + 1) = << >>
    BY <1>1 DEF Separator
  <2>5. PICK w : w = Written(screen, bytes, n)
    OBVIOUS
  <2>6. (w \o << >>) \o << >> = Written(screen, bytes, n + 1)
    <3>1. PICK e : e = n + 1
      OBVIOUS
    <3>2. Follows(bytes, n, e) /\ SubSeq(bytes, n + 1, e - 1) = << >> /\ Separator(bytes, e) = << >>
      BY <2>1, <2>2, <2>4, <3>1
    <3>3. Written(screen, bytes, n) \o Masked(SubSeq(bytes, n + 1, e - 1)) \o Separator(bytes, e)
            = Written(screen, bytes, e)
      BY <3>2, Writing
    <3> QED BY ONLY <2>3, <2>5, <3>1, <3>2, <3>3
  <2>7. w \in Seq(Int)
    <3>1. CASE n = 0
      BY <2>5, <3>1 DEF Written
    <3>2. CASE n # 0
      <4>1. Rank(bytes, n) - 1 \in 1..Len(Fields(bytes))
        <5>1. 0 \in Ends(bytes) /\ 0 < n
          BY <3>2, SomeEnds
        <5>2. Rank(bytes, 0) < Rank(bytes, n) /\ Rank(bytes, 0) = 1
          BY <1>11, <5>1, RankOrder, FirstRank
        <5>3. Rank(bytes, n) \in 1..Len(Fields(bytes))
          BY <2>1, FieldBetween
        <5> QED BY <5>2, <5>3
      <4>2. screen[Rank(bytes, n) - 1] \in Seq(Int)
        BY <4>1 DEF Screens
      <4>3. PICK separator \in Seq(Int) : separator = Separator(bytes, n)
        <5>1. <<DisplaySep>> \in Seq(Int) /\ << >> \in Seq(Int)
          BY DEF DisplaySep
        <5> QED BY <5>1 DEF Separator
      <4> QED BY <2>5, <3>2, <4>2, <4>3, ConcatProperties DEF Written
    <3> QED BY <3>1, <3>2
  <2>8. (w \o << >>) \o << >> = w
    BY <2>7, ConcatEmptySeq
  <2> QED BY <2>5, <2>6, <2>8
<1>12. d = n \/ d = n + 1
  BY <1>4, <1>8
<1> QED BY <1>9, <1>10, <1>11, <1>12

\* What is on the screen: every field, those that isSecret knows masked.
LEMMA OnScreen ==
  ASSUME NEW bytes \in Seq(Int), NEW masked,
         masked = {k \in DOMAIN Fields(bytes) : isSecret(TagOf(Fields(bytes)[k]))}
  PROVE  RedactBytes(bytes) = Shown(Fields(bytes), masked)
<1>1. PICK fields : fields = Fields(bytes)
  OBVIOUS
<1>2. PICK n \in Nat \ {0} : n = Len(fields)
  BY <1>1, SomeFields
<1>3. fields \in Seq(Seq(Int)) /\ DOMAIN fields = 1..n
  BY <1>1, <1>2, SomeFields
<1>4. PICK shown : shown = [k \in DOMAIN fields |->
                              (IF k = 1 THEN << >> ELSE <<DisplaySep>>)
                              \o (IF k \in masked THEN TagOf(fields[k]) \o <<EqualsSign>> \o Mask
                                                  ELSE fields[k])]
  OBVIOUS
<1>5. ASSUME NEW k \in 1..n
      PROVE  /\ shown[k] = (IF k = 1 THEN << >> ELSE <<DisplaySep>>) \o Masked(fields[k])
             /\ Masked(fields[k]) \in Seq(Int)
  <2>1. fields[k] \in Seq(Int)
    BY <1>2, <1>3
  <2>2. k \in masked <=> isSecret(TagOf(fields[k]))
    BY <1>1, <1>3
  <2>3. Masked(fields[k]) = IF k \in masked THEN TagOf(fields[k]) \o <<EqualsSign>> \o Mask
                            ELSE fields[k]
    BY <2>2 DEF Masked
  <2> QED BY <1>3, <1>4, <2>1, <2>3, FieldShown
<1>6. <<DisplaySep>> \in Seq(Int) /\ << >> \in Seq(Int)
  BY DEF DisplaySep
<1>7. \A k \in 1..n : shown[k] \in Seq(Int)
  <2>1. ASSUME NEW k \in 1..n PROVE shown[k] \in Seq(Int)
    <3>1. PICK before \in Seq(Int) : before = IF k = 1 THEN << >> ELSE <<DisplaySep>>
      BY <1>6
    <3>2. PICK after \in Seq(Int) : after = Masked(fields[k])
      BY <1>5
    <3>3. before \o after \in Seq(Int)
      BY ConcatProperties
    <3> QED BY <1>5, <3>1, <3>2, <3>3
  <2> QED BY <2>1
<1>8. shown \in Seq(Seq(Int)) /\ Len(shown) = n
  BY <1>3, <1>4, <1>7
<1>9. PICK screen \in [1..n -> Seq(Int)] : Joins(screen, shown) /\ FlattenSeq(shown) = screen[n]
  BY <1>8, Joining
<1>10. Screens(screen, bytes)
  <2>1. screen[1] = Masked(fields[1])
    <3>1. 1 \in 1..n
      OBVIOUS
    <3>2. shown[1] = << >> \o Masked(fields[1]) /\ Masked(fields[1]) \in Seq(Int)
      BY <1>5, <3>1
    <3> QED BY <1>9, <3>2, ConcatEmptySeq DEF Joins
  <2>2. ASSUME NEW k \in 2..n
        PROVE  screen[k] = screen[k - 1] \o (<<DisplaySep>> \o Masked(fields[k]))
    <3>1. k \in 1..n /\ k # 1
      OBVIOUS
    <3>2. shown[k] = <<DisplaySep>> \o Masked(fields[k])
      BY <1>5, <3>1
    <3>3. screen[k] = screen[k - 1] \o shown[k]
      BY <1>8, <1>9 DEF Joins
    <3> QED BY <3>2, <3>3
  <2> QED BY <1>1, <1>2, <1>9, <2>1, <2>2 DEF Screens
<1>11. RedactBytes(bytes) = FlattenSeq(shown)
  BY <1>1, <1>2, <1>9, <1>10, Redacting
<1> QED BY <1>1, <1>4, <1>11 DEF Shown

\* The tags are bytes too.
LEMMA TagType ==
  ASSUME NEW field \in Seq(Int)
  PROVE  TagOf(field) \in Seq(Int)
<1>1. PICK eq : eq = IndexByte(field, EqualsSign)
  OBVIOUS
<1>2. eq = 0 \/ eq - 1 \in 0..Len(field)
  BY <1>1, FirstIndex
<1>3. eq # 0 => SubSeq(field, 1, eq - 1) \in Seq(Int)
  BY <1>2, FirstBytes
<1>4. PICK tag : tag = TagOf(field)
  OBVIOUS
<1>5. tag = IF eq = 0 THEN << >> ELSE SubSeq(field, 1, eq - 1)
  BY <1>1, <1>4, Tagging
<1>6. << >> \in Seq(Int)
  OBVIOUS
<1> QED BY ONLY <1>3, <1>4, <1>5, <1>6

\* The fields masked are those of secret tags and of some overlong ones.
LEMMA Hidden ==
  ASSUME NEW bytes \in Seq(Int)
  PROVE  \E wrapped \in SUBSET OverlongFields(Fields(bytes)) :
           RedactBytes(bytes) = Shown(Fields(bytes), SecretFields(Fields(bytes)) \cup wrapped)
<1>1. PICK fields : fields = Fields(bytes)
  OBVIOUS
<1>2. \A k \in DOMAIN fields : TagOf(fields[k]) \in Seq(Int)
  <2>1. fields \in Seq(Seq(Int))
    BY <1>1, SomeFields
  <2>2. \A k \in DOMAIN fields : fields[k] \in Seq(Int)
    BY ONLY <2>1
  <2> QED BY <2>2, TagType
<1>3. PICK masked, wrapped :
        /\ masked = {k \in DOMAIN fields : isSecret(TagOf(fields[k]))}
        /\ wrapped = {k \in DOMAIN fields : isSecret(TagOf(fields[k])) /\ Overlong(TagOf(fields[k]))}
  OBVIOUS
<1>4. wrapped \in SUBSET OverlongFields(fields)
  BY <1>3 DEF OverlongFields
<1>5. masked = SecretFields(fields) \cup wrapped
  BY <1>2, <1>3, Secrets DEF SecretFields
<1>6. RedactBytes(bytes) = Shown(fields, masked)
  BY <1>1, <1>3, OnScreen
<1> QED BY <1>1, <1>4, <1>5, <1>6

----------------------------------------------------------------------------
(* Theorems.                                                                *)

\* Fills have positive quantities, messages are bytes, and a client starts with a
\* settings file.
InputInv ==
    /\ fills \in Seq(Fill)
    /\ raw \in Seq(Int)
    /\ \/ start = NotStarted
       \/ \E program \in {"oe-client", "dc-client"}, file \in Files, host \in AnyHost :
            start = [program |-> program, file |-> file, host |-> host]

LEMMA Inputs == Spec => []InputInv
<1>1. Init => InputInv
  BY DEF Init, InputInv
<1>2. InputInv /\ [Next]_vars => InputInv'
  <2> SUFFICES ASSUME InputInv, [Next]_vars PROVE InputInv'
    OBVIOUS
  <2>1. CASE MoreFills
    <3>1. PICK q \in Quantities, p \in Prices :
            fills' = Append(fills, [qty |-> q, px |-> p]) /\ raw' = raw /\ start' = start
      BY <2>1 DEF MoreFills
    <3>2. [qty |-> q, px |-> p] \in Fill
      BY InputAssumption DEF Fill
    <3> QED BY <3>1, <3>2 DEF InputInv
  <2>2. CASE MoreBytes
    <3>1. PICK b \in Alphabet : raw' = Append(raw, b) /\ UNCHANGED <<fills, start>>
      BY <2>2 DEF MoreBytes
    <3>2. b \in Int
      BY InputAssumption
    <3> QED BY <3>1, <3>2 DEF InputInv
  <2>3. CASE Start \/ UNCHANGED vars
    BY <2>3 DEF Start, vars, InputInv
  <2> QED BY <2>1, <2>2, <2>3 DEF Next
<1> QED BY <1>1, <1>2, PTL DEF Spec

\* Recomputing AvgPx from the last, cut, AvgPx loses no fill, however many
\* there are: the error is that of the quotients and no more.
THEOREM Average == Spec => []AvgPxIsTheAverage
<1>1. ASSUME InputInv PROVE AvgPxIsTheAverage
  <2>1. PICK o, exact : o = Executed(fills) /\ exact = Notional(fills) * Scale
    OBVIOUS
  <2>2. /\ o \in Position /\ exact \in Int /\ Drift(fills) \in Int /\ o.cum = CumQty(fills)
        /\ 2 * Magnitude(o.avg * o.cum - exact) <= Drift(fills)
    BY <1>1, <2>1, Averaging, ScaleAssumption DEF InputInv
  <2>3. PICK shown : shown = ReportedAvgPx(fills)
    OBVIOUS
  <2>4. /\ shown \in Int /\ o.avg \in Int /\ o.cum \in Nat /\ Scale \in Nat \ {0}
        /\ 2 * Magnitude(shown * Scale - o.avg) <= Scale
    BY <2>1, <2>2, <2>3, HalfStep, ScaleAssumption DEF Position, ReportedAvgPx
  <2>5. PICK gap : gap = shown * Scale - o.avg
    OBVIOUS
  <2>6. gap \in Int /\ 2 * Magnitude(gap * o.cum) <= Scale * o.cum
    <3>1. gap \in Int /\ - Scale <= 2 * gap /\ 2 * gap <= Scale
      BY <2>4, <2>5 DEF Magnitude
    <3>2. (- Scale) * o.cum <= (2 * gap) * o.cum /\ (2 * gap) * o.cum <= Scale * o.cum
      BY <2>4, <3>1
    <3> QED BY <2>4, <3>1, <3>2 DEF Magnitude
  <2>7. shown * Scale * o.cum - exact = gap * o.cum + (o.avg * o.cum - exact)
    BY <2>2, <2>4, <2>5
  <2>8. 2 * Magnitude(shown * Scale * o.cum - exact) <= Drift(fills) + Scale * o.cum
    <3>1. PICK x, y, w : x = gap * o.cum /\ y = o.avg * o.cum - exact /\ w = Scale * o.cum
      OBVIOUS
    <3>2. x \in Int /\ y \in Int /\ w \in Int
      BY <2>2, <2>4, <2>6, <3>1
    <3>3. 2 * Magnitude(x) <= w /\ 2 * Magnitude(y) <= Drift(fills)
      BY <2>2, <2>6, <3>1
    <3>4. 2 * Magnitude(x + y) <= Drift(fills) + w
      BY <2>2, <3>2, <3>3 DEF Magnitude
    <3> QED BY <2>7, <3>1, <3>4
  <2> QED BY <2>1, <2>2, <2>3, <2>8 DEF AvgPxIsTheAverage
<1> QED BY <1>1, Inputs, PTL

\* No series of fills, however long, rounds AvgPx, or what reports show of it,
\* out of the range of its prices.
THEOREM PriceRange == Spec => []AvgPxIsWithinPrices
<1>1. ASSUME InputInv, fills # << >>,
             NEW prices, prices = {fills[i].px : i \in DOMAIN fills},
             NEW least, least = CHOOSE p \in prices : \A q \in prices : p <= q,
             NEW most, most = CHOOSE p \in prices : \A q \in prices : p >= q
      PROVE  /\ least * Scale <= Executed(fills).avg /\ Executed(fills).avg <= most * Scale
             /\ least <= ReportedAvgPx(fills) /\ ReportedAvgPx(fills) <= most
  <2>1. fills \in Seq(Fill) /\ DOMAIN fills = 1..Len(fills)
    BY <1>1 DEF InputInv
  <2>2. PICK i, j \in 1..Len(fills) :
          \A k \in 1..Len(fills) : fills[i].px <= fills[k].px /\ fills[k].px <= fills[j].px
    BY <1>1, <2>1, Extremes
  <2>3. \A k \in 1..Len(fills) : fills[k].px \in Int
    <3>1. \A k \in 1..Len(fills) : fills[k] \in Fill
      BY <2>1
    <3> QED BY <3>1 DEF Fill
  <2>4. /\ fills[i].px \in prices /\ \A q \in prices : fills[i].px <= q
        /\ fills[j].px \in prices /\ \A q \in prices : fills[j].px >= q
    BY <1>1, <2>1, <2>2, <2>3
  <2>5. least \in prices /\ \A q \in prices : least <= q
    BY <1>1, <2>4
  <2>6. most \in prices /\ \A q \in prices : most >= q
    BY <1>1, <2>4
  <2>7. /\ least \in Int /\ most \in Int
        /\ \A k \in 1..Len(fills) : least <= fills[k].px /\ fills[k].px <= most
    <3>1. prices \subseteq Int /\ \A k \in 1..Len(fills) : fills[k].px \in prices
      BY <1>1, <2>1, <2>3
    <3> QED BY <2>3, <2>5, <2>6, <3>1
  <2> QED BY <1>1, <2>1, <2>7, Bounding
<1>2. InputInv => AvgPxIsWithinPrices
  BY <1>1 DEF AvgPxIsWithinPrices
<1> QED BY <1>2, Inputs, PTL

\* For every settings file: a client told a host dials no other, and one that
\* stays up dials one session.
THEOREM Dialling == Spec => []DialsAsTold
<1>1. ASSUME InputInv, start # NotStarted PROVE DialsAsTold
  <2>1. PICK program \in {"oe-client", "dc-client"}, file \in Files, host \in AnyHost :
          start = [program |-> program, file |-> file, host |-> host]
    BY <1>1 DEF InputInv
  <2>2. /\ host # NoHost => \A d \in Dialled(program, file, host) : d.host = host
        /\ StaysUp(program, file, host) => Cardinality(Dialled(program, file, host)) = 1
        /\ host = NoHost => Dialled(program, file, host) \in {{}, Dials(file)}
    BY HostAsTold, SoleDial, Undirected
  <2> QED BY <2>1, <2>2 DEF DialsAsTold
<1>2. InputInv => DialsAsTold
  BY <1>1 DEF DialsAsTold
<1> QED BY <1>2, Inputs, PTL

\* Whatever is logged, wherever '=' and digits stand in it and however it ends:
\* the value of every secret tag is masked, every other field is as it was sent,
\* except the value of a tag whose number wraps onto a secret one.
THEOREM Hiding == Spec => []SecretsAreHidden
<1>1. InputInv => SecretsAreHidden
  BY Hidden DEF InputInv, SecretsAreHidden
<1> QED BY <1>1, Inputs, PTL

\* Where every tag fits an int no value but the secret ones is masked.
THEOREM OnlyHiding == Spec => []OnlySecretsAreHidden
<1>1. ASSUME raw \in Seq(Int), OverlongFields(Fields(raw)) = {}
      PROVE  RedactBytes(raw) = Shown(Fields(raw), SecretFields(Fields(raw)))
  <2>1. PICK wrapped \in SUBSET OverlongFields(Fields(raw)) :
          RedactBytes(raw) = Shown(Fields(raw), SecretFields(Fields(raw)) \cup wrapped)
    BY <1>1, Hidden
  <2>2. SecretFields(Fields(raw)) \cup wrapped = SecretFields(Fields(raw))
    BY <1>1
  <2> QED BY <2>1, <2>2
<1>2. InputInv => OnlySecretsAreHidden
  BY <1>1 DEF InputInv, OnlySecretsAreHidden
<1> QED BY <1>2, Inputs, PTL
=============================================================================
