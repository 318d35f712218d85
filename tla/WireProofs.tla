------------------------------ MODULE WireProofs ------------------------------
(***************************************************************************)
(* Theorems about one direction of a session, for any number of messages,  *)
(* orders and operator's gaps.                                             *)
(***************************************************************************)
EXTENDS Wire, FiniteSetTheorems, TLAPS

USE WireAssumption

----------------------------------------------------------------------------
(* The items of a store.                                                    *)

\* t is s and more.
Prefix(s, t) == Len(s) <= Len(t) /\ \A i \in DOMAIN s : t[i] = s[i]

\* Every place in the order of the items is taken.
Onto(s) ==
    \A k \in 1..Cardinality(ItemNums(s)) : \E n \in ItemNums(s) : ItemsBelow(s, n) = k - 1

LEMMA Counting ==
  ASSUME NEW S, NEW s \in Seq(S), NEW n
  PROVE  /\ IsFiniteSet(ItemNums(s)) /\ IsFiniteSet({i \in ItemNums(s) : i < n})
         /\ Cardinality(ItemNums(s)) \in Nat /\ ItemsBelow(s, n) \in Nat
         /\ ItemsBelow(s, n) <= Cardinality(ItemNums(s))
<1>1. ItemNums(s) \in SUBSET (1..Len(s)) /\ IsFiniteSet(1..Len(s))
  BY FS_Interval DEF ItemNums
<1>2. IsFiniteSet(ItemNums(s))
  BY <1>1, FS_Subset
<1>3. {i \in ItemNums(s) : i < n} \in SUBSET ItemNums(s)
  OBVIOUS
<1>4. /\ IsFiniteSet({i \in ItemNums(s) : i < n})
      /\ Cardinality({i \in ItemNums(s) : i < n}) <= Cardinality(ItemNums(s))
  BY <1>2, <1>3, FS_Subset
<1> QED BY <1>2, <1>4, FS_CardinalityType DEF ItemsBelow

\* Numbers without an item do not count.
LEMMA Skipping ==
  ASSUME NEW S, NEW s \in Seq(S), NEW m \in Nat, NEW n \in Nat, m <= n,
         \A i \in m..(n - 1) : i \notin ItemNums(s)
  PROVE  ItemsBelow(s, n) = ItemsBelow(s, m)
<1>1. \A i \in ItemNums(s) : i \in Nat
  BY DEF ItemNums
<1>2. {i \in ItemNums(s) : i < n} = {i \in ItemNums(s) : i < m}
  BY <1>1
<1> QED BY <1>2 DEF ItemsBelow

LEMMA Passing ==
  ASSUME NEW S, NEW s \in Seq(S), NEW n \in ItemNums(s)
  PROVE  ItemsBelow(s, n + 1) = ItemsBelow(s, n) + 1
<1>1. \A i \in ItemNums(s) : i \in Nat
  BY DEF ItemNums
<1>2. {i \in ItemNums(s) : i < n + 1} = {i \in ItemNums(s) : i < n} \cup {n}
  BY <1>1
<1>3. n \notin {i \in ItemNums(s) : i < n}
  BY <1>1
<1>4. IsFiniteSet({i \in ItemNums(s) : i < n})
  BY Counting
<1>5. Cardinality({i \in ItemNums(s) : i < n} \cup {n})
        = Cardinality({i \in ItemNums(s) : i < n}) + 1
  BY <1>3, <1>4, FS_AddElement
<1> QED BY <1>2, <1>5 DEF ItemsBelow

LEMMA Ranking ==
  ASSUME NEW S, NEW s \in Seq(S), NEW m \in ItemNums(s), NEW n \in ItemNums(s)
  PROVE  /\ m < n => ItemsBelow(s, m) < ItemsBelow(s, n)
         /\ ItemsBelow(s, m) = ItemsBelow(s, n) => m = n
         /\ ItemsBelow(s, n) + 1 \in 1..Cardinality(ItemNums(s))
<1>1. \A i \in ItemNums(s) : i \in Nat
  BY DEF ItemNums
<1>2. ASSUME NEW p \in ItemNums(s), NEW q \in ItemNums(s), p < q
      PROVE  ItemsBelow(s, p) < ItemsBelow(s, q)
  <2>1. {i \in ItemNums(s) : i < p + 1} \in SUBSET {i \in ItemNums(s) : i < q}
    BY <1>1, <1>2
  <2>2. ItemsBelow(s, p + 1) <= ItemsBelow(s, q)
    BY <2>1, Counting, FS_Subset DEF ItemsBelow
  <2>3. ItemsBelow(s, p + 1) = ItemsBelow(s, p) + 1
    BY Passing
  <2>4. ItemsBelow(s, p) \in Nat /\ ItemsBelow(s, q) \in Nat
    BY Counting
  <2> QED BY <2>2, <2>3, <2>4
<1>3. ItemsBelow(s, n) + 1 \in 1..Cardinality(ItemNums(s))
  <2>1. ItemsBelow(s, n + 1) = ItemsBelow(s, n) + 1
    BY Passing
  <2>2. /\ ItemsBelow(s, n) \in Nat /\ ItemsBelow(s, n + 1) <= Cardinality(ItemNums(s))
        /\ Cardinality(ItemNums(s)) \in Nat
    BY Counting
  <2> QED BY <2>1, <2>2
<1>4. ItemsBelow(s, m) \in Nat /\ ItemsBelow(s, n) \in Nat
  BY Counting
<1> QED BY <1>1, <1>2, <1>3, <1>4

LEMMA Finding ==
  ASSUME NEW S, NEW s \in Seq(S), NEW n \in ItemNums(s)
  PROVE  ItemsOf(s)[ItemsBelow(s, n) + 1] = s[n]
<1>1. ItemsBelow(s, n) + 1 \in 1..Cardinality(ItemNums(s)) /\ ItemsBelow(s, n) \in Nat
  BY Ranking, Counting
<1>2. (CHOOSE m \in ItemNums(s) : ItemsBelow(s, m) = ItemsBelow(s, n)) = n
  BY Ranking
<1>3. \A k \in 1..Cardinality(ItemNums(s)) :
        ItemsOf(s)[k] = s[CHOOSE m \in ItemNums(s) : ItemsBelow(s, m) = k - 1]
  BY DEF ItemsOf
<1>4. PICK k \in 1..Cardinality(ItemNums(s)) :
        k = ItemsBelow(s, n) + 1 /\ k - 1 = ItemsBelow(s, n)
  BY <1>1
<1>5. ItemsOf(s)[k] = s[CHOOSE m \in ItemNums(s) : ItemsBelow(s, m) = k - 1]
  BY <1>3
<1> QED BY <1>2, <1>4, <1>5

LEMMA Placing ==
  ASSUME NEW S, NEW s \in Seq(S), Onto(s)
  PROVE  /\ ItemsOf(s) \in Seq(S) /\ Len(ItemsOf(s)) = Cardinality(ItemNums(s))
         /\ \A k \in 1..Cardinality(ItemNums(s)) :
              \E n \in ItemNums(s) : ItemsBelow(s, n) = k - 1 /\ ItemsOf(s)[k] = s[n]
<1>1. Cardinality(ItemNums(s)) \in Nat
  BY Counting
<1>2. ASSUME NEW k \in 1..Cardinality(ItemNums(s))
      PROVE  \E n \in ItemNums(s) : ItemsBelow(s, n) = k - 1 /\ ItemsOf(s)[k] = s[n]
  <2>1. PICK n \in ItemNums(s) : ItemsBelow(s, n) = k - 1
    BY DEF Onto
  <2>2. ItemsOf(s)[ItemsBelow(s, n) + 1] = s[n]
    BY Finding
  <2>3. ItemsBelow(s, n) + 1 = k
    BY <1>1, <2>1
  <2> QED BY <2>1, <2>2, <2>3
<1>3. \A k \in 1..Cardinality(ItemNums(s)) : ItemsOf(s)[k] \in S
  BY <1>2 DEF ItemNums
<1>4. /\ ItemsOf(s) = [k \in 1..Cardinality(ItemNums(s)) |-> ItemsOf(s)[k]]
      /\ DOMAIN ItemsOf(s) = 1..Cardinality(ItemNums(s))
  BY DEF ItemsOf
<1> HIDE DEF ItemsOf
<1>5. ItemsOf(s) \in Seq(S) /\ Len(ItemsOf(s)) = Cardinality(ItemNums(s))
  BY <1>1, <1>3, <1>4
<1> QED BY <1>2, <1>5

\* Two sequences with one length and the same elements are one.
LEMMA Extensionality ==
  ASSUME NEW S, NEW s \in Seq(S), NEW t \in Seq(S), Len(s) = Len(t),
         \A k \in 1..Len(s) : s[k] = t[k]
  PROVE  s = t
  OBVIOUS

\* Admin messages and holes leave the items where they are.
LEMMA Growing ==
  ASSUME NEW S, NEW s \in Seq(S), NEW t \in Seq(S), Prefix(s, t), Onto(s),
         \A i \in (Len(s) + 1)..Len(t) : ~ IsItem(t[i])
  PROVE  /\ ItemNums(t) = ItemNums(s) /\ ItemsOf(t) = ItemsOf(s) /\ Onto(t)
         /\ \A n : ItemsBelow(t, n) = ItemsBelow(s, n)
<1>1. ItemNums(t) = ItemNums(s)
  BY DEF ItemNums, Prefix
<1>2. \A n : ItemsBelow(t, n) = ItemsBelow(s, n)
  BY <1>1 DEF ItemsBelow
<1>3. Onto(t)
  BY <1>1, <1>2 DEF Onto
<1>4. ItemsOf(t) = ItemsOf(s)
  <2>1. \A k \in 1..Cardinality(ItemNums(s)) : ItemsOf(t)[k] = ItemsOf(s)[k]
    <3> SUFFICES ASSUME NEW k \in 1..Cardinality(ItemNums(s))
                 PROVE  ItemsOf(t)[k] = ItemsOf(s)[k]
      OBVIOUS
    <3>1. PICK n \in ItemNums(s) : ItemsBelow(s, n) = k - 1 /\ ItemsOf(s)[k] = s[n]
      BY Placing
    <3>2. ItemsOf(t)[ItemsBelow(t, n) + 1] = t[n]
      BY <1>1, Finding
    <3>3. ItemsBelow(t, n) + 1 = k /\ t[n] = s[n]
      BY <1>2, <3>1 DEF Prefix, ItemNums
    <3> QED BY <3>1, <3>2, <3>3
  <2>2. /\ ItemsOf(t) \in Seq(S) /\ Len(ItemsOf(t)) = Cardinality(ItemNums(t))
        /\ ItemsOf(s) \in Seq(S) /\ Len(ItemsOf(s)) = Cardinality(ItemNums(s))
    BY <1>3, Placing
  <2> QED BY <1>1, <2>1, <2>2, Extensionality
<1> QED BY <1>1, <1>2, <1>3, <1>4

\* An item that is appended is the last of the items.
LEMMA Appending ==
  ASSUME NEW S, NEW s \in Seq(S), NEW e \in S, IsItem(e), Onto(s)
  PROVE  LET t == Append(s, e)
         IN  /\ ItemNums(t) = ItemNums(s) \cup {Len(s) + 1}
             /\ ItemsOf(t) = Append(ItemsOf(s), e)
             /\ Cardinality(ItemNums(t)) = Cardinality(ItemNums(s)) + 1
             /\ Onto(t)
             /\ \A n \in 1..(Len(s) + 1) : ItemsBelow(t, n) = ItemsBelow(s, n)
<1> DEFINE t    == Append(s, e)
           last == Len(s) + 1
           size == Cardinality(ItemNums(s))
<1>1. t \in Seq(S) /\ Len(t) = last /\ t[last] = e /\ last \in Nat \ {0}
      /\ \A i \in DOMAIN s : i \in 1..Len(s) /\ t[i] = s[i]
  OBVIOUS
<1>2. DOMAIN t = DOMAIN s \cup {last} /\ last \notin DOMAIN s
  OBVIOUS
<1> HIDE DEF t, last
<1>3. ItemNums(t) = ItemNums(s) \cup {last}
  BY <1>1, <1>2 DEF ItemNums
<1>4. \A i \in ItemNums(s) : i < last /\ i \in Nat
  BY <1>1 DEF ItemNums, last
<1>5. size \in Nat /\ Cardinality(ItemNums(t)) = size + 1
  <2>1. IsFiniteSet(ItemNums(s)) /\ size \in Nat
    BY Counting
  <2>2. last \notin ItemNums(s)
    BY <1>4
  <2> QED BY <1>3, <2>1, <2>2, FS_AddElement
<1>6. ASSUME NEW n \in 1..last PROVE ItemsBelow(t, n) = ItemsBelow(s, n)
  <2>1. {i \in ItemNums(t) : i < n} = {i \in ItemNums(s) : i < n}
    BY <1>1, <1>3, <1>4
  <2> QED BY <2>1 DEF ItemsBelow
<1>7. ItemsBelow(t, last) = size
  <2>1. {i \in ItemNums(s) : i < last} = ItemNums(s)
    BY <1>4
  <2>2. last \in 1..last
    BY <1>1
  <2> QED BY <1>6, <2>1, <2>2 DEF ItemsBelow
<1>8. Onto(t)
  <2> SUFFICES ASSUME NEW k \in 1..(size + 1)
               PROVE  \E n \in ItemNums(t) : ItemsBelow(t, n) = k - 1
    BY <1>5 DEF Onto
  <2>1. CASE k = size + 1
    BY <1>3, <1>5, <1>7, <2>1
  <2>2. CASE k \in 1..size
    <3>1. PICK n \in ItemNums(s) : ItemsBelow(s, n) = k - 1
      BY <2>2 DEF Onto
    <3>2. n \in 1..last
      BY <1>1, <1>4, <3>1 DEF ItemNums
    <3> QED BY <1>3, <1>6, <3>1, <3>2
  <2> QED BY <1>5, <2>1, <2>2
<1>9. ItemsOf(t) = Append(ItemsOf(s), e)
  <2>1. /\ ItemsOf(t) \in Seq(S) /\ Len(ItemsOf(t)) = size + 1
        /\ ItemsOf(s) \in Seq(S) /\ Len(ItemsOf(s)) = size
    BY <1>1, <1>5, <1>8, Placing
  <2>2. Append(ItemsOf(s), e) \in Seq(S) /\ Len(Append(ItemsOf(s), e)) = size + 1
    BY <2>1
  <2>3. ASSUME NEW k \in 1..(size + 1) PROVE ItemsOf(t)[k] = Append(ItemsOf(s), e)[k]
    <3>1. CASE k = size + 1
      <4>1. ItemsOf(t)[ItemsBelow(t, last) + 1] = t[last]
        BY <1>1, <1>3, Finding
      <4>2. Append(ItemsOf(s), e)[k] = e
        BY <1>5, <2>1, <3>1
      <4> QED BY <1>1, <1>7, <3>1, <4>1, <4>2
    <3>2. CASE k \in 1..size
      <4>1. PICK n \in ItemNums(s) : ItemsBelow(s, n) = k - 1 /\ ItemsOf(s)[k] = s[n]
        BY <3>2, Placing
      <4>2. n \in 1..last /\ n \in DOMAIN s
        BY <1>1, <1>4, <4>1 DEF ItemNums
      <4>3. ItemsOf(t)[ItemsBelow(t, n) + 1] = t[n]
        BY <1>1, <1>3, Finding
      <4>4. ItemsBelow(t, n) + 1 = k /\ t[n] = s[n]
        BY <1>1, <1>6, <3>2, <4>1, <4>2
      <4>5. Append(ItemsOf(s), e)[k] = ItemsOf(s)[k]
        BY <1>5, <2>1, <3>2
      <4> QED BY <4>1, <4>3, <4>4, <4>5
    <3>3. k = size + 1 \/ k \in 1..size
      BY <1>5
    <3> QED BY <3>1, <3>2, <3>3
  <2> QED BY <2>1, <2>2, <2>3, Extensionality
<1> QED BY <1>3, <1>5, <1>6, <1>8, <1>9 DEF t, last

----------------------------------------------------------------------------
(* The line.                                                                *)

AnyOrder == Orders \cup {CHOOSE o \in Orders : TRUE}
Entry == {Admin, Hole} \cup {Item(n, o) : n \in Nat, o \in AnyOrder}
Msg   == [num : Nat, body : Entry, dup : BOOLEAN, fill : Nat]

\* The number that a receiver expects after m.
End(m) == IF m.fill # 0 THEN m.fill ELSE m.num + 1

\* m is what store has at its number, or stands for numbers with no item.
Faithful(m, store) ==
    /\ m.num \in 1..Len(store)
    /\ End(m) \in (m.num + 1)..(Len(store) + 1)
    /\ IF IsItem(m.body) THEN m.fill = 0 /\ m.body = store[m.num]
                         ELSE \A i \in m.num..(End(m) - 1) : ~ IsItem(store[i])

\* Live messages, in the order of their numbers, come after all that are below
\* them; n is the number expected next, b that of the connection's Logon.
LineOK(line, kept, n, b, store) ==
    /\ line \in Seq(Msg)
    /\ \A i \in 1..Len(line) : Faithful(line[i], store)
    /\ kept \subseteq Msg
    /\ \A m \in kept : Faithful(m, store) /\ (~ m.dup => b < m.num)
    /\ \A j \in 1..Len(line) : ~ line[j].dup =>
         /\ n <= line[j].num /\ b < line[j].num
         /\ \A i \in 1..(j - 1) : End(line[i]) <= line[j].num
         /\ \A m \in kept : End(m) <= line[j].num

LEMMA Entries ==
  /\ ~ IsItem(Admin) /\ ~ IsItem(Hole) /\ Admin # Hole
  /\ \A n, o : IsItem(Item(n, o)) /\ Item(n, o).no = n /\ Item(n, o).order = o
  /\ \A e \in Entry : IsItem(e) => e.no \in Nat /\ e.order \in AnyOrder
  BY DEF Entry, IsItem, Admin, Hole, Item

LEMMA LineEmpty == ASSUME NEW n, NEW b, NEW s PROVE LineOK(<< >>, {}, n, b, s)
  BY DEF LineOK

LEMMA FaithfulStays ==
  ASSUME NEW S, NEW s \in Seq(S), NEW t \in Seq(S), Prefix(s, t), NEW m \in Msg, Faithful(m, s)
  PROVE  Faithful(m, t)
<1>1. Len(s) \in Nat /\ Len(t) \in Nat /\ DOMAIN s = 1..Len(s)
  OBVIOUS
<1>2. m.num \in 1..Len(t) /\ End(m) \in (m.num + 1)..(Len(t) + 1)
  BY <1>1 DEF Faithful, Prefix
<1>3. \A i \in 1..Len(s) : t[i] = s[i]
  BY <1>1 DEF Prefix
<1>4. \A i \in m.num..(End(m) - 1) : i \in 1..Len(s)
  BY <1>1 DEF Faithful
<1> QED BY <1>2, <1>3, <1>4 DEF Faithful

LEMMA LineGrows ==
  ASSUME NEW S, NEW s \in Seq(S), NEW t \in Seq(S), Prefix(s, t),
         NEW line, NEW kept, NEW n, NEW b, LineOK(line, kept, n, b, s)
  PROVE  LineOK(line, kept, n, b, t)
<1>1. \A m \in Msg : Faithful(m, s) => Faithful(m, t)
  BY FaithfulStays
<1>2. \A i \in 1..Len(line) : line[i] \in Msg
  BY DEF LineOK
<1> QED BY <1>1, <1>2 DEF LineOK

LEMMA LineAppend ==
  ASSUME NEW line, NEW kept, NEW n, NEW b, NEW s, LineOK(line, kept, n, b, s),
         NEW m \in Msg, Faithful(m, s),
         ~ m.dup => /\ n <= m.num /\ b < m.num
                    /\ \A i \in 1..Len(line) : End(line[i]) <= m.num
                    /\ \A p \in kept : End(p) <= m.num
  PROVE  LineOK(Append(line, m), kept, n, b, s)
<1> DEFINE new == Append(line, m)
           l   == Len(line)
<1>1. /\ l \in Nat /\ new \in Seq(Msg) /\ Len(new) = l + 1
      /\ \A i \in 1..l : new[i] = line[i]
      /\ new[l + 1] = m
  BY DEF LineOK
<1> HIDE DEF new, l
<1>2. \A i \in 1..Len(new) : Faithful(new[i], s)
  <2> SUFFICES ASSUME NEW i \in 1..(l + 1) PROVE Faithful(new[i], s)
    BY <1>1
  <2>1. CASE i = l + 1
    BY <1>1, <2>1
  <2>2. CASE i \in 1..l
    BY <1>1, <2>2 DEF LineOK, l
  <2>3. i = l + 1 \/ i \in 1..l
    BY <1>1
  <2> QED BY <2>1, <2>2, <2>3
<1>3. ASSUME NEW j \in 1..Len(new), ~ new[j].dup
      PROVE  /\ n <= new[j].num /\ b < new[j].num
             /\ \A i \in 1..(j - 1) : End(new[i]) <= new[j].num
             /\ \A p \in kept : End(p) <= new[j].num
  <2>1. CASE j = l + 1
    BY <1>1, <1>3, <2>1 DEF l
  <2>2. CASE j \in 1..l
    <3>1. \A i \in 1..(j - 1) : i \in 1..l
      BY <1>1, <2>2
    <3> QED BY <1>1, <1>3, <2>2, <3>1 DEF LineOK, l
  <2>3. j = l + 1 \/ j \in 1..l
    BY <1>1
  <2> QED BY <2>1, <2>2, <2>3
<1> QED BY <1>1, <1>2, <1>3 DEF LineOK, new

\* A live message has the last number.
LEMMA LineLive ==
  ASSUME NEW S, NEW s \in Seq(S), NEW t \in Seq(S), Prefix(s, t), Len(t) = Len(s) + 1,
         NEW line, NEW kept, NEW n \in 1..(Len(s) + 1), NEW b \in 0..Len(s),
         LineOK(line, kept, n, b, s), NEW m \in Msg, Faithful(m, t), m.num = Len(t)
  PROVE  LineOK(Append(line, m), kept, n, b, t)
<1>1. LineOK(line, kept, n, b, t)
  BY LineGrows
<1>2. n <= m.num /\ b < m.num
  OBVIOUS
<1>3. \A p : Faithful(p, s) => End(p) <= m.num
  <2> SUFFICES ASSUME NEW p, Faithful(p, s) PROVE End(p) <= m.num
    OBVIOUS
  <2>1. p.num \in 1..Len(s) /\ End(p) \in (p.num + 1)..(Len(s) + 1)
    BY DEF Faithful
  <2> QED BY <2>1
<1> QED BY <1>1, <1>2, <1>3, LineAppend DEF LineOK

\* The first message is read, and dropped, kept, or counted when it was the
\* one expected.
LEMMA LineTail ==
  ASSUME NEW line, NEW kept, NEW n, NEW b, NEW s, LineOK(line, kept, n, b, s), line # << >>
  PROVE  LET m == Head(line)
         IN  /\ m \in Msg /\ Faithful(m, s)
             /\ ~ m.dup => n <= m.num /\ b < m.num
             /\ LineOK(Tail(line), kept, n, b, s)
             /\ LineOK(Tail(line), kept \cup {m}, n, b, s)
             /\ LineOK(Tail(line), kept, End(m), b, s)
<1> DEFINE m   == Head(line)
           new == Tail(line)
           l   == Len(line)
<1>1. /\ l \in Nat \ {0} /\ new \in Seq(Msg) /\ Len(new) = l - 1 /\ m = line[1] /\ m \in Msg
      /\ \A i \in 1..(l - 1) : new[i] = line[i + 1] /\ i + 1 \in 1..l
  BY DEF LineOK
<1> HIDE DEF new, l, m
<1>2. Faithful(m, s) /\ (~ m.dup => n <= m.num /\ b < m.num)
  <2>1. 1 \in 1..l
    BY <1>1
  <2> QED BY <1>1, <2>1 DEF LineOK, l
<1>3. \A i \in 1..Len(new) : Faithful(new[i], s)
  BY <1>1 DEF LineOK, l
<1>4. ASSUME NEW j \in 1..Len(new), ~ new[j].dup
      PROVE  /\ n <= new[j].num /\ b < new[j].num /\ End(m) <= new[j].num
             /\ \A i \in 1..(j - 1) : End(new[i]) <= new[j].num
             /\ \A p \in kept : End(p) <= new[j].num
  <2>1. j \in 1..(l - 1) /\ j + 1 \in 1..l /\ new[j] = line[j + 1] /\ ~ line[j + 1].dup
    BY <1>1, <1>4
  <2>2. /\ n <= new[j].num /\ b < new[j].num
        /\ \A i \in 1..j : End(line[i]) <= new[j].num
        /\ \A p \in kept : End(p) <= new[j].num
    BY <2>1 DEF LineOK, l
  <2>3. \A i \in 1..(j - 1) : i + 1 \in 1..j /\ new[i] = line[i + 1]
    BY <1>1, <2>1
  <2>4. 1 \in 1..j
    BY <1>1, <2>1
  <2> QED BY <1>1, <2>2, <2>3, <2>4
<1>5. kept \subseteq Msg /\ \A p \in kept : Faithful(p, s) /\ (~ p.dup => b < p.num)
  BY DEF LineOK
<1> QED BY <1>1, <1>2, <1>3, <1>4, <1>5 DEF LineOK, new, m

\* A message that was kept is counted.
LEMMA LineKept ==
  ASSUME NEW line, NEW kept, NEW n, NEW b, NEW s, LineOK(line, kept, n, b, s), NEW m \in kept
  PROVE  /\ m \in Msg /\ Faithful(m, s) /\ (~ m.dup => b < m.num)
         /\ LineOK(line, kept \ {m}, End(m), b, s)
  BY DEF LineOK

LEMMA LineFewer ==
  ASSUME NEW line, NEW kept, NEW n, NEW b, NEW s, LineOK(line, kept, n, b, s)
  PROVE  LineOK(line, {}, n, b, s)
  BY DEF LineOK

----------------------------------------------------------------------------
(* The engines.                                                             *)

\* A replay goes over numbers of the store, to one that is stored.
ReplayInv ==
    \/ replay = NoReplay
    \/ \E from, to \in 1..Len(stored) : from <= to /\ replay = [from |-> from, to |-> to]

SessionInv ==
    /\ app \in Apps /\ counter \in Nat /\ up \in BOOLEAN /\ reading \in BOOLEAN
    /\ stored \in Seq(Entry)
    /\ LineOK(net, stash, next, base, stored)
    /\ asked \in Seq(Nat) /\ \A i \in 1..Len(asked) : asked[i] \in 1..Len(stored)
    /\ ReplayInv
    /\ next \in 1..(Len(stored) + 1)
    /\ resendEnd \in 0..Len(stored)
    /\ resendEnd = 0 => stash = {}
    /\ base \in 0..Len(stored)
    /\ ~ up => /\ net = << >> /\ asked = << >> /\ replay = NoReplay
               /\ resendEnd = 0 /\ ~ reading
    /\ reading => next \in ItemNums(stored)

LEMMA InitSession == Init => SessionInv
<1> SUFFICES ASSUME Init PROVE SessionInv
  OBVIOUS
<1>1. /\ net = << >> /\ stash = {} /\ stored = << >> /\ stored \in Seq(Entry) /\ Len(stored) = 0
      /\ asked = << >> /\ asked \in Seq(Nat) /\ Len(asked) = 0 /\ replay = NoReplay
      /\ app \in Apps /\ counter = 0 /\ up = FALSE /\ reading = FALSE
      /\ next = 1 /\ resendEnd = 0 /\ base = 0
  BY DEF Init
<1>2. LineOK(net, stash, next, base, stored)
  BY <1>1, LineEmpty
<1>3. (\A i \in 1..Len(asked) : asked[i] \in 1..Len(stored)) /\ counter \in Nat
      /\ next \in 1..(Len(stored) + 1) /\ resendEnd \in 0..Len(stored)
      /\ base \in 0..Len(stored)
  BY <1>1
<1> QED BY <1>1, <1>2, <1>3 DEF SessionInv, ReplayInv

LEMMA ToSubjects == Subjects \subseteq AnyOrder /\ (app = "view" => Subjects = Orders)
  BY DEF Subjects, AnyOrder

\* A longer store disturbs nothing but the line's live messages.
LEMMA Storing ==
  ASSUME SessionInv, NEW e \in Entry, stored' = Append(stored, e)
  PROVE  /\ stored' \in Seq(Entry) /\ Len(stored') = Len(stored) + 1 /\ Len(stored) \in Nat
         /\ stored'[Len(stored')] = e /\ Prefix(stored, stored')
         /\ Len(stored') \in 1..Len(stored')
         /\ ItemNums(stored) \subseteq ItemNums(stored')
         /\ next \in 1..(Len(stored') + 1) /\ resendEnd \in 0..Len(stored')
         /\ base \in 0..Len(stored')
         /\ \A i \in 1..Len(asked) : asked[i] \in 1..Len(stored')
         /\ replay = NoReplay \/ \E from, to \in 1..Len(stored') :
                                   from <= to /\ replay = [from |-> from, to |-> to]
<1>1. stored \in Seq(Entry) /\ Len(stored) \in Nat
  BY DEF SessionInv
<1>2. /\ stored' \in Seq(Entry) /\ Len(stored') = Len(stored) + 1
      /\ stored'[Len(stored')] = e /\ Prefix(stored, stored')
  BY <1>1 DEF Prefix
<1>3. ItemNums(stored) \subseteq ItemNums(stored')
  BY <1>1, <1>2 DEF ItemNums, Prefix
<1> QED BY <1>1, <1>2, <1>3 DEF SessionInv, ReplayInv

LEMMA PostStep ==
  ASSUME SessionInv, NEW o \in Subjects, Post(o)
  PROVE  SessionInv'
<1> DEFINE e == Item(Number, o)
           m == Message(Len(stored'), e, FALSE, 0)
<1>1. e \in Entry /\ IsItem(e)
  <2>1. counter + 1 \in Nat /\ o \in AnyOrder
    BY ToSubjects DEF SessionInv
  <2> QED BY <2>1, Entries DEF Entry, Number
<1>2. stored' = Append(stored, e) /\ net' = IF up THEN Append(net, m) ELSE net
  BY DEF Post
<1> HIDE DEF e
<1>3. m \in Msg /\ m.num = Len(stored') /\ m.body = e /\ m.fill = 0
  BY <1>1, <1>2, Storing DEF Message, Msg
<1> HIDE DEF m
<1>4. Faithful(m, stored')
  <2>1. stored'[m.num] = e /\ m.num \in 1..Len(stored') /\ Len(stored') \in Nat
    BY <1>1, <1>2, <1>3, Storing
  <2> QED BY <1>1, <1>3, <2>1 DEF Faithful, End
<1>5. LineOK(net', stash, next, base, stored')
  <2>1. CASE up
    BY <1>1, <1>2, <1>3, <1>4, <2>1, Storing, LineLive DEF SessionInv
  <2>2. CASE ~ up
    BY <1>1, <1>2, <2>2, Storing, LineGrows DEF SessionInv
  <2> QED BY <2>1, <2>2
<1>6. counter' \in Nat
  BY DEF Post, Number, SessionInv
<1> QED
  BY <1>1, <1>2, <1>5, <1>6, Storing DEF Post, SessionInv, ReplayInv, receiverVars

LEMMA AdvanceStep ==
  ASSUME SessionInv, NEW n \in GapSizes, AdvanceSeqNum(n)
  PROVE  /\ SessionInv'
         /\ Prefix(stored, stored') /\ \A i \in (Len(stored) + 1)..Len(stored') : ~ IsItem(stored'[i])
<1>1. n \in Nat \ {0} /\ ~ up /\ stored' = stored \o [i \in 1..n |-> Hole]
      /\ UNCHANGED <<app, counter, lineVars, receiverVars, mem, base, first>>
  BY DEF AdvanceSeqNum, MayAdvance
<1>2. [i \in 1..n |-> Hole] \in Seq(Entry) /\ Len([i \in 1..n |-> Hole]) = n
  BY <1>1 DEF Entry
<1>3. /\ stored' \in Seq(Entry) /\ Len(stored') = Len(stored) + n /\ Len(stored) \in Nat
      /\ Prefix(stored, stored')
      /\ \A i \in (Len(stored) + 1)..Len(stored') : stored'[i] = Hole
  BY <1>1, <1>2 DEF SessionInv, Prefix
<1>4. \A i \in (Len(stored) + 1)..Len(stored') : ~ IsItem(stored'[i])
  BY <1>3, Entries
<1>5. LineOK(net', stash', next', base', stored')
  <2>1. LineOK(net, stash, next, base, stored')
    BY <1>3, LineGrows DEF SessionInv
  <2>2. net' = net /\ stash' = stash /\ next' = next /\ base' = base
    BY <1>1 DEF lineVars, receiverVars
  <2> QED BY <2>1, <2>2
<1>6. SessionInv'
  BY <1>1, <1>3, <1>5 DEF SessionInv, ReplayInv, lineVars, receiverVars
<1> QED BY <1>3, <1>4, <1>6

LEMMA LogonStep ==
  ASSUME SessionInv, NEW arrives \in BOOLEAN, Logon(arrives)
  PROVE  SessionInv'
<1>1. Admin \in Entry /\ stored' = Append(stored, Admin)
  BY DEF Logon, Entry
<1>2. /\ ~ up /\ net = << >> /\ stash = {} /\ asked = << >> /\ replay = NoReplay
      /\ resendEnd = 0 /\ ~ reading
      /\ net' = net /\ stash' = stash /\ replay' = replay /\ reading' = reading
      /\ app' = app /\ counter' = counter /\ up' = arrives
  BY DEF Logon, SessionInv
<1>3. LineOK(net', stash', next', base', stored')
  <2>1. net' = << >> /\ stash' = {}
    BY <1>2 DEF Logon
  <2> QED BY <2>1, LineEmpty
<1>4. next' \in 1..(Len(stored') + 1) /\ base' \in 0..Len(stored')
  BY <1>1, Storing DEF Logon
<1>5. CASE arrives /\ next < Len(stored')
  <2>1. asked' = <<next>> /\ resendEnd' = Len(stored) /\ next \in 1..Len(stored')
    BY <1>1, <1>5, Storing DEF Logon
  <2>2. asked' \in Seq(Nat) /\ \A i \in 1..Len(asked') : asked'[i] \in 1..Len(stored')
    BY <2>1
  <2> QED BY <1>1, <1>2, <1>3, <1>4, <1>5, <2>1, <2>2, Storing DEF SessionInv, ReplayInv
<1>6. CASE ~ (arrives /\ next < Len(stored'))
  <2>1. asked' = asked /\ resendEnd' = resendEnd
    BY <1>6 DEF Logon
  <2> QED BY <1>1, <1>2, <1>3, <1>4, <2>1, Storing DEF SessionInv, ReplayInv
<1> QED BY <1>5, <1>6

LEMMA HeartbeatStep ==
  ASSUME SessionInv, Heartbeat
  PROVE  SessionInv'
<1> DEFINE m == Message(Len(stored'), Admin, FALSE, 0)
<1>1. /\ Admin \in Entry /\ stored' = Append(stored, Admin) /\ net = << >> /\ net' = <<m>>
      /\ UNCHANGED <<app, counter, up, asked, replay, receiverVars, mem, base, first>>
  BY DEF Heartbeat, Entry
<1>2. m \in Msg /\ m.num = Len(stored') /\ m.body = Admin /\ m.fill = 0
  BY <1>1, Storing DEF Message, Msg
<1> HIDE DEF m
<1>3. Faithful(m, stored')
  <2>1. m.num \in 1..Len(stored') /\ Len(stored') \in Nat /\ stored'[m.num] = Admin
    BY <1>1, <1>2, Storing
  <2> QED BY <1>2, <2>1, Entries DEF Faithful, End
<1>4. net' = Append(net, m)
  BY <1>1
<1>5. LineOK(net', stash, next, base, stored')
  <2>1. /\ stored \in Seq(Entry) /\ stored' \in Seq(Entry) /\ Prefix(stored, stored')
        /\ Len(stored') = Len(stored) + 1
        /\ next \in 1..(Len(stored) + 1) /\ base \in 0..Len(stored)
        /\ LineOK(net, stash, next, base, stored)
    BY <1>1, Storing DEF SessionInv
  <2> QED BY <1>2, <1>3, <1>4, <2>1, LineLive
<1>6. up
  BY DEF Heartbeat
<1> QED BY <1>1, <1>5, <1>6, Storing DEF SessionInv, ReplayInv, receiverVars

LEMMA LogoutStep ==
  ASSUME SessionInv, Logout
  PROVE  SessionInv'
<1>1. Admin \in Entry /\ stored' = Append(stored, Admin)
  BY DEF Logout, Entry
<1>2. /\ net' = << >> /\ asked' = << >> /\ replay' = NoReplay /\ resendEnd' = 0
      /\ stash' = {} /\ reading' = reading /\ up' = FALSE /\ base' = base
      /\ app' = app /\ counter' = counter /\ next' = Len(stored) + 2
  BY DEF Logout, SessionInv
<1>3. reading' = FALSE
  <2>1. next \notin ItemNums(stored)
    BY DEF Logout, ItemNums, SessionInv
  <2> QED BY <1>2, <2>1 DEF SessionInv
<1>4. LineOK(net', stash', next', base', stored')
  BY <1>2, LineEmpty
<1>5. next' \in 1..(Len(stored') + 1) /\ base' \in 0..Len(stored') /\ resendEnd' \in 0..Len(stored')
  BY <1>1, <1>2, Storing DEF SessionInv
<1>6. asked' \in Seq(Nat) /\ \A i \in 1..Len(asked') : asked'[i] \in 1..Len(stored')
  BY <1>2
<1>7. stored' \in Seq(Entry) /\ app' \in Apps /\ counter' \in Nat /\ up' \in BOOLEAN
  BY <1>1, <1>2, Storing DEF SessionInv
<1> QED BY <1>2, <1>3, <1>4, <1>5, <1>6, <1>7 DEF SessionInv, ReplayInv

LEMMA ResendRequestStep ==
  ASSUME SessionInv, ResendRequest
  PROVE  SessionInv'
<1>1. /\ asked # << >> /\ replay' = [from |-> Head(asked), to |-> Len(stored)]
      /\ asked' = Tail(asked)
      /\ UNCHANGED <<app, senderVars, up, net, receiverVars, mem, base, first>>
  BY DEF ResendRequest
<1>2. asked \in Seq(Nat) /\ \A i \in 1..Len(asked) : asked[i] \in 1..Len(stored)
  BY DEF SessionInv
<1>3. /\ Head(asked) \in 1..Len(stored) /\ Len(stored) \in 1..Len(stored)
      /\ Head(asked) <= Len(stored)
  <2>1. Head(asked) \in 1..Len(stored)
    BY <1>1, <1>2
  <2>2. Len(stored) \in Nat
    BY DEF SessionInv
  <2> QED BY <2>1, <2>2
<1>4. asked' \in Seq(Nat) /\ \A i \in 1..Len(asked') : asked'[i] \in 1..Len(stored)
  BY <1>1, <1>2
<1>5. up
  BY <1>1 DEF SessionInv
<1>6. stored' = stored
  BY <1>1 DEF senderVars
<1>7. ReplayInv'
  BY <1>1, <1>3, <1>6 DEF ReplayInv
<1> QED BY <1>1, <1>4, <1>5, <1>6, <1>7 DEF SessionInv, senderVars, receiverVars

\* What is replayed is what is stored, and a fill covers no item.
LEMMA ResendStep ==
  ASSUME SessionInv, Resend
  PROVE  SessionInv'
<1>1. PICK from, to \in 1..Len(stored) : from <= to /\ replay = [from |-> from, to |-> to]
  BY DEF Resend, SessionInv, ReplayInv
<1>2. PICK left, items, kept :
        /\ left = from..to
        /\ items = {i \in left : IsItem(stored[i])} /\ kept = {i \in left : stored[i] # Hole}
        /\ \/ \E i \in items :
                /\ \A j \in items : i <= j
                /\ IF i = from
                   THEN /\ net' = Append(net, Message(i, stored[i], TRUE, 0))
                        /\ replay' = IF i = to THEN NoReplay ELSE [replay EXCEPT !.from = i + 1]
                   ELSE /\ net' = Append(net, GapFill(from, i - 1))
                        /\ replay' = [replay EXCEPT !.from = i]
           \/ /\ items = {}
              /\ \E i \in kept : net' = Append(net, GapFill(from, i))
              /\ replay' = NoReplay
  BY <1>1 DEF Resend
<1>3. /\ UNCHANGED <<app, senderVars, up, asked, receiverVars, mem, base, first>>
      /\ up /\ Len(stored) \in Nat /\ stored \in Seq(Entry) /\ stored' = stored
  BY DEF Resend, SessionInv, senderVars
<1>4. ASSUME NEW i \in items
      PROVE  i \in from..to /\ stored[i] \in Entry /\ IsItem(stored[i])
  BY <1>1, <1>2, <1>3, <1>4
<1>5. ASSUME NEW last \in from..to, \A i \in items : last < i
      PROVE  GapFill(from, last) \in Msg /\ Faithful(GapFill(from, last), stored)
             /\ GapFill(from, last).dup
  <2>1. PICK m : m = GapFill(from, last)
    OBVIOUS
  <2>2. /\ m \in Msg /\ m.num = from /\ m.body = Admin /\ m.dup /\ m.fill = last + 1
        /\ last + 1 # 0
    BY <1>1, <1>5, <2>1 DEF GapFill, Message, Msg, Entry
  <2>3. \A i \in from..last : ~ IsItem(stored[i])
    BY <1>1, <1>2, <1>5
  <2> QED BY <1>1, <1>3, <1>5, <2>1, <2>2, <2>3, Entries DEF Faithful, End
<1>6. \E m \in Msg : Faithful(m, stored) /\ m.dup /\ net' = Append(net, m)
  <2>1. ASSUME NEW i \in items, \A j \in items : i <= j, i # from,
               net' = Append(net, GapFill(from, i - 1))
        PROVE  \E m \in Msg : Faithful(m, stored) /\ m.dup /\ net' = Append(net, m)
    <3>1. i - 1 \in from..to /\ \A j \in items : i - 1 < j
      BY <1>1, <1>2, <2>1
    <3> QED BY <1>5, <2>1, <3>1
  <2>2. ASSUME items = {}, NEW i \in kept, net' = Append(net, GapFill(from, i))
        PROVE  \E m \in Msg : Faithful(m, stored) /\ m.dup /\ net' = Append(net, m)
    BY <1>2, <1>5, <2>2
  <2>3. ASSUME from \in items, net' = Append(net, Message(from, stored[from], TRUE, 0))
        PROVE  \E m \in Msg : Faithful(m, stored) /\ m.dup /\ net' = Append(net, m)
    <3>1. stored[from] \in Entry /\ IsItem(stored[from])
      BY <1>4, <2>3
    <3>2. PICK m : m = Message(from, stored[from], TRUE, 0)
      OBVIOUS
    <3>3. m \in Msg /\ m.num = from /\ m.body = stored[from] /\ m.dup /\ m.fill = 0
      BY <1>1, <3>1, <3>2 DEF Message, Msg
    <3>4. Faithful(m, stored)
      BY <1>1, <1>3, <3>1, <3>3 DEF Faithful, End
    <3> QED BY <2>3, <3>2, <3>3, <3>4
  <2> QED BY <1>2, <2>1, <2>2, <2>3
<1>7. LineOK(net', stash, next, base, stored)
  BY <1>6, LineAppend DEF SessionInv
<1>8. ReplayInv'
  <2>1. ASSUME NEW i \in items,
               \/ replay' = NoReplay
               \/ i # to /\ replay' = [replay EXCEPT !.from = i + 1]
               \/ replay' = [replay EXCEPT !.from = i]
        PROVE  ReplayInv'
    <3>1. i \in from..to
      BY <1>2
    <3>2. CASE i # to /\ replay' = [replay EXCEPT !.from = i + 1]
      <4>1. i + 1 \in 1..Len(stored) /\ i + 1 <= to /\ replay' = [from |-> i + 1, to |-> to]
        BY <1>1, <3>1, <3>2
      <4> QED BY <1>1, <1>3, <4>1 DEF ReplayInv
    <3>3. CASE replay' = [replay EXCEPT !.from = i]
      <4>1. i \in 1..Len(stored) /\ i <= to /\ replay' = [from |-> i, to |-> to]
        BY <1>1, <3>1, <3>3
      <4> QED BY <1>1, <1>3, <4>1 DEF ReplayInv
    <3> QED BY <2>1, <3>2, <3>3 DEF ReplayInv
  <2>2. replay' = NoReplay => ReplayInv'
    BY DEF ReplayInv
  <2> QED BY <1>2, <2>1, <2>2
<1> QED BY <1>3, <1>7, <1>8 DEF SessionInv, senderVars, receiverVars

LEMMA Arriving ==
  ASSUME SessionInv, NEW m \in Pending
  PROVE  /\ m \in Msg /\ Faithful(m, stored) /\ (~ m.dup => base < m.num)
         /\ Unstashing => m \in stash /\ m.num = next
         /\ ~ Unstashing => /\ net # << >> /\ m = Head(net)
                            /\ LineOK(Tail(net), stash, next, base, stored)
                            /\ LineOK(Tail(net), stash \cup {m}, next, base, stored)
         /\ m.num = next =>
              LineOK(IF Unstashing THEN net ELSE Tail(net),
                     IF Unstashing THEN stash \ {m} ELSE stash, End(m), base, stored)
<1>1. LineOK(net, stash, next, base, stored)
  BY DEF SessionInv
<1>2. CASE Unstashing
  <2>1. m \in stash /\ m.num = next
    BY <1>2 DEF Pending
  <2> QED BY <1>1, <1>2, <2>1, LineKept
<1>3. CASE ~ Unstashing
  <2>1. net \in Seq(Msg)
    BY <1>1 DEF LineOK
  <2>2. PICK i \in {1} \cap DOMAIN net : m = net[i]
    BY <1>3 DEF Pending
  <2>3. net # << >> /\ m = Head(net)
    BY <2>1, <2>2
  <2>4. /\ m \in Msg /\ Faithful(m, stored) /\ (~ m.dup => base < m.num)
        /\ LineOK(Tail(net), stash, next, base, stored)
        /\ LineOK(Tail(net), stash \cup {m}, next, base, stored)
    BY <1>1, <2>3, LineTail
  <2>5. m.num = next => LineOK(Tail(net), stash, End(m), base, stored)
    BY <1>1, <2>3, LineTail
  <2> QED BY <1>3, <2>3, <2>4, <2>5
<1> QED BY <1>2, <1>3

LEMMA FromAppStep ==
  ASSUME SessionInv, NEW m \in Pending, FromApp(m)
  PROVE  SessionInv' /\ next \in ItemNums(stored) /\ m.body = stored[next] /\ up
<1>1. /\ reading' = TRUE /\ m.num = next /\ IsItem(m.body)
      /\ UNCHANGED <<app, senderVars, lineVars, next, resendEnd, stash, base, first>>
  BY DEF FromApp
<1>2. next \in ItemNums(stored) /\ m.body = stored[next]
  <2>1. Faithful(m, stored) /\ stored \in Seq(Entry)
    BY Arriving DEF SessionInv
  <2>2. next \in 1..Len(stored) /\ m.body = stored[next]
    BY <1>1, <2>1 DEF Faithful
  <2> QED BY <1>1, <2>1, <2>2 DEF ItemNums
<1>3. up
  BY Arriving DEF SessionInv, Unstashing
<1> QED BY <1>1, <1>2, <1>3 DEF SessionInv, ReplayInv, senderVars, lineVars

\* Only FromApp counts as reading an item, and nothing else passes one.
LEMMA CountStep ==
  ASSUME SessionInv, NEW m \in Pending, Count(m)
  PROVE  /\ SessionInv' /\ ~ reading'
         /\ reading => next \in ItemNums(stored) /\ next' = next + 1
         /\ ~ reading => next < next' /\ \A i \in next..(next' - 1) : i \notin ItemNums(stored)
<1>1. /\ m.num = next /\ reading' = FALSE /\ next' = End(m)
      /\ net' = IF Unstashing THEN net ELSE Tail(net)
      /\ stash' = IF Unstashing THEN stash \ {m} ELSE stash
      /\ UNCHANGED <<app, senderVars, up, asked, replay, resendEnd, mem, base, first>>
      /\ reading \/ ~ IsItem(m.body)
  BY DEF Count, Consume, End
<1>2. LineOK(net', stash', next', base, stored) /\ Faithful(m, stored)
  BY <1>1, Arriving
<1>3. next' \in (next + 1)..(Len(stored) + 1) /\ next \in 1..Len(stored) /\ Len(stored) \in Nat
  BY <1>1, <1>2 DEF Faithful, SessionInv
<1>4. up
  BY Arriving DEF SessionInv, Unstashing
<1>5. resendEnd = 0 => stash' = {}
  BY <1>1 DEF SessionInv
<1>6. SessionInv'
  <2>1. next' \in 1..(Len(stored) + 1)
    BY <1>3
  <2> QED BY <1>1, <1>2, <1>4, <1>5, <2>1 DEF SessionInv, ReplayInv, senderVars
<1>7. reading => next \in ItemNums(stored) /\ next' = next + 1
  <2>1. reading => next \in ItemNums(stored) /\ IsItem(stored[next])
    BY DEF SessionInv, ItemNums
  <2>2. IsItem(stored[next]) => IsItem(m.body)
    BY <1>1, <1>2, <1>3 DEF Faithful
  <2> QED BY <1>1, <1>2, <2>1, <2>2 DEF Faithful, End
<1>8. ~ reading => \A i \in next..(next' - 1) : i \notin ItemNums(stored)
  BY <1>1, <1>2 DEF Faithful, ItemNums
<1> QED BY <1>1, <1>3, <1>6, <1>7, <1>8

LEMMA TooHighStep ==
  ASSUME SessionInv, NEW m \in Pending, TooHigh(m)
  PROVE  SessionInv'
<1>1. /\ m.num > next /\ net' = Tail(net) /\ stash' \in {stash, stash \cup {m}}
      /\ UNCHANGED <<app, senderVars, up, replay, next, reading, mem, base, first>>
  BY DEF TooHigh
<1>2. /\ next \in 1..Len(stored) /\ m.num - 1 \in 1..Len(stored)
  <2>1. next \in 1..(Len(stored) + 1) /\ Len(stored) \in Nat
    BY DEF SessionInv
  <2>2. m.num \in 1..Len(stored)
    BY Arriving DEF Faithful
  <2> QED BY <1>1, <2>1, <2>2
<1>3. ~ Unstashing /\ up
  <2>1. m.num # next
    BY <1>1, <1>2
  <2>2. ~ Unstashing /\ net # << >>
    BY <2>1, Arriving
  <2> QED BY <2>2 DEF SessionInv
<1>4. LineOK(net', stash', next, base, stored)
  BY <1>1, <1>3, Arriving
<1>5. /\ asked' \in Seq(Nat) /\ \A i \in 1..Len(asked') : asked'[i] \in 1..Len(stored)
      /\ resendEnd' \in 1..Len(stored)
  <2>1. asked \in Seq(Nat) /\ \A i \in 1..Len(asked) : asked[i] \in 1..Len(stored)
    BY DEF SessionInv
  <2>2. CASE resendEnd = 0
    <3>1. asked' = Append(asked, next) /\ resendEnd' = m.num - 1
      BY <2>2 DEF TooHigh
    <3> QED BY <1>2, <2>1, <3>1
  <2>3. CASE resendEnd # 0
    BY <2>1, <2>3 DEF TooHigh, SessionInv
  <2> QED BY <2>2, <2>3
<1> QED BY <1>1, <1>3, <1>4, <1>5 DEF SessionInv, ReplayInv, senderVars

LEMMA DuplicateStep ==
  ASSUME SessionInv, NEW m \in Pending, Duplicate(m)
  PROVE  SessionInv' /\ m.dup
<1>1. /\ m.num < next /\ net' = Tail(net)
      /\ UNCHANGED <<app, senderVars, up, asked, replay, receiverVars, mem, base, first>>
  BY DEF Duplicate
<1>2. m.num \in Nat /\ next \in Nat
  <2>1. m \in Msg
    BY Arriving
  <2>2. next \in 1..(Len(stored) + 1) /\ Len(stored) \in Nat
    BY DEF SessionInv
  <2> QED BY <2>1, <2>2 DEF Msg
<1>3. ~ Unstashing /\ net # << >> /\ m = Head(net) /\ up
  <2>1. m.num # next
    BY <1>1, <1>2
  <2>2. ~ Unstashing /\ net # << >> /\ m = Head(net)
    BY <2>1, Arriving
  <2> QED BY <2>2 DEF SessionInv
<1>4. LineOK(net', stash, next, base, stored)
  BY <1>1, <1>3, Arriving
<1>5. m.dup
  <2>1. ~ m.dup => next <= m.num
    BY <1>3, LineTail DEF SessionInv
  <2> QED BY <1>1, <1>2, <2>1
<1> QED BY <1>1, <1>3, <1>4, <1>5 DEF SessionInv, ReplayInv, senderVars, receiverVars

LEMMA EndOfRangeStep ==
  ASSUME SessionInv, EndOfRange
  PROVE  SessionInv'
<1>1. /\ resendEnd' = 0 /\ stash' = {} /\ resendEnd # 0
      /\ UNCHANGED <<app, senderVars, lineVars, next, reading, mem, base, first>>
  BY DEF EndOfRange, Unstashing
<1>2. LineOK(net, {}, next, base, stored) /\ up
  BY <1>1, LineFewer DEF SessionInv
<1> QED BY <1>1, <1>2 DEF SessionInv, ReplayInv, senderVars, lineVars

\* The line is cut.
LEMMA CutStep ==
  ASSUME SessionInv, Cut, UNCHANGED <<app, senderVars, next, base>>
  PROVE  SessionInv'
<1>1. /\ up' = FALSE /\ net' = << >> /\ asked' = << >> /\ replay' = NoReplay
      /\ resendEnd' = 0 /\ stash' = {} /\ reading' = FALSE
  BY DEF Cut
<1>2. LineOK(net', stash', next, base, stored)
  BY <1>1, LineEmpty
<1>3. asked' \in Seq(Nat) /\ (\A i \in 1..Len(asked') : asked'[i] \in 1..Len(stored))
      /\ resendEnd' \in 0..Len(stored)
  BY <1>1 DEF SessionInv
<1> QED BY <1>1, <1>2, <1>3 DEF SessionInv, ReplayInv, senderVars

----------------------------------------------------------------------------
(* What a step does to the items and to what the application was handed.    *)

\* The store grows by what is not an item.
Growth ==
    /\ counter' = counter /\ stored' \in Seq(Entry) /\ Prefix(stored, stored')
    /\ \A i \in (Len(stored) + 1)..Len(stored') : ~ IsItem(stored'[i])

Posting ==
    /\ UNCHANGED <<next, reading, mem, first>>
    /\ \E o \in Subjects : /\ counter' = counter + 1
                           /\ stored' = Append(stored, Item(counter + 1, o))

Staying ==
    /\ Growth
    /\ UNCHANGED <<mem, first>>
    /\ \/ next' = next /\ reading' = reading
       \/ /\ ~ reading' /\ next < next' /\ next' \in Nat
          /\ IF reading THEN next \in ItemNums(stored) /\ next' = next + 1
                        ELSE \A i \in next..(next' - 1) : i \notin ItemNums(stored')

Handing ==
    /\ UNCHANGED <<counter, stored, next, base, first>>
    /\ ~ reading /\ reading' /\ next \in ItemNums(stored)
    /\ \E m \in Pending : FromApp(m) /\ m.body = stored[next] /\ (~ m.dup => base < next)

Forgetting ==
    /\ UNCHANGED <<counter, stored, next>>
    /\ ~ reading' /\ Forget

StepKind == app' = app /\ (Posting \/ Staying \/ Handing \/ Forgetting)

LEMMA Standing ==
  ASSUME SessionInv, UNCHANGED <<counter, stored, next, reading, mem, first>>
  PROVE  Staying
<1>1. Len(stored) \in Nat /\ stored \in Seq(Entry)
  BY DEF SessionInv
<1>2. Growth
  BY <1>1 DEF Growth, Prefix
<1> QED BY <1>2 DEF Staying

LEMMA AdminGrowth ==
  ASSUME SessionInv, stored' = Append(stored, Admin), counter' = counter
  PROVE  Growth
<1>1. Admin \in Entry
  BY DEF Entry
<1>2. /\ stored' \in Seq(Entry) /\ Len(stored') = Len(stored) + 1 /\ Len(stored) \in Nat
      /\ stored'[Len(stored')] = Admin /\ Prefix(stored, stored')
  BY <1>1, Storing
<1> QED BY <1>2, Entries DEF Growth

\* The Logon and the Logout of a receiver that has read all else.
LEMMA ReadingAdmin ==
  ASSUME SessionInv, stored' = Append(stored, Admin), next = Len(stored'), next' = next + 1,
         UNCHANGED <<counter, mem, first, reading>>
  PROVE  Staying
<1>1. Growth
  BY AdminGrowth
<1>2. /\ Admin \in Entry /\ next \in Nat /\ stored \in Seq(Entry) /\ next = Len(stored) + 1
  BY DEF SessionInv, Entry
<1>3. next \notin ItemNums(stored) /\ next \notin ItemNums(stored')
  BY <1>2, Entries DEF ItemNums
<1>4. ~ reading
  BY <1>3 DEF SessionInv
<1> QED BY <1>1, <1>2, <1>3, <1>4 DEF Staying

LEMMA Steps == ASSUME SessionInv, [Next]_vars PROVE SessionInv' /\ StepKind
<1>1. ASSUME NEW o \in Subjects, Post(o) PROVE SessionInv' /\ StepKind
  <2>1. Posting /\ app' = app
    BY <1>1 DEF Post, Posting, Number, receiverVars
  <2> QED BY <1>1, <2>1, PostStep DEF StepKind
<1>2. ASSUME NEW n \in GapSizes, AdvanceSeqNum(n) PROVE SessionInv' /\ StepKind
  <2>1. Growth /\ app' = app /\ SessionInv'
    BY <1>2, AdvanceStep DEF AdvanceSeqNum, Growth, SessionInv
  <2>2. UNCHANGED <<mem, first, next, reading>>
    BY <1>2 DEF AdvanceSeqNum, receiverVars
  <2> QED BY <2>1, <2>2 DEF StepKind, Staying
<1>3. ASSUME NEW arrives \in BOOLEAN, Logon(arrives) PROVE SessionInv' /\ StepKind
  <2>1. /\ stored' = Append(stored, Admin) /\ app' = app
        /\ UNCHANGED <<counter, mem, first, reading>>
        /\ \/ next' = next
           \/ next = Len(stored') /\ next' = next + 1
    BY <1>3 DEF Logon
  <2>2. Staying
    BY <2>1, AdminGrowth, ReadingAdmin DEF Staying
  <2> QED BY <1>3, <2>1, <2>2, LogonStep DEF StepKind
<1>4. CASE Heartbeat
  <2>1. /\ stored' = Append(stored, Admin) /\ app' = app
        /\ UNCHANGED <<counter, mem, first, next, reading>>
    BY <1>4 DEF Heartbeat, receiverVars
  <2> QED BY <1>4, <2>1, AdminGrowth, HeartbeatStep DEF StepKind, Staying
<1>5. CASE Logout
  <2>1. /\ stored' = Append(stored, Admin) /\ app' = app
        /\ UNCHANGED <<counter, mem, first, reading>>
        /\ next = Len(stored) + 1 /\ next' = next + 1
    BY <1>5 DEF Logout
  <2>2. Admin \in Entry
    BY DEF Entry
  <2>3. next = Len(stored')
    BY <2>1, <2>2, Storing
  <2> QED BY <1>5, <2>1, <2>3, ReadingAdmin, LogoutStep DEF StepKind
<1>6. CASE ResendRequest
  BY <1>6, ResendRequestStep, Standing DEF ResendRequest, senderVars, receiverVars, StepKind
<1>7. CASE Resend
  <2>1. UNCHANGED <<app, counter, stored, next, reading, mem, first>>
    BY <1>7 DEF Resend, senderVars, receiverVars
  <2> QED BY <1>7, <2>1, ResendStep, Standing DEF StepKind
<1>8. ASSUME NEW m \in Pending, FromApp(m) PROVE SessionInv' /\ StepKind
  <2>1. SessionInv' /\ next \in ItemNums(stored) /\ m.body = stored[next]
    BY <1>8, FromAppStep
  <2>2. ~ m.dup => base < next
    BY <1>8, Arriving DEF FromApp
  <2>3. UNCHANGED <<app, counter, stored, next, base, first>> /\ ~ reading /\ reading'
    BY <1>8 DEF FromApp, senderVars
  <2> QED BY <1>8, <2>1, <2>2, <2>3 DEF StepKind, Handing
<1>9. ASSUME NEW m \in Pending, Count(m) PROVE SessionInv' /\ StepKind
  <2>1. UNCHANGED <<app, counter, stored, mem, first>>
    BY <1>9 DEF Count, senderVars
  <2>2. Growth
    BY <2>1 DEF Growth, SessionInv, Prefix
  <2>3. /\ SessionInv' /\ ~ reading'
        /\ reading => next \in ItemNums(stored) /\ next' = next + 1
        /\ ~ reading => next < next' /\ \A i \in next..(next' - 1) : i \notin ItemNums(stored)
    BY <1>9, CountStep
  <2>4. next' \in Nat /\ next \in Nat
    <3>1. next \in Nat
      BY DEF SessionInv
    <3>2. next' \in 1..(Len(stored') + 1) /\ Len(stored') \in Nat
      BY <2>3 DEF SessionInv
    <3> QED BY <3>1, <3>2
  <2>5. next < next'
    <3>1. CASE reading
      BY <2>3, <2>4, <3>1
    <3>2. CASE ~ reading
      BY <2>3, <3>2
    <3> QED BY <3>1, <3>2
  <2>6. IF reading THEN next \in ItemNums(stored) /\ next' = next + 1
                   ELSE \A i \in next..(next' - 1) : i \notin ItemNums(stored')
    BY <2>1, <2>3
  <2>7. Staying
    BY <2>1, <2>2, <2>3, <2>4, <2>5, <2>6 DEF Staying
  <2> QED BY <2>1, <2>3, <2>7 DEF StepKind
<1>10. ASSUME NEW m \in Pending, TooHigh(m) PROVE SessionInv' /\ StepKind
  BY <1>10, TooHighStep, Standing DEF TooHigh, senderVars, StepKind
<1>11. ASSUME NEW m \in Pending, Duplicate(m) PROVE SessionInv' /\ StepKind
  BY <1>11, DuplicateStep, Standing DEF Duplicate, senderVars, receiverVars, StepKind
<1>12. CASE EndOfRange
  BY <1>12, EndOfRangeStep, Standing DEF EndOfRange, senderVars, StepKind
<1>13. CASE Disconnect
  <2>1. reading' = reading
    BY <1>13 DEF Disconnect, Cut, SessionInv
  <2> QED BY <1>13, <2>1, CutStep, Standing DEF Disconnect, senderVars, StepKind
<1>14. CASE Rebuild
  <2>1. SessionInv'
    BY <1>14 DEF Rebuild, SessionInv, ReplayInv, senderVars, lineVars, receiverVars
  <2>2. ~ reading'
    BY <1>14 DEF Rebuild, SessionInv, receiverVars
  <2> QED BY <1>14, <2>1, <2>2 DEF Rebuild, StepKind, Forgetting, senderVars, receiverVars
<1>15. CASE Crash
  <2>1. ~ reading'
    BY <1>15 DEF Crash, Cut
  <2> QED BY <1>15, <2>1, CutStep DEF Crash, StepKind, Forgetting, senderVars
<1>16. CASE UNCHANGED vars
  <2>1. SessionInv'
    BY <1>16 DEF vars, SessionInv, ReplayInv, senderVars, lineVars, receiverVars
  <2> QED BY <1>16, <2>1, Standing DEF vars, senderVars, receiverVars, StepKind
<1> QED
  BY <1>1, <1>2, <1>3, <1>4, <1>5, <1>6, <1>7, <1>8, <1>9, <1>10, <1>11, <1>12, <1>13,
     <1>14, <1>15, <1>16 DEF Next, SenderStep, Receive

----------------------------------------------------------------------------
(* The sender's items.                                                      *)

ItemInv ==
    /\ \A i \in ItemNums(stored) : stored[i].no \in 1..counter
    /\ \A i, j \in ItemNums(stored) : i < j => stored[i].no < stored[j].no
    /\ Onto(stored)
    /\ app = "view" => \A i \in ItemNums(stored) : stored[i].order \in Orders

LEMMA InitItems == Init => ItemInv
<1> SUFFICES ASSUME Init PROVE ItemInv
  OBVIOUS
<1>1. ItemNums(stored) = {}
  BY DEF Init, ItemNums
<1>2. Onto(stored)
  BY <1>1, FS_EmptySet DEF Onto
<1> QED BY <1>1, <1>2 DEF ItemInv

LEMMA GrowthItems ==
  ASSUME SessionInv, ItemInv, Growth
  PROVE  /\ ItemNums(stored') = ItemNums(stored) /\ Items' = Items /\ Onto(stored')
         /\ \A n : ItemsBelow(stored', n) = ItemsBelow(stored, n)
         /\ \A i \in ItemNums(stored) : stored'[i] = stored[i]
<1>1. /\ ItemNums(stored') = ItemNums(stored) /\ ItemsOf(stored') = ItemsOf(stored)
      /\ Onto(stored') /\ \A n : ItemsBelow(stored', n) = ItemsBelow(stored, n)
  BY Growing DEF Growth, SessionInv, ItemInv
<1> QED BY <1>1 DEF Items, ItemNums, Growth, Prefix

LEMMA PostingItems ==
  ASSUME SessionInv, ItemInv, NEW o \in Subjects, counter' = counter + 1,
         stored' = Append(stored, Item(counter + 1, o))
  PROVE  /\ ItemNums(stored') = ItemNums(stored) \cup {Len(stored) + 1}
         /\ stored'[Len(stored) + 1] = Item(counter + 1, o)
         /\ \A i \in ItemNums(stored) : stored'[i] = stored[i] /\ i \in 1..Len(stored)
         /\ Items' = Append(Items, Item(counter + 1, o)) /\ Onto(stored')
         /\ ItemsBelow(stored', next) = ItemsBelow(stored, next)
         /\ Cardinality(ItemNums(stored')) = Cardinality(ItemNums(stored)) + 1
<1> DEFINE e == Item(counter + 1, o)
<1>1. e \in Entry /\ IsItem(e)
  <2>1. counter + 1 \in Nat /\ o \in AnyOrder
    BY ToSubjects DEF SessionInv
  <2> QED BY <2>1, Entries DEF Entry
<1> HIDE DEF e
<1>2. stored' = Append(stored, e) /\ stored \in Seq(Entry)
  BY DEF SessionInv, e
<1>3. /\ ItemNums(stored') = ItemNums(stored) \cup {Len(stored) + 1}
      /\ ItemsOf(stored') = Append(ItemsOf(stored), e) /\ Onto(stored')
      /\ Cardinality(ItemNums(stored')) = Cardinality(ItemNums(stored)) + 1
      /\ \A n \in 1..(Len(stored) + 1) : ItemsBelow(stored', n) = ItemsBelow(stored, n)
  BY <1>1, <1>2, Appending DEF ItemInv
<1>4. next \in 1..(Len(stored) + 1)
  BY DEF SessionInv
<1>5. /\ stored'[Len(stored) + 1] = e
      /\ \A i \in ItemNums(stored) : stored'[i] = stored[i] /\ i \in 1..Len(stored)
  BY <1>2 DEF ItemNums
<1> QED BY <1>3, <1>4, <1>5 DEF Items, e

LEMMA ItemStep ==
  ASSUME SessionInv, ItemInv, SessionInv', StepKind
  PROVE  ItemInv'
<1>1. CASE Posting
  <2>1. PICK o \in Subjects : /\ counter' = counter + 1
                              /\ stored' = Append(stored, Item(counter + 1, o))
    BY <1>1 DEF Posting
  <2> DEFINE last == Len(stored) + 1
  <2>2. /\ ItemNums(stored') = ItemNums(stored) \cup {last}
        /\ stored'[last].no = counter + 1 /\ stored'[last].order = o
        /\ \A i \in ItemNums(stored) : stored'[i] = stored[i] /\ i < last
        /\ Onto(stored')
    BY <2>1, PostingItems, Entries
  <2>3. /\ counter \in Nat /\ last \in Nat /\ \A i \in ItemNums(stored) : i \in Nat
        /\ counter' = counter + 1
    BY <2>1 DEF SessionInv, ItemNums
  <2> HIDE DEF last
  <2>4. ASSUME NEW i \in ItemNums(stored') PROVE stored'[i].no \in 1..counter'
    <3>1. CASE i = last
      BY <2>2, <2>3, <3>1
    <3>2. CASE i \in ItemNums(stored)
      <4>1. stored'[i].no \in 1..counter
        BY <2>2, <3>2 DEF ItemInv
      <4> QED BY <2>3, <4>1
    <3> QED BY <2>2, <3>1, <3>2
  <2>5. ASSUME NEW i \in ItemNums(stored'), NEW j \in ItemNums(stored'), i < j
        PROVE  stored'[i].no < stored'[j].no
    <3>1. i \in ItemNums(stored)
      BY <2>2, <2>3, <2>5
    <3>2. CASE j = last
      BY <2>2, <2>3, <3>1, <3>2 DEF ItemInv
    <3>3. CASE j \in ItemNums(stored)
      BY <2>2, <2>5, <3>1, <3>3 DEF ItemInv
    <3> QED BY <2>2, <3>2, <3>3
  <2>6. app' = "view" => \A i \in ItemNums(stored') : stored'[i].order \in Orders
    BY <2>2, ToSubjects DEF ItemInv, StepKind
  <2> QED BY <2>2, <2>4, <2>5, <2>6 DEF ItemInv
<1>2. CASE Growth
  BY <1>2, GrowthItems DEF ItemInv, Growth, StepKind
<1>3. CASE Handing \/ Forgetting
  BY <1>3 DEF Handing, Forgetting, ItemInv, StepKind
<1> QED BY <1>1, <1>2, <1>3 DEF StepKind, Staying

----------------------------------------------------------------------------
(* The receiving application.                                               *)

\* v is the last number about o among items[from..to].
Latest(items, from, to, o, v) ==
    \/ v = 0 /\ \A i \in from..to : items[i].order # o
    \/ \E i \in from..to : /\ items[i].order = o /\ v = items[i].no
                           /\ \A j \in (i + 1)..to : items[j].order # o

\* The application has kept items[from..to], and turned none away.
Complete(items, from, to, m) ==
    /\ Len(m.kept) = to + 1 - from
    /\ \A i \in 1..Len(m.kept) : m.kept[i].no = items[from + i - 1].no
    /\ m.refused = 0

Memory == [view : [Orders -> Nat], replays : Nat, refused : Nat,
           kept : Seq([no : Nat, order : AnyOrder, replayed : BOOLEAN])]

MemoryInv ==
    /\ first \in 1..(ItemsBelow(stored, next) + 1)
    /\ mem \in Memory
    /\ app = "view" => \A o \in Orders : Latest(Items, first, Handed, o, mem.view[o])
    /\ app # "view" => Complete(Items, first, Handed, mem)

Inv == SessionInv /\ ItemInv /\ MemoryInv

\* Handed is how far the application has been handed the items.
LEMMA Position ==
  ASSUME SessionInv, ItemInv
  PROVE  /\ ItemsBelow(stored, next) \in Nat /\ Handed \in Nat
         /\ Handed = IF reading THEN ItemsBelow(stored, next) + 1 ELSE ItemsBelow(stored, next)
         /\ Handed <= Cardinality(ItemNums(stored)) /\ Cardinality(ItemNums(stored)) \in Nat
         /\ Items \in Seq(Entry) /\ Len(Items) = Cardinality(ItemNums(stored))
         /\ next \in ItemNums(stored) =>
              /\ Items[ItemsBelow(stored, next) + 1] = stored[next]
              /\ ItemsBelow(stored, next) + 1 <= Cardinality(ItemNums(stored))
<1>1. stored \in Seq(Entry) /\ Onto(stored) /\ (reading => next \in ItemNums(stored))
  BY DEF SessionInv, ItemInv
<1>2. /\ ItemsBelow(stored, next) \in Nat /\ Cardinality(ItemNums(stored)) \in Nat
      /\ ItemsBelow(stored, next) <= Cardinality(ItemNums(stored))
  BY <1>1, Counting
<1>3. next \in ItemNums(stored) =>
        /\ Items[ItemsBelow(stored, next) + 1] = stored[next]
        /\ ItemsBelow(stored, next) + 1 \in 1..Cardinality(ItemNums(stored))
  BY <1>1, Ranking, Finding DEF Items
<1>4. Items \in Seq(Entry) /\ Len(Items) = Cardinality(ItemNums(stored))
  BY <1>1, Placing DEF Items
<1>5. Handed = IF reading THEN ItemsBelow(stored, next) + 1 ELSE ItemsBelow(stored, next)
  BY <1>2 DEF Handed
<1> QED BY <1>1, <1>2, <1>3, <1>4, <1>5

\* Counting an item, or passing what is none, hands out nothing.
LEMMA StayingHanded ==
  ASSUME SessionInv, ItemInv, SessionInv', ItemInv', Staying
  PROVE  /\ Items' = Items /\ Handed' = Handed
         /\ ItemsBelow(stored, next) <= ItemsBelow(stored', next')
<1>1. /\ Items' = Items /\ ItemNums(stored') = ItemNums(stored)
      /\ \A n : ItemsBelow(stored', n) = ItemsBelow(stored, n)
  BY GrowthItems DEF Staying
<1>2. next \in Nat /\ next' \in Nat /\ stored' \in Seq(Entry) /\ stored \in Seq(Entry)
  <2>1. next \in Nat /\ stored \in Seq(Entry)
    BY DEF SessionInv
  <2> QED BY <2>1 DEF Staying, Growth
<1>3. ItemsBelow(stored, next) \in Nat /\ (Handed)' = ItemsBelow(stored', next')
                                                     + (IF reading' THEN 1 ELSE 0)
  BY Position DEF Handed
<1>4. CASE next' = next /\ reading' = reading
  BY <1>1, <1>3, <1>4 DEF Handed
<1>5. CASE ~ reading' /\ reading /\ next \in ItemNums(stored) /\ next' = next + 1
  <2>1. ItemsBelow(stored, next + 1) = ItemsBelow(stored, next) + 1
    BY <1>2, <1>5, Passing
  <2>2. ItemsBelow(stored', next') = ItemsBelow(stored, next + 1)
    BY <1>1, <1>5
  <2> QED BY <1>1, <1>3, <1>5, <2>1, <2>2 DEF Handed
<1>6. CASE ~ reading' /\ ~ reading /\ next < next'
           /\ \A i \in next..(next' - 1) : i \notin ItemNums(stored')
  <2>1. ItemsBelow(stored', next') = ItemsBelow(stored', next)
    <3>1. next <= next'
      BY <1>2, <1>6
    <3>2. \A i \in next..(next' - 1) : i \notin ItemNums(stored')
      BY <1>6
    <3> QED BY <1>2, <3>1, <3>2, Skipping
  <2>2. ItemsBelow(stored', next') = ItemsBelow(stored, next)
    BY <1>1, <2>1
  <2> QED BY <1>1, <1>3, <1>6, <2>2 DEF Handed
<1> QED BY <1>4, <1>5, <1>6 DEF Staying

LEMMA Told ==
  ASSUME NEW from \in Nat \ {0}, NEW to \in Nat, from <= to + 1, NEW items, NEW more,
         \A i \in from..to : more[i] = items[i]
  PROVE  /\ \A o, v : Latest(items, from, to, o, v) => Latest(more, from, to, o, v)
         /\ \A m \in Memory : Complete(items, from, to, m) => Complete(more, from, to, m)
<1>1. ASSUME NEW o, NEW v, Latest(items, from, to, o, v) PROVE Latest(more, from, to, o, v)
  <2>1. CASE \E i \in from..to : /\ items[i].order = o /\ v = items[i].no
                                 /\ \A j \in (i + 1)..to : items[j].order # o
    <3>1. PICK i \in from..to : /\ items[i].order = o /\ v = items[i].no
                                /\ \A j \in (i + 1)..to : items[j].order # o
      BY <2>1
    <3>2. \A j \in (i + 1)..to : j \in from..to
      OBVIOUS
    <3> QED BY <3>1, <3>2 DEF Latest
  <2> QED BY <1>1, <2>1 DEF Latest
<1>2. ASSUME NEW m \in Memory, Complete(items, from, to, m) PROVE Complete(more, from, to, m)
  <2>1. \A i \in 1..Len(m.kept) : from + i - 1 \in from..to
    BY <1>2 DEF Complete
  <2> QED BY <1>2, <2>1 DEF Complete
<1> QED BY <1>1, <1>2

LEMMA NextLatest ==
  ASSUME NEW from \in Nat \ {0}, NEW to \in Nat, from <= to + 1, NEW items, NEW o, NEW v,
         Latest(items, from, to, o, v)
  PROVE  Latest(items, from, to + 1, o,
                IF items[to + 1].order = o THEN items[to + 1].no ELSE v)
<1>1. CASE items[to + 1].order = o
  <2>1. to + 1 \in from..(to + 1) /\ (to + 1 + 1)..(to + 1) = {}
    OBVIOUS
  <2> QED BY <1>1, <2>1 DEF Latest
<1>2. CASE items[to + 1].order # o
  <2>1. \A i \in from..(to + 1) : i \in from..to \/ i = to + 1
    OBVIOUS
  <2>2. ASSUME NEW i \in from..to, items[i].order = o, v = items[i].no,
               \A j \in (i + 1)..to : items[j].order # o
        PROVE  i \in from..(to + 1) /\ \A j \in (i + 1)..(to + 1) : items[j].order # o
    <3>1. \A j \in (i + 1)..(to + 1) : j \in (i + 1)..to \/ j = to + 1
      OBVIOUS
    <3> QED BY <1>2, <2>2, <3>1
  <2> QED BY <1>2, <2>1, <2>2 DEF Latest
<1> QED BY <1>1, <1>2

\* Items are numbered upwards, so the next one has not been seen.
LEMMA NextItem ==
  ASSUME SessionInv, ItemInv, next \in ItemNums(stored), ~ reading
  PROVE  /\ Items[Handed + 1] = stored[next]
         /\ \A k \in 1..Handed : Items[k].no < stored[next].no
<1>1. /\ Handed = ItemsBelow(stored, next) /\ Handed \in Nat
      /\ Items[Handed + 1] = stored[next] /\ Handed + 1 <= Cardinality(ItemNums(stored))
      /\ Cardinality(ItemNums(stored)) \in Nat
  BY Position
<1>2. stored \in Seq(Entry) /\ Onto(stored) /\ \A i \in ItemNums(stored) : i \in Nat
  BY DEF SessionInv, ItemInv, ItemNums
<1>3. ASSUME NEW k \in 1..Handed PROVE Items[k].no < stored[next].no
  <2>1. k \in 1..Cardinality(ItemNums(stored))
    BY <1>1
  <2>2. PICK n \in ItemNums(stored) : ItemsBelow(stored, n) = k - 1 /\ Items[k] = stored[n]
    BY <1>2, <2>1, Placing DEF Items
  <2>3. ItemsBelow(stored, n) < ItemsBelow(stored, next)
    BY <1>1, <2>2
  <2>4. next < n => ItemsBelow(stored, next) < ItemsBelow(stored, n)
    BY <1>2, Ranking
  <2>5. n < next
    BY <1>1, <1>2, <2>2, <2>3, <2>4
  <2> QED BY <2>2, <2>5 DEF ItemInv
<1> QED BY <1>1, <1>3

\* m brings the item after items[to], with a number above theirs.
Follows(items, to, m) ==
    /\ m.body = items[to + 1] /\ m.body.no \in Nat /\ m.body.order \in AnyOrder
    /\ m.dup \in BOOLEAN
    /\ \A k \in 1..to : items[k].no \in Nat /\ items[k].no < m.body.no

LEMMA Keeping ==
  ASSUME NEW from \in Nat \ {0}, NEW to \in Nat, from <= to + 1, NEW items,
         NEW m, NEW old \in Memory, Complete(items, from, to, old), Follows(items, to, m)
  PROVE  /\ KeepItem(old, m) \in Memory /\ Complete(items, from, to + 1, KeepItem(old, m))
         /\ KeepItem(old, m).kept
              = Append(old.kept, [no |-> m.body.no, order |-> m.body.order,
                                  replayed |-> app = "copy" /\ Replayed(m)])
<1> DEFINE e   == [no |-> m.body.no, order |-> m.body.order,
                   replayed |-> app = "copy" /\ Replayed(m)]
           new == [old EXCEPT !.kept = Append(@, e)]
<1>1. /\ old.kept \in Seq([no : Nat, order : AnyOrder, replayed : BOOLEAN])
      /\ Len(old.kept) = to + 1 - from /\ Len(old.kept) \in Nat
      /\ \A i \in 1..Len(old.kept) : old.kept[i].no = items[from + i - 1].no
      /\ old.refused = 0
  <2>1. old.kept \in Seq([no : Nat, order : AnyOrder, replayed : BOOLEAN])
    BY DEF Memory
  <2>2. /\ Len(old.kept) = to + 1 - from /\ old.refused = 0
        /\ \A i \in 1..Len(old.kept) : old.kept[i].no = items[from + i - 1].no
    BY DEF Complete
  <2> QED BY <2>1, <2>2
<1>2. ~ Seen(old, m)
  <2>1. ASSUME NEW i \in 1..Len(old.kept) PROVE old.kept[i].no # m.body.no
    <3>1. from + i - 1 \in 1..to
      BY <1>1
    <3>2. items[from + i - 1].no < m.body.no /\ items[from + i - 1].no \in Nat
      BY <3>1 DEF Follows
    <3>3. m.body.no \in Nat
      BY DEF Follows
    <3> QED BY <1>1, <3>2, <3>3
  <2>2. DOMAIN old.kept = 1..Len(old.kept)
    BY <1>1
  <2> QED BY <2>1, <2>2 DEF Seen
<1>3. KeepItem(old, m) = new
  BY <1>2 DEF KeepItem
<1>4. e \in [no : Nat, order : AnyOrder, replayed : BOOLEAN] /\ e.no = items[to + 1].no
  BY DEF Replayed, Follows
<1> HIDE DEF e
<1>5. new \in Memory /\ new.kept = Append(old.kept, e) /\ new.refused = 0
  <2>1. PICK kept : kept = Append(old.kept, e)
    OBVIOUS
  <2>2. kept \in Seq([no : Nat, order : AnyOrder, replayed : BOOLEAN])
    BY <1>1, <1>4, <2>1
  <2>3. new = [old EXCEPT !.kept = kept]
    BY <2>1
  <2>4. new \in Memory /\ new.kept = kept /\ new.refused = old.refused
    BY <2>2, <2>3 DEF Memory
  <2> QED BY <1>1, <2>1, <2>4
<1> HIDE DEF new
<1>6. Complete(items, from, to + 1, new)
  <2>1. /\ Len(new.kept) = Len(old.kept) + 1
        /\ new.kept[Len(old.kept) + 1] = e
        /\ \A i \in 1..Len(old.kept) : new.kept[i] = old.kept[i]
    BY <1>1, <1>4, <1>5
  <2>2. Len(new.kept) = to + 1 + 1 - from
    BY <1>1, <2>1
  <2>3. ASSUME NEW i \in 1..Len(new.kept) PROVE new.kept[i].no = items[from + i - 1].no
    <3>1. CASE i = Len(old.kept) + 1
      <4>1. from + i - 1 = to + 1
        BY <1>1, <3>1
      <4> QED BY <1>4, <2>1, <3>1, <4>1
    <3>2. CASE i \in 1..Len(old.kept)
      BY <1>1, <2>1, <3>2
    <3>3. i = Len(old.kept) + 1 \/ i \in 1..Len(old.kept)
      BY <1>1, <2>1
    <3> QED BY <3>1, <3>2, <3>3
  <2> QED BY <1>5, <2>2, <2>3 DEF Complete
<1> QED BY <1>3, <1>5, <1>6 DEF e

LEMMA InitHanded ==
  ASSUME Init
  PROVE  /\ Cardinality(ItemNums(stored)) = 0
         /\ ItemsBelow(stored, next) = 0 /\ Handed = 0 /\ first = 1
<1>1. ItemNums(stored) = {} /\ Cardinality({}) = 0
  BY FS_EmptySet DEF Init, ItemNums
<1>2. {i \in ItemNums(stored) : i < next} = {}
  BY <1>1
<1>3. ItemsBelow(stored, next) = 0
  BY ONLY <1>1, <1>2 DEF ItemsBelow
<1>4. ~ reading /\ first = 1
  BY DEF Init
<1> QED BY ONLY <1>1, <1>3, <1>4 DEF Handed

LEMMA InitMemory == Init => MemoryInv
<1> SUFFICES ASSUME Init PROVE MemoryInv
  OBVIOUS
<1>1. ItemsBelow(stored, next) = 0 /\ Handed = 0 /\ first = 1
  BY InitHanded
<1>2. mem \in Memory /\ (\A o \in Orders : mem.view[o] = 0) /\ mem.kept = << >> /\ mem.refused = 0
  BY DEF Init, NewMemory, Memory
<1>3. \A o \in Orders : Latest(Items, first, Handed, o, mem.view[o])
  BY <1>1, <1>2 DEF Latest
<1>4. Complete(Items, first, Handed, mem)
  BY <1>1, <1>2 DEF Complete
<1> QED BY <1>1, <1>2, <1>3, <1>4 DEF MemoryInv

\* A new memory has been told nothing.
LEMMA Fresh ==
  ASSUME NEW from \in Nat \ {0}, NEW items
  PROVE  /\ NewMemory \in Memory
         /\ \A o \in Orders : Latest(items, from, from - 1, o, NewMemory.view[o])
         /\ Complete(items, from, from - 1, NewMemory)
<1>1. /\ NewMemory \in Memory /\ (\A o \in Orders : NewMemory.view[o] = 0)
      /\ NewMemory.kept = << >> /\ NewMemory.refused = 0
  BY DEF NewMemory, Memory
<1> QED BY <1>1 DEF Latest, Complete

LEMMA PostingMemory ==
  ASSUME Inv, SessionInv', ItemInv', Posting, app' = app
  PROVE  MemoryInv' /\ Handed' = Handed
<1>1. PICK o \in Subjects : /\ counter' = counter + 1
                            /\ stored' = Append(stored, Item(counter + 1, o))
  BY DEF Posting
<1>2. /\ Items' = Append(Items, Item(counter + 1, o))
      /\ ItemsBelow(stored', next) = ItemsBelow(stored, next)
  BY <1>1, PostingItems DEF Inv
<1>3. UNCHANGED <<next, reading, mem, first>>
  BY DEF Posting
<1>4. Handed' = Handed /\ ItemsBelow(stored', next') = ItemsBelow(stored, next)
  BY <1>2, <1>3 DEF Handed
<1>5. /\ first \in Nat \ {0} /\ Handed \in Nat /\ first <= Handed + 1
      /\ Handed <= Len(Items) /\ Items \in Seq(Entry)
  BY Position DEF Inv, MemoryInv
<1>6. \A i \in first..Handed : Items'[i] = Items[i]
  BY <1>2, <1>5
<1>7. /\ \A p, v : Latest(Items, first, Handed, p, v) => Latest(Items', first, Handed, p, v)
      /\ \A m \in Memory : Complete(Items, first, Handed, m) => Complete(Items', first, Handed, m)
  BY <1>5, <1>6, Told
<1> QED BY <1>3, <1>4, <1>7 DEF Inv, MemoryInv

LEMMA StayingMemory ==
  ASSUME Inv, SessionInv', ItemInv', Staying, app' = app
  PROVE  MemoryInv'
<1>1. /\ Items' = Items /\ Handed' = Handed /\ mem' = mem /\ first' = first
      /\ ItemsBelow(stored, next) <= ItemsBelow(stored', next')
  BY StayingHanded DEF Inv, Staying
<1>2. ItemsBelow(stored, next) \in Nat /\ ItemsBelow(stored', next') \in Nat
  BY Counting DEF Inv, SessionInv
<1>3. first' \in 1..(ItemsBelow(stored', next') + 1)
  BY <1>1, <1>2 DEF Inv, MemoryInv
<1> QED BY <1>1, <1>3 DEF Inv, MemoryInv

LEMMA HandingCopy ==
  ASSUME Inv, app # "view", NEW m \in Pending, FromApp(m)
  PROVE  /\ mem' \in Memory /\ Complete(Items, first, Handed + 1, mem')
         /\ mem'.kept = Append(mem.kept, [no |-> m.body.no, order |-> m.body.order,
                                         replayed |-> app = "copy" /\ Replayed(m)])
<1>1. /\ mem' = KeepItem(mem, m) /\ ~ reading
      /\ next \in ItemNums(stored) /\ m.body = stored[next]
  BY FromAppStep DEF FromApp, Inv
<1>2. /\ first \in Nat \ {0} /\ Handed \in Nat /\ first <= Handed + 1 /\ mem \in Memory
      /\ Complete(Items, first, Handed, mem)
  BY Position DEF Inv, MemoryInv
<1>3. /\ Items[Handed + 1] = stored[next]
      /\ \A k \in 1..Handed : Items[k].no < stored[next].no
  BY <1>1, NextItem DEF Inv
<1>4. stored[next].no \in Nat /\ stored[next].order \in AnyOrder
  BY <1>1, Entries DEF ItemNums, Inv, SessionInv
<1>5. m.dup \in BOOLEAN
  BY Arriving DEF Msg, Inv
<1>6. \A k \in 1..Handed : Items[k].no \in Nat
  <2>1. /\ Handed <= Cardinality(ItemNums(stored)) /\ Cardinality(ItemNums(stored)) \in Nat
        /\ stored \in Seq(Entry) /\ Onto(stored)
    BY Position DEF Inv, SessionInv, ItemInv
  <2>2. ASSUME NEW k \in 1..Handed PROVE Items[k].no \in Nat
    <3>1. k \in 1..Cardinality(ItemNums(stored))
      BY <1>2, <2>1
    <3>2. PICK n \in ItemNums(stored) : Items[k] = stored[n]
      BY <2>1, <3>1, Placing DEF Items
    <3> QED BY <2>1, <3>2, Entries DEF ItemNums
  <2> QED BY <2>2
<1>7. /\ m.body = Items[Handed + 1] /\ m.body.no \in Nat /\ m.body.order \in AnyOrder
      /\ \A k \in 1..Handed : Items[k].no < m.body.no
  BY <1>1, <1>3, <1>4
<1>8. Follows(Items, Handed, m)
  BY <1>5, <1>6, <1>7 DEF Follows
<1>9. /\ KeepItem(mem, m) \in Memory /\ Complete(Items, first, Handed + 1, KeepItem(mem, m))
      /\ KeepItem(mem, m).kept
           = Append(mem.kept, [no |-> m.body.no, order |-> m.body.order,
                               replayed |-> app = "copy" /\ Replayed(m)])
  BY <1>2, <1>8, Keeping
<1> QED BY <1>1, <1>9

LEMMA HandingMemory ==
  ASSUME Inv, Handing, app' = app
  PROVE  MemoryInv' /\ Handed' = Handed + 1
<1>1. PICK m \in Pending : FromApp(m) /\ m.body = stored[next]
  BY DEF Handing
<1>2. /\ UNCHANGED <<stored, next, first>> /\ Items' = Items /\ Handed' = Handed + 1
      /\ ItemsBelow(stored', next') = ItemsBelow(stored, next)
  BY Position DEF Handing, Items, Handed, Inv
<1>3. /\ first \in Nat \ {0} /\ Handed \in Nat /\ first <= Handed + 1 /\ mem \in Memory
  BY Position DEF Inv, MemoryInv
<1>4. /\ Items[Handed + 1] = stored[next]
      /\ \A k \in 1..Handed : Items[k].no < stored[next].no
      /\ next \in ItemNums(stored)
  BY NextItem DEF Inv, Handing
<1>5. stored[next].no \in Nat /\ stored[next].order \in AnyOrder
  BY <1>4, Entries DEF ItemNums, Inv, SessionInv
<1>6. CASE app = "view"
  <2>1. mem' = ViewReport(mem, m)
    BY <1>1, <1>6 DEF FromApp
  <2>2. stored[next].order \in Orders
    BY <1>4, <1>6 DEF Inv, ItemInv
  <2>3. /\ mem' \in Memory
        /\ \A o \in Orders : mem'.view[o] = IF stored[next].order = o THEN stored[next].no
                                                                      ELSE mem.view[o]
    <3>1. PICK v, r : /\ v = [mem.view EXCEPT ![stored[next].order] = stored[next].no]
                      /\ r = IF Replayed(m) THEN mem.replays + 1 ELSE mem.replays
      OBVIOUS
    <3>2. mem' = [mem EXCEPT !.view = v, !.replays = r]
      BY <1>1, <2>1, <3>1 DEF ViewReport
    <3>3. v \in [Orders -> Nat] /\ r \in Nat
      BY <1>3, <1>5, <2>2, <3>1 DEF Memory
    <3>4. mem' \in Memory /\ mem'.view = v
      BY <1>3, <3>2, <3>3 DEF Memory
    <3>5. mem.view \in [Orders -> Nat]
      BY <1>3 DEF Memory
    <3> QED BY <2>2, <3>1, <3>4, <3>5
  <2>4. \A o \in Orders : Latest(Items, first, Handed + 1, o, mem'.view[o])
    BY <1>3, <1>4, <1>6, <2>3, NextLatest DEF Inv, MemoryInv
  <2> QED BY <1>2, <1>6, <2>3, <2>4 DEF Inv, MemoryInv
<1>7. CASE app # "view"
  <2>1. mem' \in Memory /\ Complete(Items, first, Handed + 1, mem')
    BY <1>1, <1>7, HandingCopy
  <2> QED BY <1>2, <1>7, <2>1 DEF Inv, MemoryInv
<1> QED BY <1>2, <1>6, <1>7

LEMMA ForgettingMemory ==
  ASSUME Inv, Forgetting, app' = app
  PROVE  MemoryInv'
<1>1. /\ mem' = NewMemory /\ first' = ItemsBelow(stored, next) + 1 /\ stored' = stored
      /\ next' = next /\ ~ reading' /\ Items' = Items
  BY DEF Forgetting, Forget, Items
<1>2. ItemsBelow(stored, next) \in Nat
  BY Position DEF Inv
<1>3. Handed' = first' - 1 /\ first' \in Nat \ {0}
  BY <1>1, <1>2 DEF Handed
<1>4. /\ mem' \in Memory
      /\ \A o \in Orders : Latest(Items', first', Handed', o, mem'.view[o])
      /\ Complete(Items', first', Handed', mem')
  BY <1>1, <1>3, Fresh
<1>5. first' \in 1..(ItemsBelow(stored', next') + 1)
  BY <1>1, <1>2
<1> QED BY <1>4, <1>5 DEF MemoryInv

LEMMA Invariance == Spec => []Inv
<1>1. Init => Inv
  BY InitSession, InitItems, InitMemory DEF Inv
<1>2. Inv /\ [Next]_vars => Inv'
  <2> SUFFICES ASSUME Inv, [Next]_vars PROVE Inv'
    OBVIOUS
  <2>1. SessionInv' /\ StepKind
    BY Steps DEF Inv
  <2>2. ItemInv'
    BY <2>1, ItemStep DEF Inv
  <2>3. MemoryInv'
    BY <2>1, <2>2, PostingMemory, StayingMemory, HandingMemory, ForgettingMemory DEF StepKind
  <2> QED BY <2>1, <2>2, <2>3 DEF Inv
<1> QED BY <1>1, <1>2, PTL DEF Spec

----------------------------------------------------------------------------
(* Theorems.                                                                *)

\* Numbers on the line, of a resend and of what is expected are those of the
\* store, and a session that is down has nothing under way.
THEOREM Typing == Spec => []TypeOK
<1>1. ASSUME Inv PROVE TypeOK
  <2>1. \A i \in DOMAIN stored : IsItem(stored[i]) => stored[i].no \in 1..counter
    BY <1>1 DEF Inv, ItemInv, ItemNums
  <2>2. \A i \in DOMAIN net : net[i].num \in 1..Len(stored)
    <3>1. net \in Seq(Msg) /\ \A i \in 1..Len(net) : Faithful(net[i], stored)
      BY <1>1 DEF Inv, SessionInv, LineOK
    <3> QED BY <3>1 DEF Faithful
  <2>3. replay.from \in 1..Len(stored) + 1
    BY <1>1 DEF Inv, SessionInv, ReplayInv, NoReplay
  <2>4. \A i \in DOMAIN asked : asked[i] \in 1..Len(stored)
    BY <1>1 DEF Inv, SessionInv
  <2> QED BY <1>1, <2>1, <2>2, <2>3, <2>4 DEF TypeOK, Inv, SessionInv
<1> QED BY <1>1, Invariance, PTL

\* No replay, gap, loss or late message makes the receiver meet a live number
\* below the one it expects.
THEOREM InSequence == Spec => []NeverTooLow
<1>1. ASSUME Inv PROVE NeverTooLow
  <2>1. LineOK(net, stash, next, base, stored) /\ next \in 1..(Len(stored) + 1)
        /\ Len(stored) \in Nat
    BY <1>1 DEF Inv, SessionInv
  <2>2. ASSUME NEW i \in DOMAIN net, net[i].num < next PROVE net[i].dup
    <3>1. net \in Seq(Msg)
      BY <2>1 DEF LineOK
    <3>2. i \in 1..Len(net) /\ net[i] \in Msg /\ next \in Nat
      BY <2>1, <3>1
    <3>3. net[i].num \in Nat
      BY <3>2 DEF Msg
    <3>4. ~ net[i].dup => next <= net[i].num
      BY <2>1, <3>2 DEF LineOK
    <3> QED BY <2>2, <3>2, <3>3, <3>4
  <2> QED BY <2>1, <2>2 DEF NeverTooLow
<1> QED BY <1>1, Invariance, PTL

\* OrderEntry's view of an order is the latest report about it that was handed
\* to this process, however the reports came.
THEOREM View == Spec => []ViewIsLatest
<1>1. ASSUME Inv, app = "view", NEW o \in Orders PROVE mem.view[o] = LatestOf(o)
  <2> DEFINE about == {i \in first..Handed : Items[i].order = o}
  <2>1. Latest(Items, first, Handed, o, mem.view[o]) /\ first \in Nat /\ Handed \in Nat
    BY <1>1, Position DEF Inv, MemoryInv
  <2>2. CASE about = {}
    <3>1. mem.view[o] = 0
      BY <2>1, <2>2 DEF Latest
    <3> QED BY <2>2, <3>1 DEF LatestOf
  <2>3. CASE about # {}
    <3>1. PICK i \in first..Handed : /\ Items[i].order = o /\ mem.view[o] = Items[i].no
                                     /\ \A j \in (i + 1)..Handed : Items[j].order # o
      BY <2>1, <2>3 DEF Latest
    <3>2. i \in about /\ \A j \in about : j <= i
      BY <2>1, <3>1
    <3>3. (CHOOSE k \in about : \A j \in about : j <= k) = i
      BY <2>1, <3>2
    <3> QED BY <2>3, <3>1, <3>3 DEF LatestOf
  <2> QED BY <2>2, <2>3
<1>2. Inv => ViewIsLatest
  BY <1>1 DEF ViewIsLatest
<1> QED BY <1>2, Invariance, PTL

\* DropCopy and the book keep every item handed to them, in order, and a
\* recovery shows them none twice.
THEOREM Copy == Spec => []CopyIsComplete
<1>1. ASSUME Inv, app # "view"
      PROVE  /\ [i \in DOMAIN mem.kept |-> mem.kept[i].no]
                  = [i \in 1..Handed + 1 - first |-> Items[first + i - 1].no]
             /\ mem.refused = 0
  <2>1. Complete(Items, first, Handed, mem) /\ mem \in Memory
    BY <1>1 DEF Inv, MemoryInv
  <2>2. DOMAIN mem.kept = 1..Len(mem.kept)
    BY <2>1 DEF Memory
  <2> QED BY <2>1, <2>2 DEF Complete
<1>2. Inv => CopyIsComplete
  BY <1>1 DEF CopyIsComplete
<1> QED BY <1>2, Invariance, PTL

\* What was sent before the connection's Logon is marked as history, also when
\* the client has never seen it.
THEOREM History == Spec => HistoryIsFlagged
<1>1. ASSUME Inv, NEW m \in Pending, FromApp(m), next < base
      PROVE  /\ app = "view" => mem'.replays = mem.replays + 1
             /\ app = "copy" => mem'.kept[Len(mem'.kept)].replayed
  <2>1. m.dup
    <3>1. ~ m.dup => base < next
      BY <1>1, Arriving DEF FromApp, Inv
    <3>2. next \in Int /\ base \in Int
      BY <1>1 DEF Inv, SessionInv
    <3> QED BY <1>1, <3>1, <3>2
  <2>2. Replayed(m) /\ mem \in Memory
    BY <1>1, <2>1 DEF Replayed, Inv, MemoryInv
  <2>3. CASE app = "view"
    <3>1. PICK v : v = [mem.view EXCEPT ![m.body.order] = m.body.no]
      OBVIOUS
    <3>2. mem' = [mem EXCEPT !.view = v, !.replays = mem.replays + 1]
      BY <1>1, <2>2, <2>3, <3>1 DEF FromApp, ViewReport
    <3> QED BY <2>2, <2>3, <3>2 DEF Memory
  <2>4. CASE app = "copy"
    <3>1. /\ mem' \in Memory
          /\ mem'.kept = Append(mem.kept, [no |-> m.body.no, order |-> m.body.order,
                                          replayed |-> app = "copy" /\ Replayed(m)])
      BY <1>1, <2>4, HandingCopy
    <3>2. PICK e : e = [no |-> m.body.no, order |-> m.body.order,
                        replayed |-> app = "copy" /\ Replayed(m)]
      OBVIOUS
    <3>3. e.replayed /\ mem'.kept = Append(mem.kept, e)
      BY <2>2, <2>4, <3>1, <3>2
    <3>4. mem.kept \in Seq([no : Nat, order : AnyOrder, replayed : BOOLEAN])
      BY <2>2 DEF Memory
    <3>5. mem'.kept[Len(mem'.kept)] = e
      <4>1. Len(mem'.kept) = Len(mem.kept) + 1
        BY <3>3, <3>4
      <4> QED BY <3>3, <3>4, <4>1
    <3> QED BY <2>4, <3>3, <3>5
  <2> QED BY <2>3, <2>4
<1>2. Inv => (\A m \in Pending : FromApp(m) /\ next < base =>
                 /\ app = "view" => mem'.replays = mem.replays + 1
                 /\ app = "copy" => mem'.kept[Len(mem'.kept)].replayed)
  BY <1>1
<1> QED BY <1>2, Invariance, PTL DEF HistoryIsFlagged

\* The session implements Delivery.
THEOREM Refinement == Spec => ImplementsDelivery
<1>1. Init => Ideal!Init
  <2> SUFFICES ASSUME Init PROVE Ideal!Init
    OBVIOUS
  <2>1. Cardinality(ItemNums(stored)) = 0 /\ Handed = 0 /\ first = 1
    BY InitHanded
  <2>2. Items \in Seq(Entry) /\ Len(Items) = 0
    BY <2>1, Position, InitSession, InitItems
  <2>3. Items = << >>
    BY <2>2
  <2> QED BY <2>1, <2>3 DEF Ideal!Init
<1>2. Inv /\ [Next]_vars => [Ideal!Next]_<<Items, first, Handed>>
  <2> SUFFICES ASSUME Inv, [Next]_vars
               PROVE  Ideal!Next \/ UNCHANGED <<Items, first, Handed>>
    OBVIOUS
  <2>1. SessionInv' /\ StepKind
    BY Steps DEF Inv
  <2>2. ItemInv'
    BY <2>1, ItemStep DEF Inv
  <2>3. CASE Posting
    <3>1. PICK o \in Subjects : Items' = Append(Items, Item(counter + 1, o))
      BY <2>3, PostingItems DEF Posting, Inv
    <3>2. Handed' = Handed /\ first' = first
      BY <2>1, <2>2, <2>3, PostingMemory DEF Posting, StepKind
    <3>3. Items \in Seq(Entry)
      BY Position DEF Inv
    <3>4. Len(Items) + 1 \in DOMAIN Items' /\ Items'[Len(Items) + 1] = Item(counter + 1, o)
      BY <3>1, <3>3
    <3> QED BY <3>1, <3>2, <3>4 DEF Ideal!Next, Ideal!Post
  <2>4. CASE Staying
    BY <2>1, <2>2, <2>4, StayingHanded DEF Inv, Staying
  <2>5. CASE Handing
    <3>1. Handed' = Handed + 1 /\ Items' = Items /\ first' = first
      BY <2>1, <2>5, HandingMemory DEF StepKind, Handing, Items
    <3>2. Handed < Len(Items)
      BY <2>5, Position DEF Handing, Inv
    <3> QED BY <3>1, <3>2 DEF Ideal!Next, Ideal!Hand
  <2>6. CASE Forgetting
    <3>1. /\ Items' = Items /\ first' = ItemsBelow(stored, next) + 1
          /\ Handed' = ItemsBelow(stored, next)
      BY <2>6, Position DEF Forgetting, Forget, Items, Handed, Inv
    <3>2. first <= ItemsBelow(stored, next) + 1 /\ first \in Nat
      BY Position DEF Inv, MemoryInv
    <3>3. \/ Handed = ItemsBelow(stored, next) + 1
          \/ Handed = ItemsBelow(stored, next)
      BY Position DEF Inv
    <3>4. Ideal!NewLife(TRUE) \/ Ideal!NewLife(FALSE)
      BY <3>1, <3>2, <3>3, Position DEF Ideal!NewLife, Inv
    <3> QED BY <3>4 DEF Ideal!Next
  <2> QED BY <2>1, <2>3, <2>4, <2>5, <2>6 DEF StepKind
<1> QED BY <1>1, <1>2, Invariance, PTL DEF Spec, ImplementsDelivery, Ideal!Spec
=============================================================================
