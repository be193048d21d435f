------------------------------ MODULE BillProofs ------------------------------
(***************************************************************************)
(* Proofs about SharedBill, for any tablets, orders, bills and keys: no    *)
(* piece is paid twice, nothing is invented by splitting lines, payments   *)
(* fit in their orders, moves happen once and never wait for each other.   *)
(***************************************************************************)
EXTENDS SharedBill, SumProofs

-----------------------------------------------------------------------------
(* Arithmetic of pieces and cents. *)

\* What holds of zero and of the next of each number holds up to N.
LEMMA CountUp ==
    ASSUME NEW N \in Nat, NEW B, 0 \in B,
           \A n \in 1..N : n - 1 \in B => n \in B
    PROVE  N \in B
  <1> DEFINE Bad == {n \in 0..N : n \notin B}
  <1>1. SUFFICES ASSUME Bad # {} PROVE FALSE
    OBVIOUS
  <1>2. \E n \in Bad : \A m \in Bad : ~ (<<m, n>> \in OpToRel(<, Nat))
    <2>1. Bad \subseteq Nat
      OBVIOUS
    <2> HIDE DEF Bad
    <2> QED  BY <1>1, <2>1, NatLessThanWellFounded, WFMin
  <1>3. PICK n \in Bad : \A m \in Bad : ~ (<<m, n>> \in OpToRel(<, Nat))
    BY <1>2
  <1>4. n # 0 /\ n - 1 \in 0..N /\ n - 1 < n /\ n \in 1..N
    OBVIOUS
  <1>5. <<n - 1, n>> \in OpToRel(<, Nat)
    BY <1>4 DEF OpToRel
  <1>6. n - 1 \notin Bad
    BY <1>3, <1>5
  <1> QED  BY <1>4, <1>6

\* Half of a number of half cents, rounded.
LEMMA HalfUp ==
    ASSUME NEW a \in Nat
    PROVE  /\ Rounded(a, 2) \in Nat
           /\ a <= 2 * Rounded(a, 2) /\ 2 * Rounded(a, 2) <= a + 1
           /\ a % 2 = 0 => 2 * Rounded(a, 2) = a
  BY DEF Rounded

\* A rounded share is an integer.
LEMMA RoundedInt ==
    ASSUME NEW a \in Int, NEW b \in Nat \ {0}
    PROVE  Rounded(a, b) \in Int
  BY DEF Rounded

\* What a line of q halves of a price u must still be worth: an odd price may have been rounded
\* up once for each half that left.
Worth(q, u, a) == IF u % 2 = 0 THEN 2 * a = q * u ELSE q <= u /\ q * u - (u - q) <= 2 * a

\* A multiple of an even price is even.
LEMMA EvenTimes ==
    ASSUME NEW k \in Nat, NEW u \in Nat, u % 2 = 0
    PROVE  (k * u) % 2 = 0
  <1>1. PICK v \in Nat : u = 2 * v
    BY u = 2 * (u \div 2)
  <1>2. k * u = 2 * (k * v)
    BY <1>1
  <1>3. \A w \in Nat : (2 * w) % 2 = 0
    OBVIOUS
  <1>4. k * v \in Nat
    OBVIOUS
  <1> QED  BY <1>2, <1>3, <1>4

\* A line is worth its pieces when it is made.
LEMMA WorthWhole ==
    ASSUME NEW q \in Nat \ {0}, NEW u \in Nat, u % 2 = 0 \/ q <= u
    PROVE  q * u \in Nat /\ Worth(q, u, Rounded(q * u, 2))
  <1>1. q * u \in Nat
    OBVIOUS
  <1>2. u % 2 = 0 => (q * u) % 2 = 0
    BY EvenTimes
  <1> DEFINE w == q * u
  <1>3. w \in Nat /\ (u % 2 = 0 => w % 2 = 0)
    BY <1>1, <1>2
  <1>4. IF u % 2 = 0 THEN 2 * Rounded(w, 2) = w ELSE q <= u /\ w - (u - q) <= 2 * Rounded(w, 2)
    <2> HIDE DEF w
    <2>1. /\ Rounded(w, 2) \in Nat /\ w <= 2 * Rounded(w, 2)
          /\ w % 2 = 0 => 2 * Rounded(w, 2) = w
      BY <1>3, HalfUp
    <2>2. PICK r \in Nat : r = Rounded(w, 2)
      BY <2>1
    <2> QED  BY <1>3, <2>1, <2>2
  <1> QED  BY <1>1, <1>4 DEF Worth

\* And so are the pieces that leave and those that stay, none of which is worth less than nothing.
LEMMA WorthSplit ==
    ASSUME NEW q \in Nat, NEW u \in Nat, NEW a \in Nat, Worth(q, u, a), NEW k \in 1..(q - 1)
    PROVE  /\ k * u \in Nat
           /\ Worth(k, u, Rounded(k * u, 2))
           /\ a - Rounded(k * u, 2) \in Nat
           /\ Worth(q - k, u, a - Rounded(k * u, 2))
  <1> DEFINE w == k * u
             r == Rounded(w, 2)
             v == (q - k) * u
  <1>1. w \in Nat /\ v \in Nat /\ v = q * u - w /\ u <= v
    <2>1. q - k \in Nat /\ q - k - 1 \in Nat
      OBVIOUS
    <2>2. (q - k - 1) * u \in Nat
      BY <2>1
    <2>3. v = q * u - k * u /\ v = (q - k - 1) * u + u
      BY <2>1
    <2> QED  BY <2>1, <2>2, <2>3
  <1>2. r \in Nat /\ w <= 2 * r /\ 2 * r <= w + 1 /\ (w % 2 = 0 => 2 * r = w)
    BY <1>1, HalfUp
  <1>3. Worth(k, u, r)
    <2>1. k \in Nat \ {0} /\ (u % 2 = 0 \/ k <= u)
      BY DEF Worth
    <2> QED  BY <2>1, WorthWhole
  <1>4. CASE u % 2 = 0
    <2>1. w % 2 = 0
      <3>1. k \in Nat
        OBVIOUS
      <3> QED  BY <1>4, <3>1, EvenTimes
    <2>2. 2 * a = q * u
      BY <1>4 DEF Worth
    <2>3. 2 * (a - r) = v /\ a - r \in Nat
      <3> HIDE DEF w, r, v
      <3> QED  BY <1>1, <1>2, <2>1, <2>2
    <2> QED  BY <1>1, <1>3, <1>4, <2>3 DEF Worth
  <1>5. CASE u % 2 # 0
    <2>1. q <= u /\ q * u - (u - q) <= 2 * a
      BY <1>5 DEF Worth
    <2>2. v - (u - (q - k)) <= 2 * (a - r) /\ a - r \in Nat /\ q - k <= u
      <3> HIDE DEF w, r, v
      <3>1. PICK z \in Int : z = q * u
        OBVIOUS
      <3> QED  BY <1>1, <1>2, <2>1, <3>1
    <2> QED  BY <1>1, <1>3, <1>5, <2>2 DEF Worth
  <1> QED  BY <1>4, <1>5
-----------------------------------------------------------------------------
(* A selection taken out of its lines. *)

\* What is left of line l when k of its pieces leave, and the pieces that do.
RestOf(l, k) == [l EXCEPT !.qty = l.qty - k, !.done = l.done - GoesDelivered(l, k), !.amount = Kept(l, k)]

PieceOf(l, k, o, live) ==
    [l EXCEPT !.home = o, !.qty = k, !.done = GoesDelivered(l, k), !.live = live, !.amount = Rounded(k * l.unit, 2)]

LeftOf(l, k, o, live) == IF k = l.qty THEN [l EXCEPT !.home = o, !.live = live] ELSE RestOf(l, k)

\* Lines that may also be of order o, which a move to an order of its own has not opened yet.
LineAt(o) == [home : Orders \cup {o}, qty : Nat \ {0}, unit : Nat, amount : Nat, done : Nat, live : BOOLEAN]

GoodLine(l) == l.done <= l.qty /\ Worth(l.qty, l.unit, l.amount)

\* A line splits in two, and between them they have what it had.
LEMMA SplitTyped ==
    ASSUME NEW o, NEW l \in LineAt(o), GoodLine(l), NEW live \in BOOLEAN, NEW k \in 1..(l.qty - 1)
    PROVE  /\ RestOf(l, k) \in LineAt(o) /\ GoodLine(RestOf(l, k))
           /\ PieceOf(l, k, o, live) \in LineAt(o) /\ GoodLine(PieceOf(l, k, o, live))
           /\ RestOf(l, k).qty + PieceOf(l, k, o, live).qty = l.qty
           /\ RestOf(l, k).amount + PieceOf(l, k, o, live).amount = l.amount
  <1> DEFINE r == Rounded(k * l.unit, 2)
             d == GoesDelivered(l, k)
  <1>1. /\ l.qty \in Nat \ {0} /\ l.unit \in Nat /\ l.amount \in Nat /\ l.done \in Nat /\ l.home \in Orders \cup {o}
        /\ l.done <= l.qty /\ Worth(l.qty, l.unit, l.amount)
    BY DEF LineAt, GoodLine
  <1>2. /\ k * l.unit \in Nat /\ Worth(k, l.unit, r)
        /\ l.amount - r \in Nat /\ Worth(l.qty - k, l.unit, l.amount - r)
    BY <1>1, WorthSplit
  <1>3. r \in Nat
    BY <1>2, HalfUp
  <1>4. d \in Nat /\ d <= k /\ l.done - d \in Nat /\ l.done - d <= l.qty - k
    BY <1>1 DEF GoesDelivered, Minus, Pending
  <1>5. /\ RestOf(l, k) = [l EXCEPT !.qty = l.qty - k, !.done = l.done - d, !.amount = l.amount - r]
        /\ PieceOf(l, k, o, live) = [l EXCEPT !.home = o, !.qty = k, !.done = d, !.live = live, !.amount = r]
    BY DEF RestOf, PieceOf, Kept
  <1>6. l.qty - k \in Nat \ {0} /\ k \in Nat \ {0}
    BY <1>1
  <1> HIDE DEF r, d
  <1>7. /\ RestOf(l, k) \in LineAt(o) /\ PieceOf(l, k, o, live) \in LineAt(o)
    BY <1>1, <1>2, <1>3, <1>4, <1>5, <1>6 DEF LineAt
  <1>8. /\ RestOf(l, k).qty = l.qty - k /\ RestOf(l, k).done = l.done - d
        /\ RestOf(l, k).amount = l.amount - r /\ RestOf(l, k).unit = l.unit
        /\ PieceOf(l, k, o, live).qty = k /\ PieceOf(l, k, o, live).done = d
        /\ PieceOf(l, k, o, live).amount = r /\ PieceOf(l, k, o, live).unit = l.unit
    BY <1>5 DEF LineAt
  <1> QED  BY <1>1, <1>2, <1>3, <1>4, <1>7, <1>8 DEF GoodLine

\* TakeOut, one line at a time.
NextLines(ls, i, sel, o, live) ==
    IF sel[i] = ls[i].qty THEN WholeLine(ls, i, o, live) ELSE SplitOff(ls, i, sel[i], o, live)

Takes(g, sel, o, live, m) ==
    g = [n \in 0..m |-> IF n = 0 THEN line
                        ELSE IF n \in DOMAIN sel THEN NextLines(g[n - 1], n, sel, o, live)
                        ELSE g[n - 1]]

\* TakeOut is what its recursion gives.
LEMMA TakeOutIs ==
    \A sel, o, live : TakeOut(sel, o, live) = (CHOOSE g : Takes(g, sel, o, live, Len(line)))[Len(line)]
  BY DEF TakeOut, Takes, NextLines

\* The recursion has a solution.
LEMMA TakesExists ==
    ASSUME NEW sel, NEW o, NEW live, NEW N \in Nat
    PROVE  \E g : Takes(g, sel, o, live, N)
  <1> DEFINE B == {n \in 0..N : \E g : Takes(g, sel, o, live, n)}
  <1>1. 0 \in B
    <2> DEFINE g == [n \in 0..0 |-> line]
    <2>1. Takes(g, sel, o, live, 0)
      BY DEF Takes
    <2> QED  BY <2>1
  <1>2. ASSUME NEW n \in 1..N, n - 1 \in B PROVE n \in B
    <2>1. PICK g : Takes(g, sel, o, live, n - 1)
      BY <1>2
    <2> DEFINE last == IF n \in DOMAIN sel THEN NextLines(g[n - 1], n, sel, o, live) ELSE g[n - 1]
               h == [m \in 0..n |-> IF m = n THEN last ELSE g[m]]
    <2>2. \A m \in 0..(n - 1) : g[m] = IF m = 0 THEN line
                                       ELSE IF m \in DOMAIN sel THEN NextLines(g[m - 1], m, sel, o, live)
                                       ELSE g[m - 1]
      BY <2>1 DEF Takes
    <2>3. \A m \in 0..(n - 1) : h[m] = g[m]
      OBVIOUS
    <2>4. h[n] = last
      OBVIOUS
    <2>5. \A m \in 0..n : h[m] = IF m = 0 THEN line
                                 ELSE IF m \in DOMAIN sel THEN NextLines(h[m - 1], m, sel, o, live)
                                 ELSE h[m - 1]
      <3>1. n - 1 \in 0..(n - 1) /\ n # 0
        OBVIOUS
      <3>2. h[n - 1] = g[n - 1]
        BY <2>3, <3>1
      <3>3. h[n] = IF n \in DOMAIN sel THEN NextLines(h[n - 1], n, sel, o, live) ELSE h[n - 1]
        BY <2>4, <3>2
      <3>4. ASSUME NEW m \in 0..(n - 1)
            PROVE  h[m] = IF m = 0 THEN line
                          ELSE IF m \in DOMAIN sel THEN NextLines(h[m - 1], m, sel, o, live)
                          ELSE h[m - 1]
        <4>1. m # 0 => h[m - 1] = g[m - 1]
          BY <2>3
        <4> HIDE DEF h
        <4> QED  BY <2>2, <2>3, <4>1
      <3> HIDE DEF h
      <3>5. \A m \in 0..n : m = n \/ m \in 0..(n - 1)
        OBVIOUS
      <3> QED  BY <3>1, <3>3, <3>4, <3>5
    <2>6. h = [m \in 0..n |-> h[m]]
      OBVIOUS
    <2>7. Takes(h, sel, o, live, n)
      <3> HIDE DEF h
      <3>1. [m \in 0..n |-> h[m]] = [m \in 0..n |-> IF m = 0 THEN line
                                 ELSE IF m \in DOMAIN sel THEN NextLines(h[m - 1], m, sel, o, live)
                                 ELSE h[m - 1]]
        BY <2>5
      <3> QED  BY <2>6, <3>1 DEF Takes
    <2> QED  BY <2>7
  <1> HIDE DEF B
  <1>3. N \in B
    BY <1>1, <1>2, CountUp
  <1> QED  BY <1>3 DEF B
\* The sum of a function is over its domain.
LEMMA TotalIs == \A f : Total(f) = SumOver(f, DOMAIN f)
  BY DEF Total, FoldFunction, SumOver

Qtys(ls) == [i \in DOMAIN ls |-> ls[i].qty]

Amounts(ls) == [i \in DOMAIN ls |-> ls[i].amount]

\* What splitting keeps: the pieces and the cents of all lines together.
Keeps(ls) == Total(Qtys(ls)) = Total(Qtys(line)) /\ Total(Amounts(ls)) = Total(Amounts(line))

\* The lines as a selection to order o leaves them, once lines 1 to n have been seen to.
Took(ls, sel, o, live, n) ==
    /\ ls \in Seq(LineAt(o)) /\ Len(line) <= Len(ls)
    /\ \A i \in DOMAIN ls : GoodLine(ls[i])
    /\ \A i \in Ids : i \notin DOMAIN sel \/ i > n => ls[i] = line[i]
    /\ \A i \in DOMAIN sel : i <= n => ls[i] = LeftOf(line[i], sel[i], o, live)
    /\ \A j \in DOMAIN ls \ Ids :
          \E i \in DOMAIN sel : sel[i] # line[i].qty /\ ls[j] = PieceOf(line[i], sel[i], o, live)

\* A selection somebody may take: pieces of lines that are there.
Takable(sel, live) ==
    /\ line \in Seq(LineType) /\ \A i \in Ids : GoodLine(line[i])
    /\ DOMAIN sel \subseteq Ids /\ \A i \in DOMAIN sel : sel[i] \in 1..line[i].qty
    /\ live \in BOOLEAN

\* A line of a typed sequence changes and another comes after it.
LEMMA SplitSums ==
    ASSUME NEW o, NEW ls \in Seq(LineAt(o)), NEW i \in DOMAIN ls, NEW r \in LineAt(o), NEW x \in LineAt(o),
           r.qty + x.qty = ls[i].qty, r.amount + x.amount = ls[i].amount
    PROVE  LET new == Append([ls EXCEPT ![i] = r], x)
           IN  Total(Qtys(new)) = Total(Qtys(ls)) /\ Total(Amounts(new)) = Total(Amounts(ls))
  <1> DEFINE new == Append([ls EXCEPT ![i] = r], x)
             n == Len(ls)
             mid == [ls EXCEPT ![i] = r]
  <1>1. /\ n \in Nat /\ DOMAIN ls = 1..n /\ mid \in Seq(LineAt(o)) /\ Len(mid) = n
        /\ DOMAIN new = 1..(n + 1) /\ new[n + 1] = x /\ new \in Seq(LineAt(o))
        /\ \A j \in 1..n : new[j] = IF j = i THEN r ELSE ls[j]
    OBVIOUS
  <1>2. /\ IsFiniteSet(1..n) /\ n + 1 \notin 1..n /\ 1..(n + 1) = 1..n \cup {n + 1}
    <2> HIDE DEF new, mid, n
    <2>1. n + 1 \in Int /\ n \in Nat
      BY <1>1
    <2>2. 1..(n + 1) = 1..n \cup {n + 1} /\ n + 1 \notin 1..n
      BY <2>1
    <2> QED  BY <2>1, <2>2, FS_Interval
  <1>3. \A l \in LineAt(o) : l.qty \in Int /\ l.amount \in Int
    BY DEF LineAt
  <1>4. \A j \in 1..n : ls[j] \in LineAt(o)
    BY <1>1
  <1>5. \A j \in 1..(n + 1) : new[j] \in LineAt(o)
    BY <1>1
  <1> HIDE DEF new, n, mid
  <1>6. ASSUME NEW f, NEW g, DOMAIN f = 1..n, DOMAIN g = 1..(n + 1),
               \A j \in 1..n : f[j] \in Int, \A j \in 1..(n + 1) : g[j] \in Int,
               \A j \in 1..n \ {i} : g[j] = f[j],
               g[i] + g[n + 1] = f[i]
        PROVE  Total(g) = Total(f)
    <2>1. i \in 1..n
      BY <1>1
    <2>2. SumOver(g, 1..n) = SumOver(f, 1..n) + g[i] - f[i]
      <3>1. \A j \in 1..n : f[j] \in Int /\ g[j] \in Int
        BY <1>6, <1>2
      <3>2. \A j \in 1..n \ {i} : f[j] = g[j]
        BY <1>6
      <3>3. IsFiniteSet(1..n)
        BY <1>2
      <3> DEFINE D == 1..n
      <3> HIDE DEF D
      <3>4. SumOver(g, D) = SumOver(f, D) + g[i] - f[i]
        <4>1. IsFiniteSet(D) /\ i \in D /\ (\A j \in D : f[j] \in Int /\ g[j] \in Int) /\ \A j \in D \ {i} : f[j] = g[j]
          BY <2>1, <3>1, <3>2, <3>3 DEF D
        <4> QED  BY <4>1, SumPoint
      <3> QED  BY <3>4 DEF D
    <2>3. SumOver(g, 1..n \cup {n + 1}) = g[n + 1] + SumOver(g, 1..n)
      <3>1. \A j \in 1..n : g[j] \in Int
        BY <1>6, <1>2
      <3>2. g[n + 1] \in Int
        BY <1>6, <1>2
      <3> QED  BY <1>2, <3>1, <3>2, SumMore
    <2>4. SumOver(f, 1..n) \in Int /\ f[i] \in Int /\ g[i] \in Int /\ g[n + 1] \in Int
      <3>1. SumOver(f, 1..n) \in Int
        BY <1>2, <1>6, SumInt
      <3> QED  BY <1>2, <1>6, <2>1, <3>1
    <2>5. Total(g) = SumOver(g, 1..n \cup {n + 1}) /\ Total(f) = SumOver(f, 1..n)
      BY <1>2, <1>6, TotalIs
    <2> QED  BY <1>6, <2>2, <2>3, <2>4, <2>5
  <1>7. Total(Qtys(new)) = Total(Qtys(ls))
    <2>1. DOMAIN Qtys(ls) = 1..n /\ DOMAIN Qtys(new) = 1..(n + 1)
      BY <1>1 DEF Qtys
    <2>2. /\ \A j \in 1..n : Qtys(ls)[j] = ls[j].qty
          /\ \A j \in 1..(n + 1) : Qtys(new)[j] = new[j].qty
      BY <1>1 DEF Qtys
    <2>3. i \in 1..n /\ i # n + 1 /\ i \in 1..(n + 1) /\ n + 1 \in 1..(n + 1) /\ \A j \in 1..n : j \in 1..(n + 1)
      BY <1>1
    <2>4. Qtys(new)[i] + Qtys(new)[n + 1] = Qtys(ls)[i]
      BY <1>1, <2>2, <2>3
    <2>5. \A j \in 1..n \ {i} : Qtys(new)[j] = Qtys(ls)[j]
      BY <1>1, <2>2, <2>3
    <2>6. /\ \A j \in 1..n : Qtys(ls)[j] \in Int
          /\ \A j \in 1..(n + 1) : Qtys(new)[j] \in Int
      BY <1>3, <1>4, <1>5, <2>2
    <2> QED  BY <1>6, <2>1, <2>4, <2>5, <2>6
  <1>8. Total(Amounts(new)) = Total(Amounts(ls))
    <2>1. DOMAIN Amounts(ls) = 1..n /\ DOMAIN Amounts(new) = 1..(n + 1)
      BY <1>1 DEF Amounts
    <2>2. /\ \A j \in 1..n : Amounts(ls)[j] = ls[j].amount
          /\ \A j \in 1..(n + 1) : Amounts(new)[j] = new[j].amount
      BY <1>1 DEF Amounts
    <2>3. i \in 1..n /\ i # n + 1 /\ i \in 1..(n + 1) /\ n + 1 \in 1..(n + 1) /\ \A j \in 1..n : j \in 1..(n + 1)
      BY <1>1
    <2>4. Amounts(new)[i] + Amounts(new)[n + 1] = Amounts(ls)[i]
      BY <1>1, <2>2, <2>3
    <2>5. \A j \in 1..n \ {i} : Amounts(new)[j] = Amounts(ls)[j]
      BY <1>1, <2>2, <2>3
    <2>6. /\ \A j \in 1..n : Amounts(ls)[j] \in Int
          /\ \A j \in 1..(n + 1) : Amounts(new)[j] \in Int
      BY <1>3, <1>4, <1>5, <2>2
    <2> QED  BY <1>6, <2>1, <2>4, <2>5, <2>6
  <1> QED  BY <1>7, <1>8 DEF new
\* Lines of Orders are lines of any order besides.
LEMMA LineTypeAt == \A o : LineType \subseteq LineAt(o) /\ (o \in Orders => LineAt(o) = LineType)
  <1> TAKE o
  <1>1. o \in Orders => Orders \cup {o} = Orders
    OBVIOUS
  <1> QED  BY <1>1 DEF LineType, LineAt

\* Before any line of the selection is seen to, nothing is taken.
LEMMA TookNone ==
    ASSUME NEW sel, NEW o, NEW live, Takable(sel, live)
    PROVE  Took(line, sel, o, live, 0)
  <1>1. line \in Seq(LineAt(o)) /\ DOMAIN line = 1..Len(line) /\ Len(line) \in Nat
    BY LineTypeAt DEF Takable
  <1>2. \A i \in DOMAIN sel : ~ (i <= 0)
    BY <1>1 DEF Takable, Ids
  <1> QED  BY <1>1, <1>2 DEF Took, Takable, Ids

\* The next line is seen to.
LEMMA TookNext ==
    ASSUME NEW sel, NEW o, NEW live, Takable(sel, live), NEW n \in 1..Len(line),
           NEW ls, Took(ls, sel, o, live, n - 1)
    PROVE  LET new == IF n \in DOMAIN sel THEN NextLines(ls, n, sel, o, live) ELSE ls
           IN  /\ Took(new, sel, o, live, n)
               /\ Total(Qtys(new)) = Total(Qtys(ls)) /\ Total(Amounts(new)) = Total(Amounts(ls))
  <1>1. /\ ls \in Seq(LineAt(o)) /\ Len(line) <= Len(ls)
        /\ \A i \in DOMAIN ls : GoodLine(ls[i])
        /\ \A i \in Ids : i \notin DOMAIN sel \/ i > n - 1 => ls[i] = line[i]
        /\ \A i \in DOMAIN sel : i <= n - 1 => ls[i] = LeftOf(line[i], sel[i], o, live)
        /\ \A j \in DOMAIN ls \ Ids :
              \E i \in DOMAIN sel : sel[i] # line[i].qty /\ ls[j] = PieceOf(line[i], sel[i], o, live)
    BY DEF Took
  <1>2. /\ line \in Seq(LineType) /\ Ids = 1..Len(line) /\ Len(line) \in Nat
        /\ DOMAIN sel \subseteq Ids /\ \A i \in DOMAIN sel : sel[i] \in 1..line[i].qty
        /\ live \in BOOLEAN
    BY DEF Takable, Ids
  <1>3. /\ n \in Ids /\ n \in DOMAIN ls /\ Ids \subseteq DOMAIN ls
        /\ DOMAIN ls = 1..Len(ls) /\ Len(ls) \in Nat /\ n > n - 1
    BY <1>1, <1>2
  <1>4. ls[n] = line[n] /\ line[n] \in LineAt(o) /\ GoodLine(line[n])
    <2>1. ls[n] = line[n]
      BY <1>1, <1>3
    <2> QED  BY <1>1, <1>3, <2>1
  <1>5. CASE n \notin DOMAIN sel
    <2>1. \A i \in Ids : i > n => i > n - 1
      BY <1>2
    <2>2. \A i \in DOMAIN sel : i <= n => i <= n - 1
      BY <1>2, <1>5
    <2> QED  BY <1>1, <1>5, <2>1, <2>2 DEF Took
  <1>6. CASE n \in DOMAIN sel /\ sel[n] = line[n].qty
    <2> DEFINE w == [line[n] EXCEPT !.home = o, !.live = live]
               new == [ls EXCEPT ![n] = w]
    <2>1. NextLines(ls, n, sel, o, live) = new
      BY <1>4, <1>6 DEF NextLines, WholeLine
    <2>2. w \in LineAt(o) /\ GoodLine(w) /\ w.qty = ls[n].qty /\ w.amount = ls[n].amount
      BY <1>2, <1>4 DEF LineAt, GoodLine
    <2>3. w = LeftOf(line[n], sel[n], o, live)
      BY <1>6 DEF LeftOf
    <2> HIDE DEF w
    <2>4. /\ new \in Seq(LineAt(o)) /\ DOMAIN new = DOMAIN ls /\ Len(new) = Len(ls)
          /\ new[n] = w /\ \A j \in DOMAIN ls \ {n} : new[j] = ls[j]
      BY <1>1, <1>3, <2>2
    <2> HIDE DEF new
    <2>5. Qtys(new) = Qtys(ls) /\ Amounts(new) = Amounts(ls)
      <3>1. \A j \in DOMAIN ls : new[j].qty = ls[j].qty /\ new[j].amount = ls[j].amount
        BY <2>2, <2>4
      <3> QED  BY <2>4, <3>1 DEF Qtys, Amounts
    <2>6. Took(new, sel, o, live, n)
      <3>1. \A i \in DOMAIN new : GoodLine(new[i])
        BY <1>1, <2>2, <2>4
      <3>2. ASSUME NEW i \in Ids, i \notin DOMAIN sel \/ i > n PROVE new[i] = line[i]
        <4>1. i # n /\ (i \notin DOMAIN sel \/ i > n - 1)
          BY <1>2, <1>6, <3>2
        <4> QED  BY <1>1, <1>3, <2>4, <4>1
      <3>3. ASSUME NEW i \in DOMAIN sel, i <= n PROVE new[i] = LeftOf(line[i], sel[i], o, live)
        <4>1. i = n \/ (i # n /\ i <= n - 1)
          BY <1>2, <3>3
        <4> QED  BY <1>1, <1>2, <1>3, <2>3, <2>4, <4>1
      <3>4. \A j \in DOMAIN new \ Ids : new[j] = ls[j] /\ j \in DOMAIN ls \ Ids
        BY <1>3, <2>4
      <3> QED  BY <1>1, <2>4, <3>1, <3>2, <3>3, <3>4 DEF Took
    <2> QED  BY <1>6, <2>1, <2>5, <2>6
  <1>7. CASE n \in DOMAIN sel /\ sel[n] # line[n].qty
    <2> DEFINE r == RestOf(line[n], sel[n])
               x == PieceOf(line[n], sel[n], o, live)
               new == Append([ls EXCEPT ![n] = r], x)
    <2>1. NextLines(ls, n, sel, o, live) = new
      <3>1. ls[n] = line[n] /\ sel[n] # ls[n].qty
        BY <1>4, <1>7
      <3> QED  BY <3>1 DEF NextLines, SplitOff, RestOf, PieceOf
    <2>2. sel[n] \in 1..(line[n].qty - 1)
      BY <1>2, <1>4, <1>7 DEF LineAt
    <2>3. /\ r \in LineAt(o) /\ GoodLine(r) /\ x \in LineAt(o) /\ GoodLine(x)
          /\ r.qty + x.qty = ls[n].qty /\ r.amount + x.amount = ls[n].amount
      BY <1>2, <1>4, <2>2, SplitTyped
    <2>4. r = LeftOf(line[n], sel[n], o, live)
      BY <1>7 DEF LeftOf
    <2>5. Total(Qtys(new)) = Total(Qtys(ls)) /\ Total(Amounts(new)) = Total(Amounts(ls))
      <3> HIDE DEF r, x
      <3>1. /\ ls \in Seq(LineAt(o)) /\ n \in DOMAIN ls /\ r \in LineAt(o) /\ x \in LineAt(o)
            /\ r.qty + x.qty = ls[n].qty /\ r.amount + x.amount = ls[n].amount
        BY <1>1, <1>3, <2>3
      <3> QED  BY <3>1, SplitSums
    <2>6. x = PieceOf(line[n], sel[n], o, live)
      OBVIOUS
    <2> HIDE DEF r, x
    <2>7. /\ new \in Seq(LineAt(o)) /\ DOMAIN new = 1..(Len(ls) + 1) /\ Len(new) = Len(ls) + 1
          /\ new[n] = r /\ new[Len(ls) + 1] = x /\ \A j \in DOMAIN ls \ {n} : new[j] = ls[j]
      BY <1>1, <1>3, <2>3
    <2> HIDE DEF new
    <2>8. Took(new, sel, o, live, n)
      <3>0. \A j \in DOMAIN new : j = Len(ls) + 1 \/ j \in DOMAIN ls
        BY <1>3, <2>7
      <3>1. \A i \in DOMAIN new : GoodLine(new[i])
        BY <1>1, <2>3, <2>7, <3>0
      <3>2. ASSUME NEW i \in Ids, i \notin DOMAIN sel \/ i > n PROVE new[i] = line[i]
        <4>1. i # n /\ (i \notin DOMAIN sel \/ i > n - 1)
          BY <1>2, <1>7, <3>2
        <4> QED  BY <1>1, <1>3, <2>7, <4>1
      <3>3. ASSUME NEW i \in DOMAIN sel, i <= n PROVE new[i] = LeftOf(line[i], sel[i], o, live)
        <4>1. i = n \/ (i # n /\ i <= n - 1)
          BY <1>2, <3>3
        <4> QED  BY <1>1, <1>2, <1>3, <2>4, <2>7, <4>1
      <3>4. ASSUME NEW j \in DOMAIN new \ Ids
            PROVE  \E i \in DOMAIN sel : sel[i] # line[i].qty /\ new[j] = PieceOf(line[i], sel[i], o, live)
        <4>1. CASE j = Len(ls) + 1
          BY <1>7, <2>6, <2>7, <4>1
        <4>2. CASE j \in DOMAIN ls
          <5>1. new[j] = ls[j]
            BY <1>3, <2>7, <4>2
          <5> QED  BY <1>1, <4>2, <5>1
        <4> QED  BY <3>0, <4>1, <4>2
      <3>5. Len(line) <= Len(new)
        BY <1>1, <1>2, <1>3, <2>7
      <3> QED  BY <2>7, <3>1, <3>2, <3>3, <3>4, <3>5 DEF Took
    <2> QED  BY <1>7, <2>1, <2>5, <2>8
  <1> QED  BY <1>5, <1>6, <1>7

\* What TakeOut does, line by line, and what it keeps.
LEMMA TakeOutSays ==
    ASSUME NEW sel, NEW o, NEW live, Takable(sel, live)
    PROVE  Took(TakeOut(sel, o, live), sel, o, live, Len(line)) /\ Keeps(TakeOut(sel, o, live))
  <1> DEFINE N == Len(line)
             g == CHOOSE h : Takes(h, sel, o, live, N)
             B == {n \in 0..N : Took(g[n], sel, o, live, n) /\ Keeps(g[n])}
  <1>1. N \in Nat
    BY DEF Takable
  <1>2. Takes(g, sel, o, live, N)
    <2> HIDE DEF N
    <2> QED  BY <1>1, TakesExists
  <1> HIDE DEF g
  <1>3. \A n \in 0..N : g[n] = IF n = 0 THEN line
                               ELSE IF n \in DOMAIN sel THEN NextLines(g[n - 1], n, sel, o, live)
                               ELSE g[n - 1]
    <2> HIDE DEF N
    <2> QED  BY <1>2 DEF Takes
  <1>4. 0 \in B
    <2>1. g[0] = line /\ 0 \in 0..N
      BY <1>1, <1>3
    <2> QED  BY <2>1, TookNone DEF Keeps
  <1>5. ASSUME NEW n \in 1..N, n - 1 \in B PROVE n \in B
    <2>1. n \in 0..N /\ n # 0 /\ n \in 1..Len(line)
      BY <1>1
    <2>2. g[n] = IF n \in DOMAIN sel THEN NextLines(g[n - 1], n, sel, o, live) ELSE g[n - 1]
      BY <1>3, <2>1
    <2>3. Took(g[n - 1], sel, o, live, n - 1) /\ Keeps(g[n - 1])
      BY <1>5
    <2>4. /\ Took(g[n], sel, o, live, n)
          /\ Total(Qtys(g[n])) = Total(Qtys(g[n - 1])) /\ Total(Amounts(g[n])) = Total(Amounts(g[n - 1]))
      <3> HIDE DEF B
      <3> QED  BY <2>1, <2>2, <2>3, TookNext
    <2> QED  BY <2>1, <2>3, <2>4 DEF Keeps
  <1>6. N \in B
    <2> HIDE DEF B, N
    <2> QED  BY <1>1, <1>4, <1>5, CountUp
  <1>7. g[N] = TakeOut(sel, o, live)
    BY TakeOutIs DEF g
  <1> QED  BY <1>6, <1>7
\* The lines of ls that an order charges.
LiveIn(ls, o) == {j \in DOMAIN ls : ls[j].home = o /\ ls[j].live}

\* Lines of a typed sequence are finitely many and their amounts natural.
LEMMA LinesFinite ==
    ASSUME NEW o, NEW ls \in Seq(LineAt(o))
    PROVE  /\ IsFiniteSet(DOMAIN ls)
           /\ \A q : LiveIn(ls, q) \subseteq DOMAIN ls /\ IsFiniteSet(LiveIn(ls, q))
           /\ \A j \in DOMAIN ls : Amounts(ls)[j] = ls[j].amount /\ ls[j].amount \in Nat
  <1>1. DOMAIN ls = 1..Len(ls) /\ Len(ls) \in Nat
    OBVIOUS
  <1>2. IsFiniteSet(DOMAIN ls)
    BY <1>1, FS_Interval
  <1>3. \A q : LiveIn(ls, q) \subseteq DOMAIN ls
    BY DEF LiveIn
  <1>4. ASSUME NEW j \in DOMAIN ls PROVE Amounts(ls)[j] = ls[j].amount /\ ls[j].amount \in Nat
    <2>1. ls[j] \in LineAt(o)
      OBVIOUS
    <2> QED  BY <2>1 DEF Amounts, LineAt
  <1> QED  BY <1>2, <1>3, <1>4, FS_Subset

\* A subtotal is the sum of the amounts of its lines.
LEMMA SubtotalIs ==
    ASSUME NEW h, NEW ls \in Seq(LineAt(h)), NEW o
    PROVE  Subtotal(ls, o) = SumOver(Amounts(ls), LiveIn(ls, o)) /\ Subtotal(ls, o) \in Nat
  <1> DEFINE f == [i \in LiveIn(ls, o) |-> ls[i].amount]
  <1>1. Subtotal(ls, o) = Total(f)
    BY DEF Subtotal, LiveIn
  <1>2. Total(f) = SumOver(f, LiveIn(ls, o))
    BY TotalIs
  <1>3. \A j \in LiveIn(ls, o) : f[j] = Amounts(ls)[j] /\ Amounts(ls)[j] \in Nat
    BY LinesFinite
  <1>4. IsFiniteSet(LiveIn(ls, o))
    BY LinesFinite
  <1> HIDE DEF f
  <1>5. SumOver(f, LiveIn(ls, o)) = SumOver(Amounts(ls), LiveIn(ls, o))
    BY <1>3, <1>4, SumSame
  <1>6. SumOver(Amounts(ls), LiveIn(ls, o)) \in Nat
    BY <1>3, <1>4, SumNat
  <1> QED  BY <1>1, <1>2, <1>5, <1>6

\* Two sequences of lines with the same lines of an order have the same subtotal of it.
LEMMA SubtotalSame ==
    ASSUME NEW h, NEW ls \in Seq(LineAt(h)), NEW h2, NEW ms \in Seq(LineAt(h2)), NEW o,
           LiveIn(ls, o) = LiveIn(ms, o),
           \A j \in LiveIn(ls, o) : ls[j].amount = ms[j].amount
    PROVE  Subtotal(ls, o) = Subtotal(ms, o)
  <1>1. \A j \in LiveIn(ls, o) : Amounts(ls)[j] = Amounts(ms)[j]
    BY LinesFinite
  <1>2. IsFiniteSet(LiveIn(ls, o))
    BY LinesFinite
  <1>3. SumOver(Amounts(ls), LiveIn(ls, o)) = SumOver(Amounts(ms), LiveIn(ls, o))
    BY <1>1, <1>2, SumSame
  <1> QED  BY <1>3, SubtotalIs

\* One with more lines of it has no smaller one.
LEMMA SubtotalGrows ==
    ASSUME NEW h, NEW ls \in Seq(LineAt(h)), NEW h2, NEW ms \in Seq(LineAt(h2)), NEW o,
           LiveIn(ls, o) \subseteq LiveIn(ms, o),
           \A j \in LiveIn(ls, o) : ls[j].amount = ms[j].amount
    PROVE  Subtotal(ls, o) <= Subtotal(ms, o)
  <1>1. \A j \in LiveIn(ls, o) : Amounts(ls)[j] = Amounts(ms)[j]
    BY LinesFinite
  <1>2. /\ IsFiniteSet(LiveIn(ls, o)) /\ IsFiniteSet(LiveIn(ms, o))
        /\ \A j \in LiveIn(ms, o) : Amounts(ms)[j] \in Nat
    BY LinesFinite
  <1>3. SumOver(Amounts(ls), LiveIn(ls, o)) = SumOver(Amounts(ms), LiveIn(ls, o))
    BY <1>1, <1>2, SumSame
  <1>4. SumOver(Amounts(ms), LiveIn(ls, o)) <= SumOver(Amounts(ms), LiveIn(ms, o))
    BY <1>2, SumSubset
  <1> QED  BY <1>3, <1>4, SubtotalIs

\* The selection is of one order.
TakenFrom(sel, from, live) == Takable(sel, live) /\ DOMAIN sel \subseteq Live(from)

\* What a selection that goes to order o leaves of each line that was there.
LEMMA OldLines ==
    ASSUME NEW sel, NEW from, NEW o, NEW live, TakenFrom(sel, from, live),
           NEW ls, ls = TakeOut(sel, o, live)
    PROVE  /\ ls \in Seq(LineAt(o)) /\ Ids \subseteq DOMAIN ls
           /\ \A i \in Ids \ DOMAIN sel : ls[i] = line[i]
           /\ \A i \in DOMAIN sel : /\ ls[i] = LeftOf(line[i], sel[i], o, live)
                                    /\ line[i].home = from /\ line[i].live
           /\ \A j \in DOMAIN ls \ Ids : ls[j].home = o /\ ls[j].live = live
  <1>1. Took(ls, sel, o, live, Len(line)) /\ Takable(sel, live) /\ DOMAIN sel \subseteq Live(from)
    BY TakeOutSays DEF TakenFrom
  <1>2. /\ line \in Seq(LineType) /\ Ids = 1..Len(line) /\ Len(line) \in Nat /\ DOMAIN sel \subseteq Ids
    BY <1>1 DEF Takable, Ids
  <1>3. ls \in Seq(LineAt(o)) /\ Len(line) <= Len(ls)
    BY <1>1 DEF Took
  <1>4. \A i \in DOMAIN sel : i <= Len(line)
    BY <1>2
  <1>5. ASSUME NEW j \in DOMAIN ls \ Ids PROVE ls[j].home = o /\ ls[j].live = live
    <2>1. PICK i \in DOMAIN sel : ls[j] = PieceOf(line[i], sel[i], o, live)
      BY <1>1 DEF Took
    <2>2. line[i] \in LineType
      BY <1>2
    <2> QED  BY <2>1, <2>2 DEF PieceOf, LineType
  <1>6. Ids \subseteq DOMAIN ls
    BY <1>2, <1>3
  <1> QED  BY <1>1, <1>3, <1>4, <1>5, <1>6 DEF Took, Live

\* No other order sees it: neither its lines nor its subtotal move.
LEMMA OthersStay ==
    ASSUME NEW sel, NEW from, NEW o, NEW live, TakenFrom(sel, from, live),
           NEW ls, ls = TakeOut(sel, o, live), NEW q, q # from, q # o \/ ~live
    PROVE  /\ LiveIn(ls, q) = Live(q) /\ \A j \in Live(q) : ls[j] = line[j]
           /\ Subtotal(ls, q) = Subtotal(line, q)
  <1>1. /\ ls \in Seq(LineAt(o)) /\ Ids \subseteq DOMAIN ls
        /\ \A i \in Ids \ DOMAIN sel : ls[i] = line[i]
        /\ \A i \in DOMAIN sel : /\ ls[i] = LeftOf(line[i], sel[i], o, live)
                                 /\ line[i].home = from /\ line[i].live
        /\ \A j \in DOMAIN ls \ Ids : ls[j].home = o /\ ls[j].live = live
    BY OldLines
  <1>2. line \in Seq(LineType) /\ DOMAIN sel \subseteq Ids /\ \A i \in Ids : line[i] \in LineType
    BY DEF TakenFrom, Takable, Ids
  <1>3. ASSUME NEW i \in DOMAIN sel PROVE ~ (ls[i].home = q /\ ls[i].live)
    <2>1. line[i] \in LineType /\ line[i].home = from /\ ls[i] = LeftOf(line[i], sel[i], o, live)
      BY <1>1, <1>2
    <2>2. CASE sel[i] = line[i].qty
      <3>1. ls[i] = [line[i] EXCEPT !.home = o, !.live = live]
        BY <2>1, <2>2 DEF LeftOf
      <3>2. ls[i].home = o /\ ls[i].live = live
        BY <2>1, <3>1 DEF LineType
      <3> QED  BY <3>2
    <2>3. CASE sel[i] # line[i].qty
      <3>1. ls[i] = RestOf(line[i], sel[i])
        BY <2>1, <2>3 DEF LeftOf
      <3>2. ls[i].home = from
        BY <2>1, <3>1 DEF RestOf, LineType
      <3> QED  BY <3>2
    <2> QED  BY <2>2, <2>3
  <1>4. LiveIn(ls, q) = Live(q) /\ \A j \in Live(q) : ls[j] = line[j]
    <2>1. \A i \in DOMAIN sel : i \notin Live(q)
      BY <1>1 DEF Live
    <2>2. \A j \in DOMAIN ls \ Ids : ~ (ls[j].home = q /\ ls[j].live)
      BY <1>1
    <2> QED  BY <1>1, <1>2, <1>3, <2>1, <2>2 DEF LiveIn, Live
  <1>5. LiveIn(line, q) = Live(q) /\ line \in Seq(LineAt(o))
    BY <1>2, LineTypeAt DEF LiveIn, Live, Ids
  <1> QED  BY <1>1, <1>4, <1>5, SubtotalSame

\* The order that receives keeps its lines and owes no less.
LEMMA ReceiverGrows ==
    ASSUME NEW sel, NEW from, NEW o, NEW live, o # from, TakenFrom(sel, from, live),
           NEW ls, ls = TakeOut(sel, o, live)
    PROVE  /\ Live(o) \subseteq LiveIn(ls, o) /\ \A j \in Live(o) : ls[j] = line[j]
           /\ Subtotal(line, o) <= Subtotal(ls, o)
  <1>1. /\ ls \in Seq(LineAt(o)) /\ Ids \subseteq DOMAIN ls
        /\ \A i \in Ids \ DOMAIN sel : ls[i] = line[i]
        /\ \A i \in DOMAIN sel : line[i].home = from
    BY OldLines
  <1>2. Live(o) \subseteq LiveIn(ls, o) /\ \A j \in Live(o) : ls[j] = line[j]
    BY <1>1 DEF LiveIn, Live
  <1>3. LiveIn(line, o) = Live(o) /\ line \in Seq(LineAt(o))
    BY LineTypeAt DEF LiveIn, Live, Ids, TakenFrom, Takable
  <1> QED  BY <1>1, <1>2, <1>3, SubtotalGrows

\* What the order that gives keeps.
KeptLines(sel, from) == {i \in Live(from) : i \notin DOMAIN sel \/ sel[i] # line[i].qty}

KeptLine(sel, i) == IF i \in DOMAIN sel THEN RestOf(line[i], sel[i]) ELSE line[i]

\* It is the same wherever the pieces go.
LEMMA GiverKeeps ==
    ASSUME NEW sel, NEW from, NEW o, NEW live, o # from \/ ~live, TakenFrom(sel, from, live),
           NEW ls, ls = TakeOut(sel, o, live)
    PROVE  LiveIn(ls, from) = KeptLines(sel, from) /\ \A i \in KeptLines(sel, from) : ls[i] = KeptLine(sel, i)
  <1>1. /\ ls \in Seq(LineAt(o)) /\ Ids \subseteq DOMAIN ls
        /\ \A i \in Ids \ DOMAIN sel : ls[i] = line[i]
        /\ \A i \in DOMAIN sel : /\ ls[i] = LeftOf(line[i], sel[i], o, live)
                                 /\ line[i].home = from /\ line[i].live
        /\ \A j \in DOMAIN ls \ Ids : ls[j].home = o /\ ls[j].live = live
    BY OldLines
  <1>2. DOMAIN sel \subseteq Ids /\ \A i \in Ids : line[i] \in LineType
    BY DEF TakenFrom, Takable, Ids
  <1>3. ASSUME NEW i \in DOMAIN sel
        PROVE  IF sel[i] = line[i].qty THEN ~ (ls[i].home = from /\ ls[i].live)
               ELSE ls[i].home = from /\ ls[i].live /\ ls[i] = RestOf(line[i], sel[i])
    <2>1. line[i] \in LineType /\ line[i].home = from /\ line[i].live /\ ls[i] = LeftOf(line[i], sel[i], o, live)
      BY <1>1, <1>2
    <2>2. CASE sel[i] = line[i].qty
      <3>1. ls[i] = [line[i] EXCEPT !.home = o, !.live = live]
        BY <2>1, <2>2 DEF LeftOf
      <3>2. ls[i].home = o /\ ls[i].live = live
        BY <2>1, <3>1 DEF LineType
      <3> QED  BY <2>2, <3>2
    <2>3. CASE sel[i] # line[i].qty
      <3>1. ls[i] = RestOf(line[i], sel[i])
        BY <2>1, <2>3 DEF LeftOf
      <3>2. ls[i].home = line[i].home /\ ls[i].live = line[i].live
        BY <2>1, <3>1 DEF RestOf, LineType
      <3> QED  BY <2>1, <2>3, <3>1, <3>2
    <2> QED  BY <2>2, <2>3
  <1>4. \A j \in DOMAIN ls \ Ids : ~ (ls[j].home = from /\ ls[j].live)
    BY <1>1
  <1>5. \A i \in KeptLines(sel, from) : i \in Ids /\ ls[i] = KeptLine(sel, i)
    BY <1>1, <1>3 DEF KeptLines, KeptLine, Live
  <1>6. KeptLines(sel, from) \subseteq LiveIn(ls, from)
    BY <1>1, <1>3 DEF KeptLines, LiveIn, Live
  <1>7. ASSUME NEW j \in LiveIn(ls, from) PROVE j \in KeptLines(sel, from)
    <2>1. j \in Ids /\ ls[j].home = from /\ ls[j].live
      BY <1>4 DEF LiveIn
    <2>2. CASE j \in DOMAIN sel
      BY <1>1, <1>3, <2>1, <2>2 DEF KeptLines, Live
    <2>3. CASE j \notin DOMAIN sel
      BY <1>1, <2>1, <2>3 DEF KeptLines, Live
    <2> QED  BY <2>2, <2>3
  <1> QED  BY <1>5, <1>6, <1>7
\* What the order that gives owes for what it keeps does not depend on where the rest goes.
LEMMA GiverOwes ==
    ASSUME NEW sel, NEW from, NEW live, TakenFrom(sel, from, live), NEW o, o # from, NEW p, p # from
    PROVE  Subtotal(TakeOut(sel, o, live), from) = Subtotal(TakeOut(sel, p, live), from)
  <1> DEFINE ls == TakeOut(sel, o, live)
             ms == TakeOut(sel, p, live)
  <1>1. ls \in Seq(LineAt(o)) /\ ms \in Seq(LineAt(p))
    BY OldLines
  <1>2. LiveIn(ls, from) = KeptLines(sel, from) /\ \A i \in KeptLines(sel, from) : ls[i] = KeptLine(sel, i)
    BY GiverKeeps
  <1>3. LiveIn(ms, from) = KeptLines(sel, from) /\ \A i \in KeptLines(sel, from) : ms[i] = KeptLine(sel, i)
    BY GiverKeeps
  <1> HIDE DEF ls, ms
  <1>4. Subtotal(ls, from) = Subtotal(ms, from)
    BY <1>1, <1>2, <1>3, SubtotalSame
  <1> QED  BY <1>4 DEF ls, ms
-----------------------------------------------------------------------------
(* Types. *)

LinesTyped == line \in Seq(LineType) /\ \A i \in Ids : GoodLine(line[i])

CoversTyped(p) == \A i \in DOMAIN p.covers : i \in Ids /\ p.covers[i].qty \in Nat \ {0}

\* A payment, the part of a series it is, or no part.
PayTyped(p) ==
    /\ p.order \in Orders /\ p.amount \in Nat \ {0} /\ p.number \in 1..numbers
    /\ p.of \in Nat /\ (p.of # 0 => p.part \in 1..p.of)
    /\ CoversTyped(p)

PaysTyped == IsFiniteSet(pays) /\ numbers \in 0..bill.payments /\ \A p \in pays : PayTyped(p)

\* What a key may have been sent with.
AskTyped(r) ==
    /\ r.from \in {0} \cup Orders /\ r.to \in {0} \cup Orders /\ (r.from # 0 => r.from # r.to)
    /\ IsFiniteSet(DOMAIN r.sel) /\ \A i \in DOMAIN r.sel : r.sel[i] \in Nat

\* A tablet that holds an order waits for one with a greater id.
WaitTyped(m) ==
    /\ m.holds \in {0} \cup Orders /\ m.waits \in {0} \cup Orders
    /\ m.holds # 0 => m.holds < m.waits
    /\ m.key # 0 => m.key \in MoveKeys /\ asked[m.key].from # 0

MovesTyped ==
    /\ DOMAIN asked = MoveKeys /\ \A k \in MoveKeys : AskTyped(asked[k])
    /\ gone \in [MoveKeys -> Nat]
    /\ DOMAIN move = Tablets /\ \A t \in Tablets : WaitTyped(move[t])

Typed ==
    /\ bill \in Bills /\ status \in [Orders -> Statuses \cup {"none"}]
    /\ LinesTyped /\ PaysTyped /\ MovesTyped

\* They are more than the types the run checks.
LEMMA TypedSays == Typed => TypeOK
  BY DEF Typed, TypeOK, LinesTyped, PaysTyped, MovesTyped, PayTyped, CoversTyped, WaitTyped, GoodLine, Ids

\* What is known of a bill.
LEMMA BillSays ==
    ASSUME Typed
    PROVE  /\ \A o \in Orders : bill.discount[o] \in Nat /\ bill.fee[o] \in Nat
           /\ bill.payments \in Nat /\ bill.typed \subseteq Nat /\ bill.parts \subseteq Nat
  BY BillsAssumption DEF Typed

\* A line of the bill.
LEMMA LineSays ==
    ASSUME LinesTyped
    PROVE  /\ Ids = 1..Len(line) /\ Len(line) \in Nat /\ IsFiniteSet(Ids)
           /\ \A i \in Ids : /\ line[i] \in LineType /\ GoodLine(line[i])
                             /\ line[i].home \in Orders /\ line[i].qty \in Nat \ {0} /\ line[i].unit \in Nat
                             /\ line[i].amount \in Nat /\ line[i].done \in Nat /\ line[i].live \in BOOLEAN
                             /\ line[i].done <= line[i].qty
  <1>1. Ids = 1..Len(line) /\ Len(line) \in Nat
    BY DEF LinesTyped, Ids
  <1>2. ASSUME NEW i \in Ids PROVE line[i] \in LineType /\ GoodLine(line[i])
    BY <1>1 DEF LinesTyped
  <1>3. ASSUME NEW i \in Ids
        PROVE  /\ line[i].home \in Orders /\ line[i].qty \in Nat \ {0} /\ line[i].unit \in Nat
               /\ line[i].amount \in Nat /\ line[i].done \in Nat /\ line[i].live \in BOOLEAN
               /\ line[i].done <= line[i].qty
    BY <1>2 DEF LineType, GoodLine
  <1>4. IsFiniteSet(Ids)
    BY <1>1, FS_Interval
  <1> QED  BY <1>1, <1>2, <1>3, <1>4, Zenon

\* What an order owes and has paid.
LEMMA OwesSays ==
    ASSUME Typed, NEW o \in Orders
    PROVE  /\ IsFiniteSet(PaysOf(o)) /\ \A p \in PaysOf(o) : p \in pays /\ p.order = o /\ p.amount \in Nat
           /\ Paid(o) \in Nat /\ Subtotal(line, o) \in Nat /\ OrderTotal(o) \in Nat /\ Outstanding(o) \in Nat
  <1>1. IsFiniteSet(PaysOf(o)) /\ \A p \in PaysOf(o) : p \in pays /\ p.order = o /\ p.amount \in Nat
    BY FS_Subset DEF PaysOf, Typed, PaysTyped, PayTyped
  <1> DEFINE f == [p \in PaysOf(o) |-> p.amount]
  <1>2. Paid(o) = SumOver(f, PaysOf(o))
    BY TotalIs DEF Paid
  <1>3. \A p \in PaysOf(o) : f[p] \in Nat
    BY <1>1
  <1>4. SumOver(f, PaysOf(o)) \in Nat
    <2> HIDE DEF f
    <2> QED  BY <1>1, <1>3, SumNat
  <1>5. Subtotal(line, o) \in Nat
    BY LineTypeAt, SubtotalIs DEF Typed, LinesTyped
  <1>6. OrderTotal(o) \in Nat
    BY <1>5, BillSays DEF OrderTotal, RecalcTotal, Minus
  <1>7. Outstanding(o) \in Nat
    BY <1>2, <1>4, <1>6 DEF Outstanding, PorCobrar, Minus
  <1> QED  BY <1>1, <1>2, <1>4, <1>5, <1>6, <1>7

\* The payments that cover a line, and how many of its pieces.
Covering(i) == {q \in pays : i \in DOMAIN q.covers}

\* What is known of a line that payments cover: its covered pieces are counted, and what may go is no more than it has.
LEMMA CoveredSays ==
    ASSUME Typed, NEW i
    PROVE  /\ IsFiniteSet(Covering(i))
           /\ \A p \in Covering(i) : p \in pays /\ i \in DOMAIN p.covers /\ p.covers[i].qty \in Nat \ {0}
           /\ Covered(i) = SumOver([p \in Covering(i) |-> p.covers[i].qty], Covering(i))
           /\ Covered(i) \in Nat
           /\ i \in Ids => Movable(i) \in Nat /\ Movable(i) <= line[i].qty
  <1>1. /\ IsFiniteSet(Covering(i))
        /\ \A p \in Covering(i) : p \in pays /\ i \in DOMAIN p.covers /\ p.covers[i].qty \in Nat \ {0}
    BY FS_Subset DEF Covering, Typed, PaysTyped, PayTyped, CoversTyped
  <1> DEFINE f == [p \in Covering(i) |-> p.covers[i].qty]
  <1>2. Covered(i) = SumOver(f, Covering(i))
    BY TotalIs DEF Covered, Covering
  <1>3. \A p \in Covering(i) : f[p] \in Nat
    BY <1>1
  <1>4. SumOver(f, Covering(i)) \in Nat
    <2> HIDE DEF f
    <2> QED  BY <1>1, <1>3, SumNat
  <1>5. i \in Ids => Movable(i) \in Nat /\ Movable(i) <= line[i].qty
    BY <1>2, <1>4, LineSays DEF Movable, Minus, Typed
  <1> QED  BY <1>1, <1>2, <1>4, <1>5

\* Pieces somebody may pick.
LEMMA SelectionSays ==
    ASSUME Typed, NEW o, NEW sel \in Selections(o) \cup {AllRemaining(o)}
    PROVE  /\ DOMAIN sel \subseteq Live(o) /\ DOMAIN sel \subseteq Ids /\ IsFiniteSet(DOMAIN sel)
           /\ \A i \in DOMAIN sel : sel[i] \in Nat \ {0} /\ sel[i] <= Movable(i)
  <1>1. Live(o) \subseteq Ids /\ IsFiniteSet(Ids) /\ \A i \in Live(o) : Movable(i) \in Nat
    BY LineSays, CoveredSays DEF Live, Typed
  <1>2. CASE sel = AllRemaining(o)
    <2>1. DOMAIN sel \subseteq Live(o) /\ \A i \in DOMAIN sel : Movable(i) > 0 /\ sel[i] = Movable(i)
      BY <1>2 DEF AllRemaining
    <2> QED  BY <1>1, <2>1, FS_Subset
  <1>3. CASE sel \in Selections(o)
    <2>1. PICK f \in [Live(o) -> 0..MaxPieces] :
             /\ \A i \in Live(o) : f[i] <= Movable(i)
             /\ sel = [i \in {j \in DOMAIN f : f[j] > 0} |-> f[i]]
      BY <1>3 DEF Selections, Restrict
    <2>2. DOMAIN sel \subseteq Live(o) /\ \A i \in DOMAIN sel : f[i] > 0 /\ sel[i] = f[i]
      BY <2>1
    <2>3. \A i \in DOMAIN sel : sel[i] \in Nat \ {0} /\ sel[i] <= Movable(i)
      BY <2>1, <2>2, BillsAssumption
    <2> QED  BY <1>1, <2>2, <2>3, FS_Subset
  <1> QED  BY <1>2, <1>3
-----------------------------------------------------------------------------
(* What the steps do to the lines. *)

\* A step that only delivers pieces, or none.
Delivers ==
    /\ LinesTyped' /\ DOMAIN line' = DOMAIN line
    /\ \A i \in Ids : /\ line'[i].home = line[i].home /\ line'[i].live = line[i].live
                      /\ line'[i].qty = line[i].qty /\ line'[i].amount = line[i].amount

\* A step that takes pieces nobody paid out of order from: to another order, or cancelled.
TakesOut(sel, from, o, live) ==
    /\ line' = TakeOut(sel, o, live) /\ TakenFrom(sel, from, live)
    /\ from \in Orders /\ o \in Orders /\ (o # from \/ ~live)
    /\ \A i \in DOMAIN sel : sel[i] \in Nat \ {0} /\ sel[i] <= Movable(i)

\* A line with more delivered is a line.
LEMMA DoneTyped ==
    ASSUME NEW l \in LineType, GoodLine(l), NEW x \in Nat, x <= l.qty
    PROVE  LET m == [l EXCEPT !.done = x]
           IN  /\ m \in LineType /\ GoodLine(m) /\ m.done = x
               /\ m.home = l.home /\ m.live = l.live /\ m.qty = l.qty /\ m.amount = l.amount
  BY DEF LineType, GoodLine

\* Delivering some lines in place.
LEMMA DeliversSome ==
    ASSUME Typed, NEW D, DOMAIN line' = Ids, line' = [i \in Ids |-> line'[i]],
           \A i \in Ids \ D : line'[i] = line[i],
           \A i \in Ids \cap D : \E x \in Nat : x <= line[i].qty /\ line'[i] = [line[i] EXCEPT !.done = x]
    PROVE  Delivers
  <1>1. /\ Ids = 1..Len(line) /\ Len(line) \in Nat
        /\ \A i \in Ids : line[i] \in LineType /\ GoodLine(line[i])
    BY LineSays DEF Typed
  <1>2. ASSUME NEW i \in Ids
        PROVE  /\ line'[i] \in LineType /\ GoodLine(line'[i])
               /\ line'[i].home = line[i].home /\ line'[i].live = line[i].live
               /\ line'[i].qty = line[i].qty /\ line'[i].amount = line[i].amount
    <2>1. CASE i \in D
      <3>1. PICK x \in Nat : x <= line[i].qty /\ line'[i] = [line[i] EXCEPT !.done = x]
        BY <2>1
      <3> QED  BY <1>1, <3>1, DoneTyped
    <2>2. CASE i \notin D
      BY <1>1, <2>2
    <2> QED  BY <2>1, <2>2
  <1>3. line' \in [Ids -> LineType]
    BY <1>2
  <1>4. line' \in Seq(LineType)
    BY <1>1, <1>3
  <1>5. LinesTyped'
    BY <1>2, <1>4 DEF LinesTyped, Ids
  <1> QED  BY <1>2, <1>5 DEF Delivers, Ids

\* A step that leaves the lines alone.
LEMMA DeliversNone ==
    ASSUME Typed, UNCHANGED line
    PROVE  Delivers
  BY DEF Delivers, Typed, LinesTyped, Ids

\* Handing over on the last payment.
LEMMA PayDelivers ==
    ASSUME Typed, NEW o \in Orders, NEW amount, NEW covers, NEW part, NEW n, Pay(o, amount, covers, part, n)
    PROVE  Delivers
  <1>1. CASE UNCHANGED line
    BY <1>1, DeliversNone
  <1>2. CASE line' = [i \in Ids |-> IF i \in Live(o) THEN [line[i] EXCEPT !.done = @ + Pending(line[i])]
                                                     ELSE line[i]]
    <2>1. DOMAIN line' = Ids /\ line' = [i \in Ids |-> line'[i]]
      BY <1>2
    <2>2. \A i \in Ids \ Live(o) : line'[i] = line[i]
      BY <1>2
    <2>3. ASSUME NEW i \in Ids \cap Live(o)
          PROVE  \E x \in Nat : x <= line[i].qty /\ line'[i] = [line[i] EXCEPT !.done = x]
      <3> DEFINE x == line[i].done + Pending(line[i])
      <3>1. line'[i] = [line[i] EXCEPT !.done = x]
        BY <1>2
      <3>2. x \in Nat /\ x <= line[i].qty
        BY LineSays DEF Pending, Typed
      <3> QED  BY <3>1, <3>2
    <2> QED  BY <2>1, <2>2, <2>3, DeliversSome
  <1> QED  BY <1>1, <1>2 DEF Pay

\* Delivering pieces of a line.
LEMMA DeliverLineDelivers ==
    ASSUME Typed, NEW i \in Ids, NEW k, DeliverLine(i, k)
    PROVE  Delivers
  <1>1. k \in 1..Pending(line[i]) /\ line' = [line EXCEPT ![i].done = @ + k]
    BY DEF DeliverLine
  <1>2. line[i].done + k \in Nat /\ line[i].done + k <= line[i].qty
    BY <1>1, LineSays DEF Pending, Typed
  <1>3. DOMAIN line' = Ids /\ line' = [j \in Ids |-> line'[j]]
    BY <1>1, LineSays DEF Typed, LinesTyped, Ids
  <1>4. \A j \in Ids \ {i} : line'[j] = line[j]
    BY <1>1 DEF Ids
  <1>5. line'[i] = [line[i] EXCEPT !.done = line[i].done + k]
    BY <1>1 DEF Ids
  <1> DEFINE D == {i}
  <1>6. \A j \in Ids \cap D : \E x \in Nat : x <= line[j].qty /\ line'[j] = [line[j] EXCEPT !.done = x]
    BY <1>2, <1>5
  <1>7. \A j \in Ids \ D : line'[j] = line[j]
    BY <1>4
  <1> HIDE DEF D
  <1> QED  BY <1>3, <1>6, <1>7, DeliversSome

\* Delivering all of an order.
LEMMA DeliverAllDelivers ==
    ASSUME Typed, NEW o \in Orders, DeliverAll(o)
    PROVE  Delivers
  <1>1. line' = [i \in Ids |-> IF i \in Live(o) THEN [line[i] EXCEPT !.done = line[i].qty] ELSE line[i]]
    BY DEF DeliverAll
  <1>2. DOMAIN line' = Ids /\ line' = [j \in Ids |-> line'[j]]
    BY <1>1
  <1>3. \A j \in Ids \ Live(o) : line'[j] = line[j]
    BY <1>1
  <1>4. \A j \in Ids \cap Live(o) :
           \E x \in Nat : x <= line[j].qty /\ line'[j] = [line[j] EXCEPT !.done = x]
    <2> TAKE j \in Ids \cap Live(o)
    <2>1. line'[j] = [line[j] EXCEPT !.done = line[j].qty]
      BY <1>1
    <2>2. line[j].qty \in Nat /\ line[j].qty <= line[j].qty
      BY LineSays DEF Typed
    <2> QED  BY <2>1, <2>2
  <1> QED  BY <1>2, <1>3, <1>4, DeliversSome

\* Pieces taken out leave lines that are lines.
LEMMA TakesOutTyped ==
    ASSUME Typed, NEW sel, NEW from, NEW o, NEW live, TakesOut(sel, from, o, live)
    PROVE  LinesTyped' /\ DOMAIN line \subseteq DOMAIN line'
  <1> DEFINE ls == TakeOut(sel, o, live)
  <1>1. Took(ls, sel, o, live, Len(line))
    BY TakeOutSays DEF TakesOut, TakenFrom
  <1>2. ls \in Seq(LineType) /\ \A i \in DOMAIN ls : GoodLine(ls[i])
    <2> HIDE DEF ls
    <2> QED  BY <1>1, LineTypeAt DEF Took, TakesOut
  <1>3. DOMAIN line \subseteq DOMAIN ls
    BY OldLines DEF TakesOut, Ids
  <1>4. line' = ls
    BY DEF TakesOut
  <1> HIDE DEF ls
  <1> QED  BY <1>2, <1>3, <1>4 DEF LinesTyped, Ids

\* Removing pieces takes them out.
LEMMA RemovePiecesTakes ==
    ASSUME Typed, NEW i \in Ids, NEW k, RemovePieces(i, k)
    PROVE  /\ TakesOut([j \in {i} |-> k], line[i].home, line[i].home, FALSE)
           /\ TakeOff(line[i].home, [j \in {i} |-> k])
           /\ status[line[i].home] \in {"abierta", "lista"}
  <1> DEFINE sel == [j \in {i} |-> k]
             h == line[i].home
  <1>1. k \in 1..Removable(i) /\ TakeOff(h, sel) /\ line[i].live /\ status[h] \in {"abierta", "lista"}
    BY DEF RemovePieces
  <1>2. /\ line[i].qty \in Nat /\ line[i].done \in Nat /\ h \in Orders
        /\ Movable(i) \in Nat /\ Movable(i) <= line[i].qty
    BY LineSays, CoveredSays DEF Typed
  <1>3. Removable(i) \in Int /\ Removable(i) <= Movable(i)
    <2>1. Pending(line[i]) \in Int
      BY <1>2 DEF Pending
    <2> QED  BY <1>2, <2>1 DEF Removable, Min
  <1>4. k \in Nat \ {0} /\ k <= Movable(i) /\ k \in 1..line[i].qty
    BY <1>1, <1>2, <1>3
  <1>5. DOMAIN sel = {i} /\ sel[i] = k
    OBVIOUS
  <1>6. line' = TakeOut(sel, h, FALSE)
    BY <1>1 DEF TakeOff
  <1> HIDE DEF sel
  <1>7. i \in Live(h) /\ Live(h) \subseteq Ids
    BY <1>1 DEF Live
  <1>8. Takable(sel, FALSE)
    BY <1>4, <1>5, <1>7 DEF Takable, Typed, LinesTyped
  <1>9. TakenFrom(sel, h, FALSE)
    BY <1>5, <1>7, <1>8 DEF TakenFrom
  <1>10. TakesOut(sel, h, h, FALSE)
    BY <1>2, <1>4, <1>5, <1>6, <1>9 DEF TakesOut
  <1> QED  BY <1>1, <1>10 DEF sel
\* Cancelling what is pending takes it out.
LEMMA CancelPendingTakes ==
    ASSUME Typed, NEW o \in Orders, CancelPending(o)
    PROVE  LET sel == [i \in {j \in Live(o) : Pending(line[j]) > 0} |-> Pending(line[i])]
           IN  TakesOut(sel, o, o, FALSE) /\ TakeOff(o, sel) /\ OrderNotVoided(status[o]) /\ DOMAIN sel # {}
  <1> DEFINE P == {j \in Live(o) : Pending(line[j]) > 0}
             sel == [i \in P |-> Pending(line[i])]
  <1>1. P # {} /\ (\A i \in P : Pending(line[i]) <= Movable(i)) /\ TakeOff(o, sel) /\ OrderNotVoided(status[o])
    BY DEF CancelPending
  <1>2. P \subseteq Live(o) /\ Live(o) \subseteq Ids /\ DOMAIN sel = P
    BY DEF Live
  <1>3. \A i \in P : /\ sel[i] \in Nat \ {0} /\ sel[i] <= Movable(i) /\ sel[i] \in 1..line[i].qty
    <2> TAKE i \in P
    <2>1. i \in Ids /\ Pending(line[i]) > 0 /\ sel[i] = Pending(line[i])
      BY <1>2
    <2>2. line[i].qty \in Nat /\ line[i].done \in Nat
      BY <2>1, LineSays DEF Typed
    <2>3. sel[i] \in Nat \ {0} /\ sel[i] <= line[i].qty
      BY <2>1, <2>2 DEF Pending
    <2> QED  BY <1>1, <2>1, <2>2, <2>3
  <1>4. line' = TakeOut(sel, o, FALSE)
    BY <1>1 DEF TakeOff
  <1> HIDE DEF sel, P
  <1>5. Takable(sel, FALSE)
    BY <1>2, <1>3 DEF Takable, Typed, LinesTyped
  <1>6. TakenFrom(sel, o, FALSE)
    BY <1>2, <1>5 DEF TakenFrom
  <1>7. TakesOut(sel, o, o, FALSE)
    BY <1>2, <1>3, <1>4, <1>6 DEF TakesOut
  <1> QED  BY <1>1, <1>2, <1>7 DEF sel, P

\* An order a move could be asked for, or the one it opens.
Receiver(r, to) == IF r.to # 0 THEN to = r.to ELSE to \in Orders /\ status[to] = "none"

\* A move that commits takes its pieces out of an order that lives, to another one.
LEMMA MoveTakes ==
    ASSUME Typed, NEW key \in MoveKeys, asked[key].from # 0,
           CanMove(asked[key].from, asked[key].to, asked[key].sel),
           NEW to, Receiver(asked[key], to), Pass(asked[key].from, to, asked[key].sel, key)
    PROVE  /\ TakesOut(asked[key].sel, asked[key].from, to, TRUE)
           /\ to # asked[key].from /\ asked[key].to # asked[key].from
  <1> DEFINE r == asked[key]
             sel == r.sel
  <1>1. AskTyped(r) /\ r.from \in Orders /\ r.to # r.from /\ OrderNotVoided(status[r.from])
    BY DEF Typed, MovesTyped, AskTyped, CanMove
  <1>2. to \in Orders /\ to # r.from
    BY <1>1 DEF Receiver, AskTyped, OrderNotVoided
  <1>3. DOMAIN sel \subseteq Live(r.from) /\ \A i \in DOMAIN sel : sel[i] \in 1..Movable(i)
    BY DEF CanMove, CanSplit
  <1>4. Live(r.from) \subseteq Ids
    BY DEF Live
  <1>5. \A i \in DOMAIN sel : sel[i] \in Nat \ {0} /\ sel[i] <= Movable(i) /\ sel[i] \in 1..line[i].qty
    <2> HIDE DEF sel
    <2> TAKE i \in DOMAIN sel
    <2>1. i \in Ids /\ sel[i] \in 1..Movable(i)
      BY <1>3, <1>4
    <2>2. line[i].qty \in Nat /\ Movable(i) \in Nat /\ Movable(i) <= line[i].qty
      BY <2>1, LineSays, CoveredSays DEF Typed
    <2> QED  BY <2>1, <2>2
  <1>6. line' = TakeOut(sel, to, TRUE)
    BY DEF Pass
  <1> HIDE DEF sel
  <1>7. Takable(sel, TRUE)
    BY <1>3, <1>4, <1>5 DEF Takable, Typed, LinesTyped
  <1>8. TakenFrom(sel, r.from, TRUE)
    BY <1>3, <1>7 DEF TakenFrom
  <1>9. TakesOut(sel, r.from, to, TRUE)
    BY <1>1, <1>2, <1>5, <1>6, <1>8 DEF TakesOut
  <1> QED  BY <1>1, <1>2, <1>9 DEF sel

\* Pieces of live lines a payment may cover.
CoversFit(o, covers) ==
    \A i \in DOMAIN covers : i \in Live(o) /\ covers[i].qty \in Nat \ {0} /\ covers[i].qty <= Movable(i)

\* The parts already charged of a series are some of its parts.
LEMMA ChargedSays ==
    ASSUME Typed, NEW o \in Orders, NEW n \in Nat \ {0}
    PROVE  Charged(o, n) \subseteq 1..n /\ IsFiniteSet(Charged(o, n)) /\ Cardinality(Charged(o, n)) \in 0..n
  <1>1. Charged(o, n) \subseteq 1..n
    BY DEF Charged, PaysOf, Typed, PaysTyped, PayTyped
  <1>2. IsFiniteSet(1..n) /\ Cardinality(1..n) = n
    BY FS_Interval
  <1>3. IsFiniteSet(Charged(o, n)) /\ Cardinality(Charged(o, n)) <= n
    BY <1>1, <1>2, FS_Subset
  <1>4. Cardinality(Charged(o, n)) \in Nat
    BY <1>3, FS_CardinalityType
  <1> QED  BY <1>1, <1>3, <1>4

\* With a part of the series to charge, the parts left are one or more.
LEMMA PartsLeft ==
    ASSUME Typed, NEW o \in Orders, NEW n \in Nat, NEW part \in (1..n) \ Charged(o, n)
    PROVE  n \in Nat \ {0} /\ n - Cardinality(Charged(o, n)) \in Nat \ {0}
  <1>1. n \in Nat \ {0}
    OBVIOUS
  <1>2. Charged(o, n) \subseteq 1..n /\ IsFiniteSet(Charged(o, n)) /\ Cardinality(Charged(o, n)) \in 0..n
    BY <1>1, ChargedSays
  <1>3. Charged(o, n) # 1..n /\ IsFiniteSet(1..n) /\ Cardinality(1..n) = n
    BY FS_Interval
  <1>4. Cardinality(Charged(o, n)) < n
    BY <1>2, <1>3, FS_Subset
  <1> QED  BY <1>1, <1>2, <1>4

\* What a selection is charged is an amount.
LEMMA SelectionInt ==
    ASSUME Typed, NEW o \in Orders, NEW sel \in Selections(o) \cup {AllRemaining(o)}
    PROVE  SelectionAmount(o, sel) \in Int
  <1>1. CASE CoversEverythingLeft(o, sel)
    <2>1. Outstanding(o) \in Int
      BY OwesSays
    <2> QED  BY <1>1, <2>1 DEF SelectionAmount
  <1>2. CASE ~ CoversEverythingLeft(o, sel)
    <2> DEFINE f == [i \in DOMAIN sel |-> sel[i] * line[i].unit]
    <2>1. \A i \in DOMAIN sel : f[i] \in Nat
      <3> TAKE i \in DOMAIN sel
      <3>1. sel[i] \in Nat /\ line[i].unit \in Nat
        BY SelectionSays, LineSays DEF Typed
      <3> QED  BY <3>1
    <2>2. DOMAIN f = DOMAIN sel
      OBVIOUS
    <2>3. Total(f) \in Nat
      <3> HIDE DEF f
      <3>1. SumOver(f, DOMAIN sel) \in Nat
        BY <2>1, SelectionSays, SumNat
      <3> QED  BY <2>2, <3>1, TotalIs
    <2>4. PICK g \in Nat : g = Total(f)
      BY <2>3
    <2>5. SelectionAmount(o, sel) = Rounded(g, 2) - Share(o, g)
      BY <1>2, <2>4 DEF SelectionAmount
    <2>6. Rounded(g, 2) \in Int
      BY RoundedInt
    <2>7. Share(o, g) \in Int
      <3>1. CASE HasDiscount(o)
        <4>1. bill.discount[o] \in Nat /\ Subtotal(line, o) \in Nat \ {0}
          <5>1. bill.discount[o] \in Nat
            BY BillSays
          <5>2. Subtotal(line, o) \in Nat
            BY OwesSays
          <5> QED  BY <3>1, <5>1, <5>2 DEF HasDiscount
        <4>2. g * bill.discount[o] \in Int /\ 2 * Subtotal(line, o) \in Nat \ {0}
          BY <4>1
        <4> QED  BY <3>1, <4>2, RoundedInt DEF Share
      <3>2. CASE ~ HasDiscount(o)
        BY <3>2 DEF Share
      <3> QED  BY <3>1, <3>2
    <2> QED  BY <2>5, <2>6, <2>7
  <1> QED  BY <1>1, <1>2

\* The amount of a part is one.
LEMMA PartInt ==
    ASSUME Typed, NEW o \in Orders, NEW n \in Nat, NEW part \in (1..n) \ Charged(o, n)
    PROVE  PartAmount(o, n) \in Int
  <1>1. n - Cardinality(Charged(o, n)) \in Nat \ {0} /\ Outstanding(o) \in Nat
    BY PartsLeft, OwesSays
  <1>2. PICK d \in Nat \ {0} : d = n - Cardinality(Charged(o, n))
    BY <1>1
  <1>3. PICK a \in Nat : a = Outstanding(o)
    BY <1>1
  <1>4. a \div d \in Int
    OBVIOUS
  <1> QED  BY <1>2, <1>3, <1>4 DEF PartAmount

\* A charge is one payment: an amount, the pieces it covers, and the part it is of a series.
LEMMA ChargeSays ==
    ASSUME Typed, NEW o \in Orders, Charge(o)
    PROVE  \E amount \in Int, n \in Nat : \E covers, part :
              /\ Pay(o, amount, covers, part, n) /\ CoversFit(o, covers)
              /\ n # 0 => part \in (1..n) \ Charged(o, n) /\ amount = PartAmount(o, n)
  <1>1. CASE \E a \in bill.typed : Pay(o, a, <<>>, 0, 0)
    <2>1. PICK a \in bill.typed : Pay(o, a, <<>>, 0, 0)
      BY <1>1
    <2>2. a \in Int /\ CoversFit(o, <<>>)
      BY BillSays DEF CoversFit
    <2> QED  BY <2>1, <2>2
  <1>2. CASE \E sel \in Selections(o) \cup {AllRemaining(o)} :
                Pay(o, SelectionAmount(o, sel), SelectionLines(o, sel), 0, 0)
    <2>1. PICK sel \in Selections(o) \cup {AllRemaining(o)} :
                Pay(o, SelectionAmount(o, sel), SelectionLines(o, sel), 0, 0)
      BY <1>2
    <2>2. SelectionAmount(o, sel) \in Int
      BY SelectionInt
    <2>3. CoversFit(o, SelectionLines(o, sel))
      <3>1. CASE sel = <<>>
        <4>1. SelectionLines(o, sel) = <<>>
          BY <3>1 DEF SelectionLines
        <4> QED  BY <4>1 DEF CoversFit
      <3>2. CASE sel # <<>>
        <4>1. PICK paid : SelectionLines(o, sel) = [i \in DOMAIN sel |-> [qty |-> sel[i], amount |-> paid[i]]]
          BY <3>2 DEF SelectionLines
        <4>2. \A i \in DOMAIN sel : i \in Live(o) /\ sel[i] \in Nat \ {0} /\ sel[i] <= Movable(i)
          BY SelectionSays
        <4> QED  BY <4>1, <4>2 DEF CoversFit
      <3> QED  BY <3>1, <3>2
    <2> QED  BY <2>1, <2>2, <2>3
  <1>3. CASE \E n \in bill.parts : \E part \in (1..n) \ Charged(o, n) :
                Pay(o, PartAmount(o, n), <<>>, part, n)
    <2>0. PICK n \in bill.parts : \E part \in (1..n) \ Charged(o, n) : Pay(o, PartAmount(o, n), <<>>, part, n)
      BY <1>3
    <2>1. PICK part \in (1..n) \ Charged(o, n) : Pay(o, PartAmount(o, n), <<>>, part, n)
      BY <2>0
    <2>2. n \in Nat /\ CoversFit(o, <<>>)
      BY BillSays DEF CoversFit
    <2>3. PartAmount(o, n) \in Int
      BY <2>2, PartInt
    <2> QED  BY <2>1, <2>2, <2>3
  <1> QED  BY <1>1, <1>2, <1>3 DEF Charge
-----------------------------------------------------------------------------
(* The steps, by what they do. *)

\* A payment, of some pieces or of a part of a series.
PaysStep(o, amount, covers, part, n) ==
    /\ Pay(o, amount, covers, part, n) /\ CoversFit(o, covers)
    /\ n # 0 => part \in (1..n) \ Charged(o, n) /\ amount = PartAmount(o, n)

PaysOne == \E o \in Orders, amount \in Int, n \in Nat : \E covers, part : PaysStep(o, amount, covers, part, n)

VoidsOne == \E p \in pays : VoidPayment(p)

DeliversOne == (\E o \in Orders : DeliverAll(o)) \/ (\E i \in Ids, k \in 1..MaxPieces : DeliverLine(i, k))

\* Pieces of an order cancelled: something of it was pending.
CutsStep(o, sel) ==
    /\ TakesOut(sel, o, o, FALSE) /\ TakeOff(o, sel)
    /\ status[o] \in {"abierta", "lista"} \/ \E i \in Live(o) : Pending(line[i]) > 0
    /\ OrderNotVoided(status[o])

CutsOne == \E o \in Orders : \E sel : CutsStep(o, sel)

\* A move that commits.
MovesStep(t, key, to) ==
    /\ key = move[t].key /\ asked[key].from # 0 /\ ~ AlreadyMoved(key)
    /\ CanMove(asked[key].from, asked[key].to, asked[key].sel) /\ Receiver(asked[key], to)
    /\ Pass(asked[key].from, to, asked[key].sel, key)
    /\ move' = [move EXCEPT ![t] = Idle] /\ UNCHANGED <<bill, pays, numbers, asked>>

MovesOne == \E t \in Tablets, key \in MoveKeys : \E to : MovesStep(t, key, to)

\* A move that is answered without moving anything.
EndsMove(t) ==
    /\ move' = [move EXCEPT ![t] = Idle]
    /\ UNCHANGED <<bill, status, line, pays, numbers, asked, gone>>

\* Steps no line and no payment sees.
QuietOne ==
    \/ \E o \in Orders : CancelEmpty(o)
    \/ \E key \in MoveKeys : AskMove(key)
    \/ \E t \in Tablets, key \in MoveKeys : MoveLock(t, key)
    \/ \E t \in Tablets : EndsMove(t)
    \/ UNCHANGED vars

\* Every step is one of them.
LEMMA StepIs ==
    ASSUME Typed, [Next]_vars
    PROVE  PaysOne \/ VoidsOne \/ DeliversOne \/ CutsOne \/ MovesOne \/ QuietOne
  <1> DEFINE Goal == PaysOne \/ VoidsOne \/ DeliversOne \/ CutsOne \/ MovesOne \/ QuietOne
  <1> SUFFICES Goal
    OBVIOUS
  <1>1. ASSUME NEW o \in Orders, Charge(o) PROVE Goal
    BY <1>1, ChargeSays DEF PaysOne, PaysStep
  <1>2. ASSUME NEW o \in Orders, DeliverAll(o) PROVE Goal
    BY <1>2 DEF DeliversOne
  <1>3. ASSUME NEW o \in Orders, CancelPending(o) PROVE Goal
    <2> DEFINE sel == [i \in {j \in Live(o) : Pending(line[j]) > 0} |-> Pending(line[i])]
    <2>1. TakesOut(sel, o, o, FALSE) /\ TakeOff(o, sel) /\ OrderNotVoided(status[o]) /\ DOMAIN sel # {}
      BY <1>3, CancelPendingTakes
    <2>2. \E i \in Live(o) : Pending(line[i]) > 0
      BY <2>1
    <2>3. CutsStep(o, sel)
      BY <2>1, <2>2 DEF CutsStep
    <2> QED  BY <2>3 DEF CutsOne
  <1>4. ASSUME NEW o \in Orders, CancelEmpty(o) PROVE Goal
    BY <1>4 DEF QuietOne
  <1>5. ASSUME NEW p \in pays, VoidPayment(p) PROVE Goal
    BY <1>5 DEF VoidsOne
  <1>6. ASSUME NEW i \in Ids, NEW k \in 1..MaxPieces, DeliverLine(i, k) PROVE Goal
    BY <1>6 DEF DeliversOne
  <1>7. ASSUME NEW i \in Ids, NEW k \in 1..MaxPieces, RemovePieces(i, k) PROVE Goal
    <2> DEFINE sel == [j \in {i} |-> k]
               o == line[i].home
    <2>1. TakesOut(sel, o, o, FALSE) /\ TakeOff(o, sel) /\ status[o] \in {"abierta", "lista"}
      BY <1>7, RemovePiecesTakes
    <2>2. o \in Orders /\ CutsStep(o, sel)
      BY <2>1, LineSays DEF CutsStep, Typed, OrderNotVoided
    <2> QED  BY <2>2 DEF CutsOne
  <1>8. ASSUME NEW key \in MoveKeys, AskMove(key) PROVE Goal
    BY <1>8 DEF QuietOne
  <1>9. ASSUME NEW t \in Tablets, NEW key \in MoveKeys, MoveLock(t, key) PROVE Goal
    BY <1>9 DEF QuietOne
  <1>10. ASSUME NEW t \in Tablets, MoveCommit(t) PROVE Goal
    <2> DEFINE key == move[t].key
               r == asked[key]
               new == {o \in Orders : status[o] = "none"}
    <2>1. /\ key # 0
          /\ IF ~AlreadyMoved(key) /\ CanMove(r.from, r.to, r.sel)
             THEN \E to \in IF r.to # 0 THEN {r.to} ELSE {o \in new : \A n \in new : o <= n} :
                     Pass(r.from, to, r.sel, key)
             ELSE UNCHANGED <<status, line, gone>>
          /\ move' = [move EXCEPT ![t] = Idle]
          /\ UNCHANGED <<bill, pays, numbers, asked>>
      BY <1>10 DEF MoveCommit
    <2>2. key \in MoveKeys /\ r.from # 0
      BY <2>1 DEF Typed, MovesTyped, WaitTyped
    <2>3. CASE ~AlreadyMoved(key) /\ CanMove(r.from, r.to, r.sel)
      <3>1. PICK to \in IF r.to # 0 THEN {r.to} ELSE {o \in new : \A n \in new : o <= n} :
                     Pass(r.from, to, r.sel, key)
        BY <2>1, <2>3
      <3>2. Receiver(r, to)
        BY <3>1 DEF Receiver
      <3>3. MovesStep(t, key, to)
        BY <2>1, <2>2, <2>3, <3>1, <3>2 DEF MovesStep
      <3> QED  BY <2>2, <3>3 DEF MovesOne
    <2>4. CASE ~ (~AlreadyMoved(key) /\ CanMove(r.from, r.to, r.sel))
      <3>1. EndsMove(t)
        BY <2>1, <2>4 DEF EndsMove
      <3> QED  BY <3>1 DEF QuietOne
    <2> QED  BY <2>3, <2>4
  <1>11. CASE UNCHANGED vars
    BY <1>11 DEF QuietOne
  <1> HIDE DEF Goal
  <1> QED  BY <1>1, <1>2, <1>3, <1>4, <1>5, <1>6, <1>7, <1>8, <1>9, <1>10, <1>11
           DEF Next, OrderStep, LineStep, MoveStep
\* Statuses after the lines are seen to.
LEMMA StatusTyped ==
    ASSUME NEW st \in [Orders -> Statuses \cup {"none"}], NEW ls, NEW o
    PROVE  /\ CloseIfDelivered(st, ls, o) \in [Orders -> Statuses \cup {"none"}]
           /\ Receive(st, ls, o) \in [Orders -> Statuses \cup {"none"}]
  BY DEF CloseIfDelivered, Receive, Statuses

\* Ids of orders are positive.
LEMMA OrderIds == \A o \in {0} \cup Orders : o \in Nat /\ (o = 0 <=> o \notin Orders)
  BY BillsAssumption

\* The lines of a bill are lines.
LEMMA InitLines ==
    ASSUME Init
    PROVE  LinesTyped
  <1>1. /\ bill \in Bills /\ bill.lines \in Seq([home : Orders, qty : Nat \ {0}, unit : Nat])
        /\ \A i \in DOMAIN bill.lines : bill.lines[i].unit % 2 = 0 \/ bill.lines[i].qty <= bill.lines[i].unit
    BY BillsAssumption, PricesAssumption DEF Init
  <1>2. line = [i \in DOMAIN bill.lines |->
                 [home |-> bill.lines[i].home, qty |-> bill.lines[i].qty, unit |-> bill.lines[i].unit,
                  done |-> 0, live |-> TRUE, amount |-> Rounded(bill.lines[i].qty * bill.lines[i].unit, 2)]]
    BY DEF Init
  <1>3. ASSUME NEW i \in DOMAIN bill.lines PROVE line[i] \in LineType /\ GoodLine(line[i])
    <2>0. bill.lines[i] \in [home : Orders, qty : Nat \ {0}, unit : Nat]
      <3>1. PICK S : S = [home : Orders, qty : Nat \ {0}, unit : Nat]
        OBVIOUS
      <3>2. bill.lines \in Seq(S)
        BY <1>1, <3>1
      <3>3. bill.lines[i] \in S
        BY <3>2
      <3> QED  BY <3>1, <3>3
    <2>1. /\ bill.lines[i].home \in Orders /\ bill.lines[i].qty \in Nat \ {0} /\ bill.lines[i].unit \in Nat
          /\ (bill.lines[i].unit % 2 = 0 \/ bill.lines[i].qty <= bill.lines[i].unit)
      BY <1>1, <2>0
    <2>2. PICK q \in Nat \ {0} : q = bill.lines[i].qty
      BY <2>1
    <2>3. PICK u \in Nat : u = bill.lines[i].unit
      BY <2>1
    <2>4. PICK h \in Orders : h = bill.lines[i].home
      BY <2>1
    <2>5. q * u \in Nat /\ Worth(q, u, Rounded(q * u, 2)) /\ Rounded(q * u, 2) \in Nat
      BY <2>1, <2>2, <2>3, WorthWhole, HalfUp
    <2>6. line[i] = [home |-> h, qty |-> q, unit |-> u, done |-> 0, live |-> TRUE, amount |-> Rounded(q * u, 2)]
      BY <1>2, <2>2, <2>3, <2>4
    <2>7. line[i] \in LineType
      BY <2>5, <2>6 DEF LineType
    <2>8. GoodLine(line[i])
      BY <2>5, <2>6 DEF GoodLine
    <2> QED  BY <2>7, <2>8
  <1>4. DOMAIN bill.lines = 1..Len(bill.lines) /\ Len(bill.lines) \in Nat /\ DOMAIN line = DOMAIN bill.lines
    BY <1>1, <1>2
  <1>5. line \in [1..Len(bill.lines) -> LineType]
    BY <1>2, <1>3, <1>4
  <1>6. line \in Seq(LineType)
    BY <1>4, <1>5
  <1> QED  BY <1>3, <1>4, <1>6 DEF LinesTyped, Ids

\* The types hold at first.
LEMMA InitTyped == Init => Typed
  <1> SUFFICES ASSUME Init PROVE Typed
    OBVIOUS
  <1>1. bill \in Bills /\ status \in [Orders -> Statuses \cup {"none"}]
    BY DEF Init, Statuses
  <1>2. PaysTyped
    BY <1>1, BillsAssumption, FS_EmptySet DEF Init, PaysTyped
  <1>3. MovesTyped
    <2>1. \A k \in MoveKeys : asked[k] = [from |-> 0, to |-> 0, sel |-> <<>>]
      BY DEF Init
    <2>2. \A k \in MoveKeys : AskTyped(asked[k])
      <3>1. DOMAIN <<>> = {}
        OBVIOUS
      <3> QED  BY <2>1, <3>1, FS_EmptySet DEF AskTyped
    <2>3. \A t \in Tablets : WaitTyped(move[t])
      BY DEF Init, Idle, WaitTyped
    <2> QED  BY <2>2, <2>3 DEF Init, MovesTyped
  <1> QED  BY <1>1, <1>2, <1>3, InitLines DEF Typed

\* The types of the lines are kept by what only delivers or takes out.
LEMMA PaysKept ==
    ASSUME Typed, bill' = bill, numbers' = numbers, pays' \subseteq pays, DOMAIN line \subseteq DOMAIN line'
    PROVE  PaysTyped'
  <1>1. IsFiniteSet(pays')
    BY FS_Subset DEF Typed, PaysTyped
  <1>2. ASSUME NEW p \in pays' PROVE PayTyped(p)'
    BY <1>2 DEF Typed, PaysTyped, PayTyped, CoversTyped, Ids
  <1> QED  BY <1>1, <1>2 DEF Typed, PaysTyped

\* Keys and tablets are typed as long as no step touches them.
LEMMA MovesKept ==
    ASSUME Typed, UNCHANGED <<asked, gone, move>>
    PROVE  MovesTyped'
  BY DEF Typed, MovesTyped, WaitTyped

\* A payment keeps the types.
LEMMA PaysOneTyped ==
    ASSUME Typed, PaysOne
    PROVE  Typed'
  <1>1. PICK o \in Orders, amount \in Int, n \in Nat : \E covers, part : PaysStep(o, amount, covers, part, n)
    BY DEF PaysOne
  <1>2. PICK covers, part : PaysStep(o, amount, covers, part, n)
    BY <1>1
  <1>3. Pay(o, amount, covers, part, n) /\ CoversFit(o, covers) /\ (n # 0 => part \in 1..n)
    BY <1>2 DEF PaysStep
  <1>4. Delivers
    BY <1>3, PayDelivers
  <1>0. PICK new : new = [number |-> numbers + 1, order |-> o, amount |-> amount, covers |-> covers,
                          part |-> part, of |-> n]
    OBVIOUS
  <1>5. pays' = pays \cup {new} /\ numbers' = numbers + 1 /\ UNCHANGED <<bill, asked, gone, move>> /\ numbers < bill.payments
    BY <1>0, <1>3 DEF Pay
  <1>6. amount \in Nat \ {0}
    BY <1>3 DEF Pay, ValidarCobro
  <1>7. numbers \in Nat /\ bill.payments \in Nat /\ numbers' \in 0..bill'.payments
    BY <1>5, BillSays DEF Typed, PaysTyped
  <1>8. PayTyped(new)'
    <2>1. \A i \in DOMAIN covers : i \in Ids' /\ covers[i].qty \in Nat \ {0}
      BY <1>3, <1>4 DEF CoversFit, Live, Delivers, Ids
    <2>2. CoversTyped(new)'
      BY <1>0, <2>1 DEF CoversTyped
    <2>3. new.number \in 1..numbers'
      BY <1>0, <1>5, <1>7
    <2> QED  BY <1>0, <1>3, <1>6, <2>2, <2>3 DEF PayTyped
  <1>9. \A p \in pays : PayTyped(p)'
    <2> TAKE p \in pays
    <2>1. PayTyped(p)
      BY DEF Typed, PaysTyped
    <2> QED  BY <1>4, <1>5, <1>7, <2>1 DEF PayTyped, CoversTyped, Delivers, Ids
  <1>10. IsFiniteSet(pays')
    BY <1>5, FS_AddElement DEF Typed, PaysTyped
  <1>11. PaysTyped'
    BY <1>5, <1>7, <1>8, <1>9, <1>10 DEF PaysTyped
  <1>12. status' \in [Orders -> Statuses \cup {"none"}]
    BY <1>3 DEF Pay, Typed, Statuses
  <1>13. LinesTyped'
    BY <1>4 DEF Delivers
  <1> QED  BY <1>5, <1>11, <1>12, <1>13, MovesKept DEF Typed

\* A move that commits keeps them.
LEMMA MovesOneTyped ==
    ASSUME Typed, MovesOne
    PROVE  Typed'
  <1>1. PICK t \in Tablets, key \in MoveKeys : \E to : MovesStep(t, key, to)
    BY DEF MovesOne
  <1>2. PICK to : MovesStep(t, key, to)
    BY <1>1
  <1> DEFINE r == asked[key]
  <1>3. /\ Pass(r.from, to, r.sel, key) /\ r.from # 0 /\ CanMove(r.from, r.to, r.sel) /\ Receiver(r, to)
        /\ move' = [move EXCEPT ![t] = Idle] /\ UNCHANGED <<bill, pays, numbers, asked>>
    BY <1>2 DEF MovesStep
  <1>4. TakesOut(r.sel, r.from, to, TRUE)
    BY <1>3, MoveTakes
  <1>5. LinesTyped' /\ DOMAIN line \subseteq DOMAIN line'
    BY <1>4, TakesOutTyped
  <1>6. PaysTyped'
    BY <1>3, <1>5, PaysKept
  <1>7. Total(r.sel) \in Nat
    <2>1. IsFiniteSet(DOMAIN r.sel) /\ \A i \in DOMAIN r.sel : r.sel[i] \in Nat
      BY DEF Typed, MovesTyped, AskTyped
    <2> HIDE DEF r
    <2> QED  BY <2>1, TotalIs, SumNat
  <1>8. gone' \in [MoveKeys -> Nat]
    <2>1. gone' = [gone EXCEPT ![key] = @ + Total(r.sel)] /\ gone \in [MoveKeys -> Nat]
      BY <1>3 DEF Pass, Typed, MovesTyped
    <2> HIDE DEF r
    <2> QED  BY <1>7, <2>1
  <1>9. MovesTyped'
    <2>1. \A u \in Tablets : WaitTyped(move[u])'
      <3> TAKE u \in Tablets
      <3>1. move'[u] = Idle \/ move'[u] = move[u]
        BY <1>3 DEF Typed, MovesTyped
      <3> QED  BY <1>3, <3>1 DEF Typed, MovesTyped, WaitTyped, Idle
    <2> QED  BY <1>3, <1>8, <2>1 DEF Typed, MovesTyped
  <1>10. status' \in [Orders -> Statuses \cup {"none"}]
    <2> DEFINE st0 == [status EXCEPT ![to] = IF @ = "none" THEN "abierta" ELSE @]
               ls == TakeOut(r.sel, to, TRUE)
               st == Receive(st0, ls, to)
    <2>1. st0 \in [Orders -> Statuses \cup {"none"}]
      BY DEF Typed, Statuses
    <2>2. st \in [Orders -> Statuses \cup {"none"}]
      <3> HIDE DEF st0, ls
      <3> QED  BY <2>1, StatusTyped
    <2>3. status' = IF Everything(r.from, r.sel) THEN [st EXCEPT ![r.from] = "cancelada"]
                    ELSE CloseIfDelivered(st, ls, r.from)
      BY <1>3 DEF Pass
    <2> HIDE DEF st, ls, r
    <2>4. CloseIfDelivered(st, ls, r.from) \in [Orders -> Statuses \cup {"none"}]
      BY <2>2, StatusTyped
    <2>5. [st EXCEPT ![r.from] = "cancelada"] \in [Orders -> Statuses \cup {"none"}]
      BY <2>2 DEF Statuses
    <2> QED  BY <2>3, <2>4, <2>5
  <1> QED  BY <1>3, <1>5, <1>6, <1>9, <1>10 DEF Typed

\* The quiet steps keep them.
LEMMA QuietOneTyped ==
    ASSUME Typed, QuietOne
    PROVE  Typed'
  <1>1. UNCHANGED <<bill, line, pays, numbers, gone>>
    BY DEF QuietOne, CancelEmpty, AskMove, Ask, MoveLock, EndsMove, vars
  <1>2. LinesTyped' /\ PaysTyped'
    BY <1>1, PaysKept DEF Typed, LinesTyped, Ids
  <1>3. ASSUME NEW o \in Orders, CancelEmpty(o) PROVE Typed'
    BY <1>1, <1>2, <1>3, MovesKept DEF CancelEmpty, Typed, Statuses
  <1>4. ASSUME NEW key \in MoveKeys, AskMove(key) PROVE Typed'
    <2>1. PICK from \in Orders : \E to \in {0} \cup (Orders \ {from}) : \E sel \in Selections(from) : Ask(key, from, to, sel)
      BY <1>4 DEF AskMove
    <2>2. PICK to \in {0} \cup (Orders \ {from}) : \E sel \in Selections(from) : Ask(key, from, to, sel)
      BY <2>1
    <2>3. PICK sel \in Selections(from) : Ask(key, from, to, sel)
      BY <2>2
    <2> DEFINE r == [from |-> from, to |-> to, sel |-> sel]
    <2>4. asked' = [asked EXCEPT ![key] = r] /\ UNCHANGED <<status, move>>
      BY <2>3 DEF Ask
    <2>5. AskTyped(r) /\ r.from # 0
      <3>1. IsFiniteSet(DOMAIN sel) /\ \A i \in DOMAIN sel : sel[i] \in Nat
        BY SelectionSays
      <3>2. from # 0
        BY BillsAssumption
      <3> QED  BY <3>1, <3>2 DEF AskTyped
    <2> HIDE DEF r
    <2>6. \A k \in MoveKeys : AskTyped(asked'[k]) /\ (asked[k].from # 0 => asked'[k].from # 0)
      BY <2>4, <2>5 DEF Typed, MovesTyped
    <2>7. \A t \in Tablets : WaitTyped(move[t])'
      BY <2>4, <2>6 DEF Typed, MovesTyped, WaitTyped
    <2>8. MovesTyped'
      BY <1>1, <2>4, <2>6, <2>7 DEF Typed, MovesTyped
    <2> QED  BY <1>1, <1>2, <2>4, <2>8 DEF Typed
  <1>5. ASSUME NEW t \in Tablets, NEW key \in MoveKeys, MoveLock(t, key) PROVE Typed'
    <2> DEFINE r == asked[key]
               first == LockFirst(r.from, r.to)
               m == IF r.to = 0 THEN [holds |-> 0, waits |-> r.from, key |-> key]
                    ELSE [holds |-> first, waits |-> IF first = r.from THEN r.to ELSE r.from, key |-> key]
    <2>1. move' = [move EXCEPT ![t] = m] /\ r.from # 0 /\ UNCHANGED <<status, asked>>
      BY <1>5 DEF MoveLock
    <2>2. r.from \in Orders /\ r.to \in {0} \cup Orders /\ r.from # r.to
      BY <2>1 DEF Typed, MovesTyped, AskTyped
    <2>3. r.to # 0 => first \in {r.from, r.to} /\ first <= r.from /\ first <= r.to
      <3>1. r.from \in Nat /\ r.to \in Nat
        <4> HIDE DEF r
        <4> QED  BY <2>2, OrderIds
      <3> QED  BY <3>1 DEF LockFirst, Min
    <2>4. WaitTyped(m)
      <3>1. r.from \in Nat /\ r.to \in Nat
        <4> HIDE DEF r
        <4> QED  BY <2>2, OrderIds
      <3> HIDE DEF first
      <3> QED  BY <2>1, <2>2, <2>3, <3>1 DEF WaitTyped
    <2> HIDE DEF m
    <2>5. \A u \in Tablets : WaitTyped(move'[u])
      BY <2>1, <2>4 DEF Typed, MovesTyped
    <2>6. MovesTyped'
      BY <1>1, <2>1, <2>5 DEF Typed, MovesTyped, WaitTyped
    <2> QED  BY <1>1, <1>2, <2>1, <2>6 DEF Typed
  <1>6. ASSUME NEW t \in Tablets, EndsMove(t) PROVE Typed'
    <2>1. move' = [move EXCEPT ![t] = Idle] /\ UNCHANGED <<status, asked>>
      BY <1>6 DEF EndsMove
    <2>2. \A u \in Tablets : WaitTyped(move'[u])
      BY <2>1 DEF Typed, MovesTyped, WaitTyped, Idle
    <2>3. MovesTyped'
      BY <1>1, <2>1, <2>2 DEF Typed, MovesTyped, WaitTyped
    <2> QED  BY <1>1, <1>2, <2>1, <2>3 DEF Typed
  <1>7. CASE UNCHANGED vars
    BY <1>1, <1>2, <1>7, MovesKept DEF vars, Typed
  <1> QED  BY <1>3, <1>4, <1>5, <1>6, <1>7 DEF QuietOne

\* Types are kept by every step.
LEMMA NextTyped == Typed /\ [Next]_vars => Typed'
  <1> SUFFICES ASSUME Typed, [Next]_vars PROVE Typed'
    OBVIOUS
  <1>1. CASE VoidsOne
    <2>1. /\ pays' \subseteq pays /\ UNCHANGED <<bill, status, line, numbers, asked, gone, move>>
      BY <1>1 DEF VoidsOne, VoidPayment
    <2>2. LinesTyped' /\ PaysTyped' /\ MovesTyped'
      BY <2>1, PaysKept, MovesKept DEF Typed, LinesTyped, Ids
    <2> QED  BY <2>1, <2>2 DEF Typed
  <1>2. CASE DeliversOne
    <2>1. Delivers
      BY <1>2, DeliverAllDelivers, DeliverLineDelivers DEF DeliversOne
    <2>2. UNCHANGED <<bill, pays, numbers, asked, gone, move>>
      BY <1>2 DEF DeliversOne, DeliverAll, DeliverLine
    <2>3. PaysTyped' /\ MovesTyped' /\ LinesTyped'
      BY <2>1, <2>2, PaysKept, MovesKept DEF Delivers
    <2>4. status' \in [Orders -> Statuses \cup {"none"}]
      <3>1. \A o : DeliverAll(o) => status' \in [Orders -> Statuses \cup {"none"}]
        BY DEF DeliverAll, Typed, Statuses
      <3>2. \A i, k : DeliverLine(i, k) => status' \in [Orders -> Statuses \cup {"none"}]
        BY StatusTyped DEF DeliverLine, Typed
      <3> QED  BY <1>2, <3>1, <3>2 DEF DeliversOne
    <2> QED  BY <2>2, <2>3, <2>4 DEF Typed
  <1>3. CASE CutsOne
    <2>1. PICK o \in Orders : \E sel : CutsStep(o, sel)
      BY <1>3 DEF CutsOne
    <2>2. PICK sel : CutsStep(o, sel)
      BY <2>1
    <2>3. TakesOut(sel, o, o, FALSE) /\ TakeOff(o, sel)
      BY <2>2 DEF CutsStep
    <2>4. LinesTyped' /\ DOMAIN line \subseteq DOMAIN line'
      BY <2>3, TakesOutTyped
    <2>5. UNCHANGED <<bill, pays, numbers, asked, gone, move>> /\ status' = CloseIfDelivered(status, TakeOut(sel, o, FALSE), o)
      BY <2>3 DEF TakeOff
    <2>6. PaysTyped' /\ MovesTyped'
      BY <2>4, <2>5, PaysKept, MovesKept
    <2>7. status' \in [Orders -> Statuses \cup {"none"}]
      BY <2>5, StatusTyped DEF Typed
    <2> QED  BY <2>4, <2>5, <2>6, <2>7 DEF Typed
  <1> QED  BY <1>1, <1>2, <1>3, StepIs, PaysOneTyped, MovesOneTyped, QuietOneTyped

\* The types of bills, payments, moves and lines hold always: nothing is delivered that is not
\* there, no line is worth less than nothing, every payment names lines and pieces that exist.
THEOREM BillsTyped == Spec => []TypeOK
  <1>1. Spec => []Typed
    BY InitTyped, NextTyped, PTL DEF Spec
  <1> QED  BY <1>1, TypedSays, PTL

\* Two moves never hold an order each and wait for the other's: who holds one waits for a greater.
THEOREM MovesNeverCross == Spec => []NoWaitCycle
  <1>1. Typed => NoWaitCycle
    <2> SUFFICES ASSUME Typed, NEW t \in Tablets, NEW u \in Tablets,
                        move[t].holds # 0, move[u].holds # 0,
                        move[t].waits = move[u].holds, move[u].waits = move[t].holds
                 PROVE  FALSE
      BY DEF NoWaitCycle
    <2>1. move[t].holds < move[t].waits /\ move[u].holds < move[u].waits
      BY DEF Typed, MovesTyped, WaitTyped
    <2>2. move[t].holds \in Nat /\ move[u].holds \in Nat
      BY OrderIds DEF Typed, MovesTyped, WaitTyped
    <2> QED  BY <2>1, <2>2
  <1>2. Spec => []Typed
    BY InitTyped, NextTyped, PTL DEF Spec
  <1> QED  BY <1>1, <1>2, PTL
-----------------------------------------------------------------------------
(* Moves that are sent again. *)

\* A key that was not sent moved nothing.
UnsentMovedNothing == \A k \in MoveKeys : asked[k].from = 0 => gone[k] = 0

MovedInv == Typed /\ MovedOnce /\ UnsentMovedNothing

\* No key has moved anything at first.
LEMMA InitMoved == Init => MovedInv
  <1>1. Init => MovedOnce /\ UnsentMovedNothing
    BY DEF Init, MovedOnce, UnsentMovedNothing
  <1> QED  BY <1>1, InitTyped DEF MovedInv

\* A commit looks at what its key moved before it moves, under the locks.
LEMMA NextMoved == MovedInv /\ [Next]_vars => MovedInv'
  <1> SUFFICES ASSUME MovedInv, [Next]_vars PROVE (MovedOnce /\ UnsentMovedNothing)'
    BY NextTyped DEF MovedInv
  <1>0. Typed
    BY DEF MovedInv
  <1>1. CASE UNCHANGED <<asked, gone>>
    BY <1>1 DEF MovedInv, MovedOnce, UnsentMovedNothing
  <1>2. CASE MovesOne
    <2>1. PICK t \in Tablets, key \in MoveKeys : \E to : MovesStep(t, key, to)
      BY <1>2 DEF MovesOne
    <2>2. PICK to : MovesStep(t, key, to)
      BY <2>1
    <2>3. /\ gone' = [gone EXCEPT ![key] = @ + Total(asked[key].sel)] /\ UNCHANGED asked
          /\ ~ (gone[key] > 0) /\ asked[key].from # 0
      BY <2>2 DEF MovesStep, Pass, AlreadyMoved
    <2>4. Total(asked[key].sel) \in Nat
      <3>1. AskTyped(asked[key])
        BY <1>0 DEF Typed, MovesTyped
      <3> QED  BY <3>1, TotalIs, SumNat DEF AskTyped
    <2>5. gone \in [MoveKeys -> Nat]
      BY <1>0 DEF Typed, MovesTyped
    <2>6. gone'[key] = Total(asked[key].sel) /\ \A k \in MoveKeys \ {key} : gone'[k] = gone[k]
      <3>1. gone[key] = 0
        BY <2>3, <2>5
      <3> QED  BY <2>3, <2>4, <2>5, <3>1
    <2> QED  BY <2>3, <2>6 DEF MovedInv, MovedOnce, UnsentMovedNothing
  <1>3. ASSUME NEW key \in MoveKeys, AskMove(key) PROVE (MovedOnce /\ UnsentMovedNothing)'
    <2>1. asked[key].from = 0 /\ UNCHANGED gone /\ \A k \in MoveKeys \ {key} : asked'[k] = asked[k]
      BY <1>0, <1>3 DEF AskMove, Ask, Typed, MovesTyped
    <2>2. gone[key] = 0
      BY <2>1 DEF MovedInv, UnsentMovedNothing
    <2> QED  BY <2>1, <2>2 DEF MovedInv, MovedOnce, UnsentMovedNothing
  <1>4. CASE PaysOne \/ VoidsOne \/ DeliversOne \/ CutsOne
    <2>1. UNCHANGED <<asked, gone>>
      <3>1. CASE PaysOne
        BY <3>1 DEF PaysOne, PaysStep, Pay
      <3>2. CASE VoidsOne
        BY <3>2 DEF VoidsOne, VoidPayment
      <3>3. CASE DeliversOne
        BY <3>3 DEF DeliversOne, DeliverAll, DeliverLine
      <3>4. CASE CutsOne
        BY <3>4 DEF CutsOne, CutsStep, TakeOff
      <3> QED  BY <1>4, <3>1, <3>2, <3>3, <3>4
    <2> QED  BY <1>1, <2>1
  <1>5. CASE QuietOne
    <2>1. UNCHANGED <<asked, gone>> \/ \E key \in MoveKeys : AskMove(key)
      BY <1>5 DEF QuietOne, CancelEmpty, MoveLock, EndsMove, vars
    <2> QED  BY <1>1, <1>3, <2>1
  <1> QED  BY <1>0, <1>2, <1>4, <1>5, StepIs

\* A move sent any number of times moves what it was asked once, or nothing.
THEOREM MovesOnce == Spec => []MovedOnce
  <1>1. MovedInv => MovedOnce
    BY DEF MovedInv
  <1> QED  BY <1>1, InitMoved, NextMoved, PTL DEF Spec
-----------------------------------------------------------------------------
(* Pieces and who paid them. *)

\* The pieces of a line one payment covers more.
LEMMA CoveredGrows ==
    ASSUME Typed, NEW i, NEW new, new \notin pays, pays' = pays \cup {new},
           i \in DOMAIN new.covers => new.covers[i].qty \in Nat \ {0}
    PROVE  Covered(i)' = Covered(i) + IF i \in DOMAIN new.covers THEN new.covers[i].qty ELSE 0
  <1> DEFINE C == Covering(i)
             f == [p \in C |-> p.covers[i].qty]
  <1>1. IsFiniteSet(C) /\ Covered(i) = SumOver(f, C) /\ \A p \in C : f[p] \in Nat
    BY CoveredSays
  <1>2. CASE i \notin DOMAIN new.covers
    <2>1. {q \in pays' : i \in DOMAIN q.covers} = C
      BY <1>2 DEF Covering
    <2>2. Covered(i)' = Total([p \in C |-> p.covers[i].qty])
      BY <2>1 DEF Covered
    <2>3. Covered(i)' = SumOver(f, C)
      BY <2>2, TotalIs
    <2>4. Covered(i) \in Nat
      BY CoveredSays
    <2> HIDE DEF f, C
    <2> QED  BY <1>1, <1>2, <2>3, <2>4
  <1>3. CASE i \in DOMAIN new.covers
    <2> DEFINE D == C \cup {new}
               g == [p \in D |-> p.covers[i].qty]
    <2>1. {q \in pays' : i \in DOMAIN q.covers} = D
      BY <1>3 DEF Covering
    <2>2. Covered(i)' = Total(g)
      BY <2>1 DEF Covered
    <2>3. Covered(i)' = SumOver(g, D)
      BY <2>2, TotalIs
    <2>4. new \notin C /\ g[new] = new.covers[i].qty /\ \A p \in C : g[p] = f[p]
      BY DEF Covering
    <2>5. \A p \in C : g[p] \in Int
      BY <1>1, <2>4
    <2> HIDE DEF f, g, C
    <2>6. SumOver(g, D) = g[new] + SumOver(g, C)
      BY <1>1, <1>3, <2>4, <2>5, SumMore
    <2>7. SumOver(g, C) = SumOver(f, C)
      BY <1>1, <2>4, SumSame
    <2>8. SumOver(f, C) \in Nat
      BY <1>1, SumNat
    <2> QED  BY <1>1, <1>3, <2>3, <2>4, <2>6, <2>7, <2>8
  <1> QED  BY <1>2, <1>3

\* A payment that is voided covers nothing more.
LEMMA CoveredShrinks ==
    ASSUME Typed, NEW i, pays' \subseteq pays
    PROVE  Covered(i)' \in Nat /\ Covered(i)' <= Covered(i)
  <1> DEFINE C == Covering(i)
             D == {q \in pays' : i \in DOMAIN q.covers}
             f == [p \in C |-> p.covers[i].qty]
             g == [p \in D |-> p.covers[i].qty]
  <1>1. IsFiniteSet(C) /\ Covered(i) = SumOver(f, C) /\ \A p \in C : f[p] \in Nat
    BY CoveredSays
  <1>2. D \subseteq C /\ IsFiniteSet(D)
    BY <1>1, FS_Subset DEF Covering
  <1>3. Covered(i)' = Total(g)
    BY DEF Covered
  <1>4. Covered(i)' = SumOver(g, D)
    BY <1>3, TotalIs
  <1>5. \A p \in D : g[p] = f[p]
    BY <1>2
  <1> HIDE DEF f, g, C, D
  <1>6. SumOver(g, D) = SumOver(f, D)
    BY <1>2, <1>5, SumSame
  <1>7. SumOver(f, D) <= SumOver(f, C) /\ SumOver(f, D) \in Nat
    <2>1. SumOver(f, D) <= SumOver(f, C)
      BY <1>1, <1>2, SumSubset
    <2>2. SumOver(f, D) \in Nat
      BY <1>1, <1>2, SumNat
    <2> QED  BY <2>1, <2>2
  <1> QED  BY <1>1, <1>4, <1>6, <1>7
\* A line of which no piece is covered is in no payment.
LEMMA CoveredByNone ==
    ASSUME Typed, NEW i
    PROVE  Covered(i) = 0 <=> Covering(i) = {}
  <1> DEFINE C == Covering(i)
             f == [p \in C |-> p.covers[i].qty]
  <1>1. IsFiniteSet(C) /\ Covered(i) = SumOver(f, C) /\ \A p \in C : f[p] \in Nat \ {0}
    BY CoveredSays
  <1> HIDE DEF f, C
  <1>2. CASE C = {}
    BY <1>1, <1>2, SumEmpty DEF C
  <1>3. CASE C # {}
    <2>1. PICK p : p \in C
      BY <1>3
    <2>2. f[p] <= SumOver(f, C) /\ f[p] \in Nat \ {0}
      <3>1. \A q \in C : f[q] \in Nat
        BY <1>1
      <3> QED  BY <1>1, <2>1, <3>1, SumAtLeast
    <2>3. SumOver(f, C) # 0
      BY <1>1, <2>2
    <2> QED  BY <1>1, <1>3, <2>3 DEF C
  <1> QED  BY <1>2, <1>3

\* What nobody paid may be taken out.
LEMMA TakesUnpaid ==
    ASSUME Typed, PiecesPaidOnce, UNCHANGED pays,
           NEW sel, NEW from, NEW o, NEW live, TakesOut(sel, from, o, live)
    PROVE  PiecesPaidOnce'
  <1>1. TakenFrom(sel, from, live) /\ line' = TakeOut(sel, o, live)
    BY DEF TakesOut
  <1>2. /\ Ids \subseteq DOMAIN line' /\ \A i \in Ids \ DOMAIN sel : line'[i] = line[i]
        /\ \A i \in DOMAIN sel : line'[i] = LeftOf(line[i], sel[i], o, live)
    BY <1>1, OldLines
  <1>3. \A i : Covered(i)' = Covered(i)
    BY DEF Covered
  <1>4. DOMAIN sel \subseteq Ids
    BY <1>1 DEF TakenFrom, Takable
  <1>5. \A i \in Ids : Covered(i) <= line[i].qty
    BY DEF PiecesPaidOnce
  <1>6. \A p \in pays : \A i \in DOMAIN p.covers : i \in Ids /\ line[i].home = p.order /\ line[i].live
    BY DEF PiecesPaidOnce, Typed, PaysTyped, PayTyped, CoversTyped
  <1>7. ASSUME NEW i \in DOMAIN sel
        PROVE  /\ Covered(i) <= line'[i].qty
               /\ Covering(i) # {} => line'[i].home = line[i].home /\ line'[i].live = line[i].live
    <2>1. i \in Ids /\ sel[i] \in Nat \ {0} /\ sel[i] <= Movable(i)
      BY <1>4 DEF TakesOut
    <2>2. line[i] \in LineType /\ line[i].qty \in Nat /\ Covered(i) \in Nat
      BY <2>1, LineSays, CoveredSays DEF Typed
    <2>3. Covered(i) + sel[i] <= line[i].qty
      BY <2>1, <2>2 DEF Movable, Minus
    <2>4. CASE sel[i] = line[i].qty
      <3>1. line'[i] = [line[i] EXCEPT !.home = o, !.live = live]
        BY <1>2, <2>4 DEF LeftOf
      <3>2. line'[i].qty = line[i].qty
        BY <2>2, <3>1 DEF LineType
      <3>3. Covered(i) = 0
        BY <2>2, <2>3, <2>4
      <3> QED  BY <2>2, <3>2, <3>3, CoveredByNone
    <2>5. CASE sel[i] # line[i].qty
      <3>1. line'[i] = RestOf(line[i], sel[i])
        BY <1>2, <2>5 DEF LeftOf
      <3>2. line'[i].qty = line[i].qty - sel[i] /\ line'[i].home = line[i].home /\ line'[i].live = line[i].live
        BY <2>2, <3>1 DEF RestOf, LineType
      <3> QED  BY <2>1, <2>2, <2>3, <3>2
    <2> QED  BY <2>4, <2>5
  <1>8. ASSUME NEW i \in Ids' PROVE Covered(i)' <= line'[i].qty
    <2>1. CASE i \in DOMAIN sel
      BY <1>3, <1>7, <2>1
    <2>2. CASE i \in Ids \ DOMAIN sel
      BY <1>2, <1>3, <1>5, <2>2
    <2>3. CASE i \notin Ids
      <3>1. Covering(i) = {}
        BY <1>6, <2>3 DEF Covering
      <3>2. Covered(i) = 0
        BY <3>1, CoveredByNone
      <3>3. line'[i].qty \in Nat
        <4>1. LinesTyped'
          BY TakesOutTyped
        <4>2. line' \in Seq(LineType) /\ i \in DOMAIN line'
          BY <4>1 DEF LinesTyped, Ids
        <4>3. line'[i] \in LineType
          BY <4>2
        <4> QED  BY <4>3 DEF LineType
      <3> QED  BY <1>3, <3>2, <3>3
    <2> QED  BY <2>1, <2>2, <2>3
  <1>9. ASSUME NEW p \in pays, NEW i \in DOMAIN p.covers PROVE line'[i].home = p.order /\ line'[i].live
    <2>1. i \in Ids /\ line[i].home = p.order /\ line[i].live /\ p \in Covering(i)
      BY <1>6 DEF Covering
    <2>2. CASE i \in DOMAIN sel
      BY <1>7, <2>1, <2>2
    <2>3. CASE i \notin DOMAIN sel
      BY <1>2, <2>1, <2>3
    <2> QED  BY <2>2, <2>3
  <1> QED  BY <1>8, <1>9 DEF PiecesPaidOnce

PiecesInv == Typed /\ PiecesPaidOnce

\* Nothing is paid at first.
LEMMA InitPieces == Init => PiecesInv
  <1> SUFFICES ASSUME Init PROVE PiecesPaidOnce
    BY InitTyped DEF PiecesInv
  <1>1. Typed /\ pays = {}
    BY InitTyped DEF Init
  <1>2. ASSUME NEW i \in Ids PROVE Covered(i) <= line[i].qty
    <2>1. Covering(i) = {}
      BY <1>1 DEF Covering
    <2>2. Covered(i) = 0 /\ line[i].qty \in Nat
      BY <1>1, <2>1, CoveredByNone, LineSays DEF Typed
    <2> QED  BY <2>2
  <1> QED  BY <1>1, <1>2 DEF PiecesPaidOnce

\* A charge takes pieces nobody paid, and so do moves and removals.
LEMMA NextPieces == PiecesInv /\ [Next]_vars => PiecesInv'
  <1> SUFFICES ASSUME PiecesInv, [Next]_vars PROVE PiecesPaidOnce'
    BY NextTyped DEF PiecesInv
  <1>0. Typed /\ PiecesPaidOnce
    BY DEF PiecesInv
  <1>1. CASE PaysOne
    <2>1. PICK o \in Orders, amount \in Int, n \in Nat : \E covers, part : PaysStep(o, amount, covers, part, n)
      BY <1>1 DEF PaysOne
    <2>2. PICK covers, part : PaysStep(o, amount, covers, part, n)
      BY <2>1
    <2>3. PICK new : new = [number |-> numbers + 1, order |-> o, amount |-> amount, covers |-> covers,
                            part |-> part, of |-> n]
      OBVIOUS
    <2>4. pays' = pays \cup {new} /\ CoversFit(o, covers) /\ Delivers
      BY <1>0, <2>2, <2>3, PayDelivers DEF PaysStep, Pay
    <2>5. new \notin pays
      <3>1. \A p \in pays : p.number \in 1..numbers
        BY <1>0 DEF Typed, PaysTyped, PayTyped
      <3>2. numbers \in Nat /\ new.number = numbers + 1
        BY <1>0, <2>3, BillSays DEF Typed, PaysTyped
      <3> QED  BY <3>1, <3>2
    <2>6. /\ Ids' = Ids
          /\ \A i \in Ids : /\ line'[i].home = line[i].home /\ line'[i].live = line[i].live
                            /\ line'[i].qty = line[i].qty
      BY <2>4 DEF Delivers, Ids
    <2>7. ASSUME NEW i \in Ids PROVE Covered(i)' <= line[i].qty
      <3>1. Covered(i) <= line[i].qty /\ line[i].qty \in Nat /\ Covered(i) \in Nat
        BY <1>0, LineSays, CoveredSays DEF PiecesPaidOnce, Typed
      <3>2. new.covers = covers
        BY <2>3
      <3>3. i \in DOMAIN covers => covers[i].qty \in Nat \ {0} /\ covers[i].qty <= Movable(i)
        BY <2>4 DEF CoversFit
      <3>4. Covered(i)' = Covered(i) + IF i \in DOMAIN covers THEN covers[i].qty ELSE 0
        <4>1. i \in DOMAIN new.covers => new.covers[i].qty \in Nat \ {0}
          BY <3>2, <3>3
        <4> QED  BY <1>0, <2>4, <2>5, <3>2, <4>1, CoveredGrows
      <3>5. CASE i \in DOMAIN covers
        BY <3>1, <3>3, <3>4, <3>5 DEF Movable, Minus
      <3>6. CASE i \notin DOMAIN covers
        BY <3>1, <3>4, <3>6
      <3> QED  BY <3>5, <3>6
    <2>8. \A i \in DOMAIN new.covers : i \in Ids /\ line[i].home = new.order /\ line[i].live
      BY <2>3, <2>4 DEF CoversFit, Live
    <2>9. \A p \in pays : \A i \in DOMAIN p.covers : i \in Ids /\ line[i].home = p.order /\ line[i].live
      BY <1>0 DEF PiecesPaidOnce, Typed, PaysTyped, PayTyped, CoversTyped
    <2>10. \A p \in pays' : \A i \in DOMAIN p.covers : line'[i].home = p.order /\ line'[i].live
      BY <2>4, <2>6, <2>8, <2>9
    <2>11. \A i \in Ids' : Covered(i)' <= line'[i].qty
      BY <2>6, <2>7
    <2> QED  BY <2>10, <2>11 DEF PiecesPaidOnce
  <1>2. CASE VoidsOne
    <2>1. pays' \subseteq pays /\ line' = line
      BY <1>2 DEF VoidsOne, VoidPayment
    <2>2. \A i \in Ids : Covered(i)' <= line[i].qty
      <3> TAKE i \in Ids
      <3>1. Covered(i)' \in Nat /\ Covered(i)' <= Covered(i)
        BY <1>0, <2>1, CoveredShrinks
      <3>2. Covered(i) <= line[i].qty /\ line[i].qty \in Nat /\ Covered(i) \in Nat
        BY <1>0, LineSays, CoveredSays DEF PiecesPaidOnce, Typed
      <3> QED  BY <3>1, <3>2
    <2> QED  BY <1>0, <2>1, <2>2 DEF PiecesPaidOnce, Ids
  <1>3. CASE Delivers /\ UNCHANGED pays
    <2>1. \A i : Covered(i)' = Covered(i)
      BY <1>3 DEF Covered
    <2>2. /\ Ids' = Ids
          /\ \A i \in Ids : /\ line'[i].home = line[i].home /\ line'[i].live = line[i].live
                            /\ line'[i].qty = line[i].qty
      BY <1>3 DEF Delivers, Ids
    <2>3. \A p \in pays : \A i \in DOMAIN p.covers : i \in Ids /\ line[i].home = p.order /\ line[i].live
      BY <1>0 DEF PiecesPaidOnce, Typed, PaysTyped, PayTyped, CoversTyped
    <2>4. \A p \in pays' : \A i \in DOMAIN p.covers : line'[i].home = p.order /\ line'[i].live
      BY <1>3, <2>2, <2>3
    <2>5. \A i \in Ids' : Covered(i)' <= line'[i].qty
      BY <1>0, <2>1, <2>2 DEF PiecesPaidOnce
    <2> QED  BY <2>4, <2>5 DEF PiecesPaidOnce
  <1>4. CASE DeliversOne
    <2>1. Delivers
      BY <1>0, <1>4, DeliverAllDelivers, DeliverLineDelivers DEF DeliversOne
    <2>2. UNCHANGED pays
      BY <1>4 DEF DeliversOne, DeliverAll, DeliverLine
    <2> QED  BY <1>3, <2>1, <2>2
  <1>5. CASE CutsOne
    <2>1. PICK o \in Orders : \E sel : CutsStep(o, sel)
      BY <1>5 DEF CutsOne
    <2>2. PICK sel : CutsStep(o, sel)
      BY <2>1
    <2>3. TakesOut(sel, o, o, FALSE) /\ UNCHANGED pays
      BY <2>2 DEF CutsStep, TakeOff
    <2> QED  BY <1>0, <2>3, TakesUnpaid
  <1>6. CASE MovesOne
    <2>1. PICK t \in Tablets, key \in MoveKeys : \E to : MovesStep(t, key, to)
      BY <1>6 DEF MovesOne
    <2>2. PICK to : MovesStep(t, key, to)
      BY <2>1
    <2>3. TakesOut(asked[key].sel, asked[key].from, to, TRUE) /\ UNCHANGED pays
      BY <1>0, <2>2, MoveTakes DEF MovesStep
    <2> QED  BY <1>0, <2>3, TakesUnpaid
  <1>7. CASE QuietOne
    <2>1. UNCHANGED <<line, pays>>
      BY <1>7 DEF QuietOne, CancelEmpty, AskMove, Ask, MoveLock, EndsMove, vars
    <2> QED  BY <1>0, <1>3, <2>1, DeliversNone
  <1> QED  BY <1>0, <1>1, <1>2, <1>4, <1>5, <1>6, <1>7, StepIs

\* No piece is ever paid twice, and what was paid stays alive on the order that was paid.
THEOREM NoPiecePaidTwice == Spec => []PiecesPaidOnce
  <1>1. PiecesInv => PiecesPaidOnce
    BY DEF PiecesInv
  <1> QED  BY <1>1, InitPieces, NextPieces, PTL DEF Spec
-----------------------------------------------------------------------------
(* Nothing is invented by splitting lines. *)

\* What every step does to the lines, and what none does to the bill.
LEMMA StepLines ==
    ASSUME Typed, [Next]_vars
    PROVE  /\ bill' = bill
           /\ Delivers \/ \E sel, from, o, live : TakesOut(sel, from, o, live)
  <1>1. CASE PaysOne
    <2>1. PICK o \in Orders, amount \in Int, n \in Nat : \E covers, part : PaysStep(o, amount, covers, part, n)
      BY <1>1 DEF PaysOne
    <2>2. PICK covers, part : PaysStep(o, amount, covers, part, n)
      BY <2>1
    <2> QED  BY <2>2, PayDelivers DEF PaysStep, Pay
  <1>2. CASE VoidsOne
    <2>1. UNCHANGED <<bill, line>>
      BY <1>2 DEF VoidsOne, VoidPayment
    <2> QED  BY <2>1, DeliversNone
  <1>3. CASE DeliversOne
    <2>1. Delivers
      BY <1>3, DeliverAllDelivers, DeliverLineDelivers DEF DeliversOne
    <2>2. UNCHANGED bill
      BY <1>3 DEF DeliversOne, DeliverAll, DeliverLine
    <2> QED  BY <2>1, <2>2
  <1>4. CASE CutsOne
    <2>1. PICK o \in Orders : \E sel : CutsStep(o, sel)
      BY <1>4 DEF CutsOne
    <2>2. PICK sel : CutsStep(o, sel)
      BY <2>1
    <2>3. TakesOut(sel, o, o, FALSE) /\ UNCHANGED bill
      BY <2>2 DEF CutsStep, TakeOff
    <2> QED  BY <2>3, Zenon
  <1>5. CASE MovesOne
    <2>1. PICK t \in Tablets, key \in MoveKeys : \E to : MovesStep(t, key, to)
      BY <1>5 DEF MovesOne
    <2>2. PICK to : MovesStep(t, key, to)
      BY <2>1
    <2>3. TakesOut(asked[key].sel, asked[key].from, to, TRUE) /\ UNCHANGED bill
      BY <2>2, MoveTakes DEF MovesStep
    <2> QED  BY <2>3, Zenon
  <1>6. CASE QuietOne
    <2>1. UNCHANGED <<bill, line>>
      BY <1>6 DEF QuietOne, CancelEmpty, AskMove, Ask, MoveLock, EndsMove, vars
    <2> QED  BY <2>1, DeliversNone
  <1> QED  BY <1>1, <1>2, <1>3, <1>4, <1>5, <1>6, StepIs

\* The pieces and cents of all lines never change.
LEMMA TotalsStand ==
    ASSUME Typed, [Next]_vars
    PROVE  Total(Qtys(line)) = Total(Qtys(line)') /\ Total(Amounts(line)) = Total(Amounts(line)')
  <1>1. CASE Delivers
    <2>1. Qtys(line)' = Qtys(line) /\ Amounts(line)' = Amounts(line)
      BY <1>1 DEF Delivers, Qtys, Amounts, Ids
    <2> QED  BY <2>1
  <1>2. ASSUME NEW sel, NEW from, NEW o, NEW live, TakesOut(sel, from, o, live)
        PROVE  Total(Qtys(line)) = Total(Qtys(line)') /\ Total(Amounts(line)) = Total(Amounts(line)')
    <2>1. Keeps(TakeOut(sel, o, live)) /\ line' = TakeOut(sel, o, live)
      BY <1>2, TakeOutSays DEF TakesOut, TakenFrom
    <2>2. Qtys(line)' = Qtys(TakeOut(sel, o, live)) /\ Amounts(line)' = Amounts(TakeOut(sel, o, live))
      BY <2>1 DEF Qtys, Amounts
    <2> QED  BY <2>1, <2>2 DEF Keeps
  <1> QED  BY <1>1, <1>2, StepLines

KeepsInv == Typed /\ NothingInvented

\* The lines begin as those of the bill.
LEMMA InitKeeps == Init => KeepsInv
  <1> SUFFICES ASSUME Init PROVE NothingInvented
    BY InitTyped DEF KeepsInv
  <1>1. /\ Ids = DOMAIN bill.lines
        /\ \A i \in Ids : /\ line[i].qty = bill.lines[i].qty
                          /\ line[i].amount = Rounded(bill.lines[i].qty * bill.lines[i].unit, 2)
    BY DEF Init, Ids
  <1>2. [i \in Ids |-> line[i].qty] = [i \in DOMAIN bill.lines |-> bill.lines[i].qty]
    BY <1>1
  <1>3. [i \in Ids |-> line[i].amount] =
           [i \in DOMAIN bill.lines |-> Rounded(bill.lines[i].qty * bill.lines[i].unit, 2)]
    BY <1>1
  <1> QED  BY <1>2, <1>3 DEF NothingInvented

\* And together they stay so.
LEMMA NextKeeps == KeepsInv /\ [Next]_vars => KeepsInv'
  <1> SUFFICES ASSUME KeepsInv, [Next]_vars PROVE NothingInvented'
    BY NextTyped DEF KeepsInv
  <1>1. bill' = bill /\ Total(Qtys(line)) = Total(Qtys(line)') /\ Total(Amounts(line)) = Total(Amounts(line)')
    BY StepLines, TotalsStand DEF KeepsInv
  <1>2. /\ [i \in Ids |-> line[i].qty] = Qtys(line) /\ [i \in Ids |-> line[i].amount] = Amounts(line)
        /\ [i \in Ids |-> line[i].qty]' = Qtys(line)' /\ [i \in Ids |-> line[i].amount]' = Amounts(line)'
    BY DEF Qtys, Amounts, Ids
  <1>3. /\ Total([i \in Ids |-> line[i].qty])' = Total([i \in Ids |-> line[i].qty])
        /\ Total([i \in Ids |-> line[i].amount])' = Total([i \in Ids |-> line[i].amount])
    BY <1>1, <1>2
  <1>4. NothingInvented
    BY DEF KeepsInv
  <1> QED  BY <1>1, <1>3, <1>4 DEF NothingInvented

\* No piece and no cent is invented or lost, however lines are split, moved and cut.
THEOREM SplitsKeepAll == Spec => []NothingInvented
  <1>1. KeepsInv => NothingInvented
    BY DEF KeepsInv
  <1> QED  BY <1>1, InitKeeps, NextKeeps, PTL DEF Spec
-----------------------------------------------------------------------------
(* Payments fit in their orders. *)

\* What an order has paid is a sum over its payments.
LEMMA PaidIs ==
    ASSUME Typed, NEW o \in Orders
    PROVE  Paid(o) = SumOver([p \in PaysOf(o) |-> p.amount], PaysOf(o))
  BY TotalIs DEF Paid

\* One payment more.
LEMMA PaidGrows ==
    ASSUME Typed, NEW o \in Orders, NEW new, new \notin pays, pays' = pays \cup {new}, new.amount \in Nat
    PROVE  Paid(o)' = Paid(o) + IF new.order = o THEN new.amount ELSE 0
  <1> DEFINE P == PaysOf(o)
             f == [p \in P |-> p.amount]
  <1>1. IsFiniteSet(P) /\ \A p \in P : f[p] \in Nat
    BY OwesSays
  <1>2. Paid(o) = SumOver(f, P) /\ Paid(o) \in Nat
    BY PaidIs, OwesSays
  <1>3. CASE new.order # o
    <2>1. PaysOf(o)' = P
      BY <1>3 DEF PaysOf
    <2>2. Paid(o)' = Total([p \in P |-> p.amount])
      BY <2>1 DEF Paid
    <2>3. Paid(o)' = SumOver(f, P)
      BY <2>2, TotalIs
    <2> QED  BY <1>2, <1>3, <2>3
  <1>4. CASE new.order = o
    <2> DEFINE D == P \cup {new}
               g == [p \in D |-> p.amount]
    <2>1. PaysOf(o)' = D
      BY <1>4 DEF PaysOf
    <2>2. Paid(o)' = Total(g)
      BY <2>1 DEF Paid
    <2>3. Paid(o)' = SumOver(g, D)
      BY <2>2, TotalIs
    <2>4. new \notin P /\ g[new] = new.amount /\ \A p \in P : g[p] = f[p]
      BY DEF PaysOf
    <2>5. \A p \in P : g[p] \in Int
      BY <1>1, <2>4
    <2> HIDE DEF f, g, P
    <2>6. SumOver(g, D) = g[new] + SumOver(g, P)
      BY <1>1, <2>4, <2>5, SumMore
    <2>7. SumOver(g, P) = SumOver(f, P)
      BY <1>1, <2>4, SumSame
    <2> QED  BY <1>2, <1>4, <2>3, <2>4, <2>6, <2>7
  <1> QED  BY <1>3, <1>4

\* Payments voided.
LEMMA PaidShrinks ==
    ASSUME Typed, NEW o \in Orders, pays' \subseteq pays
    PROVE  Paid(o)' \in Nat /\ Paid(o)' <= Paid(o)
  <1> DEFINE P == PaysOf(o)
             D == {p \in pays' : p.order = o}
             f == [p \in P |-> p.amount]
             g == [p \in D |-> p.amount]
  <1>1. IsFiniteSet(P) /\ \A p \in P : f[p] \in Nat
    BY OwesSays
  <1>2. Paid(o) = SumOver(f, P)
    BY PaidIs
  <1>3. D \subseteq P /\ IsFiniteSet(D)
    BY <1>1, FS_Subset DEF PaysOf
  <1>4. Paid(o)' = Total(g)
    BY DEF Paid, PaysOf
  <1>5. Paid(o)' = SumOver(g, D)
    BY <1>4, TotalIs
  <1>6. \A p \in D : g[p] = f[p]
    BY <1>3
  <1> HIDE DEF f, g, P, D
  <1>7. SumOver(g, D) = SumOver(f, D)
    BY <1>3, <1>6, SumSame
  <1>8. SumOver(f, D) <= SumOver(f, P)
    BY <1>1, <1>3, SumSubset
  <1>9. SumOver(f, D) \in Nat
    BY <1>1, <1>3, SumNat
  <1> QED  BY <1>2, <1>5, <1>7, <1>8, <1>9

\* Lines are lines of any order besides.
LEMMA LineAtAny == \A o : LinesTyped => line \in Seq(LineAt(o))
  BY LineTypeAt DEF LinesTyped

\* Delivering changes no total.
LEMMA DeliversTotals ==
    ASSUME Typed, Delivers, bill' = bill, NEW o \in Orders
    PROVE  OrderTotal(o)' = OrderTotal(o)
  <1>1. PICK ls : ls = line'
    OBVIOUS
  <1>2. line \in Seq(LineAt(o)) /\ ls \in Seq(LineAt(o))
    <2>1. line \in Seq(LineAt(o))
      BY LineAtAny DEF Typed
    <2>2. line' \in Seq(LineType)
      BY DEF Delivers, LinesTyped
    <2> QED  BY <1>1, <2>1, <2>2, LineTypeAt
  <1>3. LiveIn(line, o) = LiveIn(ls, o) /\ \A j \in LiveIn(line, o) : line[j].amount = ls[j].amount
    BY <1>1 DEF Delivers, LiveIn, Ids
  <1>4. Subtotal(line, o) = Subtotal(ls, o)
    BY <1>2, <1>3, SubtotalSame
  <1>5. OrderTotal(o)' = RecalcTotal(ls, o)'
    BY <1>1 DEF OrderTotal
  <1>6. RecalcTotal(ls, o)' = RecalcTotal(ls, o)
    BY DEF RecalcTotal
  <1>7. RecalcTotal(ls, o) = OrderTotal(o)
    BY <1>4 DEF OrderTotal, RecalcTotal
  <1> QED  BY <1>5, <1>6, <1>7

\* Taking pieces out of an order leaves the total of every other one where it was, or higher.
LEMMA TakesTotals ==
    ASSUME Typed, bill' = bill, NEW sel, NEW from, NEW o, NEW live, TakesOut(sel, from, o, live),
           NEW q \in Orders, q # from
    PROVE  OrderTotal(q) <= OrderTotal(q)'
  <1>1. PICK ls : ls = TakeOut(sel, o, live)
    OBVIOUS
  <1>0. TakenFrom(sel, from, live)
    BY DEF TakesOut
  <1>2. ls = line'
    BY <1>1 DEF TakesOut
  <1>3. Subtotal(line, q) \in Nat
    BY OwesSays
  <1>4. Subtotal(line, q) <= Subtotal(ls, q) /\ Subtotal(ls, q) \in Nat
    <2>1. Subtotal(ls, q) \in Nat
      <3>1. ls \in Seq(LineAt(o))
        BY <1>0, <1>1, OldLines
      <3> QED  BY <3>1, SubtotalIs
    <2>2. CASE q # o
      <3>1. Subtotal(ls, q) = Subtotal(line, q)
        BY <1>0, <1>1, <2>2, OthersStay
      <3> QED  BY <1>3, <3>1
    <2>3. CASE q = o
      <3>1. Subtotal(line, q) <= Subtotal(ls, q)
        BY <1>0, <1>1, <2>3, ReceiverGrows
      <3> QED  BY <2>1, <3>1
    <2> QED  BY <2>2, <2>3
  <1>5. OrderTotal(q)' = RecalcTotal(ls, q)
    BY <1>2 DEF OrderTotal, RecalcTotal
  <1>6. bill.discount[q] \in Nat /\ bill.fee[q] \in Nat
    BY BillSays
  <1> QED  BY <1>3, <1>4, <1>5, <1>6 DEF OrderTotal, RecalcTotal, Minus

\* An order that gives pieces keeps a total its payments fit in.
LEMMA MoveKeepsPayments ==
    ASSUME Typed, NEW key \in MoveKeys, NEW t, NEW to, MovesStep(t, key, to), to \in Orders
    PROVE  LET from == asked[key].from IN Paid(from) <= OrderTotal(from)'
  <1> DEFINE from == asked[key].from
             sel == asked[key].sel
             c == asked[key].to
  <1>1. /\ CanMove(from, c, sel) /\ from # 0 /\ bill' = bill
        /\ TakesOut(sel, from, to, TRUE) /\ to # from /\ c # from
    BY MoveTakes DEF MovesStep
  <1>2. Paid(from) <= RecalcTotal(TakeOut(sel, c, TRUE), from)
    BY <1>1 DEF CanMove, RemovalKeepsPayments
  <1>3. line' = TakeOut(sel, to, TRUE) /\ TakenFrom(sel, from, TRUE)
    BY <1>1 DEF TakesOut
  <1>4. PICK ls : ls = TakeOut(sel, to, TRUE)
    OBVIOUS
  <1>5. Subtotal(TakeOut(sel, c, TRUE), from) = Subtotal(ls, from)
    <2> HIDE DEF sel, from, c
    <2>1. PICK live : live = TRUE
      OBVIOUS
    <2>2. Subtotal(TakeOut(sel, c, live), from) = Subtotal(TakeOut(sel, to, live), from)
      BY <1>1, <1>3, <2>1, GiverOwes
    <2> QED  BY <1>4, <2>1, <2>2
  <1>6. OrderTotal(from)' = RecalcTotal(ls, from)
    <2> HIDE DEF sel, c
    <2>1. line' = ls /\ bill' = bill /\ asked' = asked
      BY <1>1, <1>3, <1>4 DEF MovesStep
    <2> QED  BY <2>1 DEF OrderTotal, RecalcTotal
  <1>7. RecalcTotal(TakeOut(sel, c, TRUE), from) = RecalcTotal(ls, from)
    BY <1>5 DEF RecalcTotal
  <1> QED  BY <1>2, <1>6, <1>7
FitInv == Typed /\ PaymentsFit

\* Nothing is paid at first, so it fits.
LEMMA InitFit == Init => FitInv
  <1> SUFFICES ASSUME Init, NEW o \in Orders PROVE Paid(o) <= OrderTotal(o)
    BY InitTyped DEF FitInv, PaymentsFit
  <1>1. Typed /\ PaysOf(o) = {}
    BY InitTyped DEF Init, PaysOf
  <1>2. Paid(o) = 0
    <2>1. Paid(o) = SumOver([p \in {} |-> p.amount], {})
      BY <1>1, PaidIs
    <2> QED  BY <2>1, SumEmpty
  <1>3. OrderTotal(o) \in Nat
    BY <1>1, OwesSays
  <1> QED  BY <1>2, <1>3

\* Charges look at what is owed, moves and removals at what was paid.
LEMMA NextFit == FitInv /\ [Next]_vars => FitInv'
  <1> SUFFICES ASSUME FitInv, [Next]_vars, NEW q \in Orders PROVE Paid(q)' <= OrderTotal(q)'
    BY NextTyped DEF FitInv, PaymentsFit
  <1>0. Typed /\ \A o \in Orders : Paid(o) <= OrderTotal(o)
    BY DEF FitInv, PaymentsFit
  <1>1. Paid(q) \in Nat /\ OrderTotal(q) \in Nat /\ Paid(q) <= OrderTotal(q)
    BY <1>0, OwesSays
  <1>2. bill' = bill
    BY <1>0, StepLines
  <1>3. Typed'
    BY <1>0, NextTyped
  <1>4. OrderTotal(q)' \in Int
    <2>1. bill'.discount[q] \in Nat /\ bill'.fee[q] \in Nat
      BY <1>0, <1>2, BillSays
    <2>2. line' \in Seq(LineAt(q))
      BY <1>3, LineTypeAt DEF Typed, LinesTyped
    <2>3. PICK ls : ls = line'
      OBVIOUS
    <2>4. Subtotal(ls, q) \in Nat
      BY <2>2, <2>3, SubtotalIs
    <2> QED  BY <2>1, <2>3, <2>4 DEF OrderTotal, RecalcTotal, Minus
  <1>5. UNCHANGED pays => Paid(q)' = Paid(q)
    BY DEF Paid, PaysOf
  <1>6. CASE PaysOne
    <2>1. PICK o \in Orders, amount \in Int, n \in Nat : \E covers, part : PaysStep(o, amount, covers, part, n)
      BY <1>6 DEF PaysOne
    <2>2. PICK covers, part : PaysStep(o, amount, covers, part, n)
      BY <2>1
    <2>3. PICK new : new = [number |-> numbers + 1, order |-> o, amount |-> amount, covers |-> covers,
                            part |-> part, of |-> n]
      OBVIOUS
    <2>4. pays' = pays \cup {new} /\ Delivers /\ ValidarCobro(status[o], OrderTotal(o), Paid(o), amount)
      BY <1>0, <2>2, <2>3, PayDelivers DEF PaysStep, Pay
    <2>5. new \notin pays
      <3>1. \A p \in pays : p.number \in 1..numbers
        BY <1>0 DEF Typed, PaysTyped, PayTyped
      <3>2. numbers \in Nat /\ new.number = numbers + 1
        BY <1>0, <2>3, BillSays DEF Typed, PaysTyped
      <3> QED  BY <3>1, <3>2
    <2>6. new.order = o /\ new.amount = amount /\ amount \in Nat
      BY <2>3, <2>4 DEF ValidarCobro
    <2>7. Paid(q)' = Paid(q) + IF o = q THEN amount ELSE 0
      BY <1>0, <2>4, <2>5, <2>6, PaidGrows
    <2>8. OrderTotal(q)' = OrderTotal(q)
      BY <1>0, <1>2, <2>4, DeliversTotals
    <2>9. o = q => Paid(q) + amount <= OrderTotal(q)
      BY <1>1, <2>4, <2>6 DEF ValidarCobro, PorCobrar, Minus
    <2> QED  BY <1>1, <2>6, <2>7, <2>8, <2>9
  <1>7. CASE VoidsOne
    <2>1. pays' \subseteq pays /\ UNCHANGED line
      BY <1>7 DEF VoidsOne, VoidPayment
    <2>2. Paid(q)' \in Nat /\ Paid(q)' <= Paid(q)
      BY <1>0, <2>1, PaidShrinks
    <2>3. OrderTotal(q)' = OrderTotal(q)
      BY <1>0, <1>2, <2>1, DeliversNone, DeliversTotals
    <2> QED  BY <1>1, <2>2, <2>3
  <1>8. CASE DeliversOne \/ QuietOne
    <2>1. Delivers /\ UNCHANGED pays
      <3>1. CASE DeliversOne
        BY <1>0, <3>1, DeliverAllDelivers, DeliverLineDelivers DEF DeliversOne, DeliverAll, DeliverLine
      <3>2. CASE QuietOne
        <4>1. UNCHANGED <<line, pays>>
          BY <3>2 DEF QuietOne, CancelEmpty, AskMove, Ask, MoveLock, EndsMove, vars
        <4> QED  BY <1>0, <4>1, DeliversNone
      <3> QED  BY <1>8, <3>1, <3>2
    <2>2. OrderTotal(q)' = OrderTotal(q)
      BY <1>0, <1>2, <2>1, DeliversTotals
    <2> QED  BY <1>1, <1>5, <2>1, <2>2
  <1>9. CASE CutsOne
    <2>1. PICK o \in Orders : \E sel : CutsStep(o, sel)
      BY <1>9 DEF CutsOne
    <2>2. PICK sel : CutsStep(o, sel)
      BY <2>1
    <2>3. TakesOut(sel, o, o, FALSE) /\ TakeOff(o, sel) /\ UNCHANGED pays
      BY <2>2 DEF CutsStep, TakeOff
    <2>4. CASE q = o
      <3>1. PICK ls : ls = TakeOut(sel, o, FALSE)
        OBVIOUS
      <3>2. line' = ls /\ Paid(q) <= RecalcTotal(ls, q)
        BY <2>3, <2>4, <3>1 DEF TakeOff, RemovalKeepsPayments
      <3>3. OrderTotal(q)' = RecalcTotal(ls, q)
        BY <1>2, <3>2 DEF OrderTotal, RecalcTotal
      <3> QED  BY <1>5, <2>3, <3>2, <3>3
    <2>5. CASE q # o
      <3>1. OrderTotal(q) <= OrderTotal(q)'
        BY <1>0, <1>2, <2>3, <2>5, TakesTotals
      <3> QED  BY <1>1, <1>4, <1>5, <2>3, <3>1
    <2> QED  BY <2>4, <2>5
  <1>10. CASE MovesOne
    <2>1. PICK t \in Tablets, key \in MoveKeys : \E to : MovesStep(t, key, to)
      BY <1>10 DEF MovesOne
    <2>2. PICK to : MovesStep(t, key, to)
      BY <2>1
    <2>3. PICK from : from = asked[key].from
      OBVIOUS
    <2>4. TakesOut(asked[key].sel, from, to, TRUE) /\ UNCHANGED <<pays, asked>>
      BY <1>0, <2>2, <2>3, MoveTakes DEF MovesStep
    <2>5. CASE q = from
      <3>1. to \in Orders
        BY <2>4 DEF TakesOut
      <3>2. Paid(q) <= OrderTotal(q)'
        <4>1. asked' = asked
          BY <2>4
        <4>2. Paid(asked[key].from) <= OrderTotal(asked[key].from)'
          BY <1>0, <2>2, <3>1, MoveKeepsPayments
        <4>3. asked'[key].from = q /\ asked[key].from = q
          BY <2>3, <2>5, <4>1
        <4> QED  BY <4>2, <4>3 DEF OrderTotal, RecalcTotal
      <3> QED  BY <1>5, <2>4, <3>2
    <2>6. CASE q # from
      <3>1. OrderTotal(q) <= OrderTotal(q)'
        BY <1>0, <1>2, <2>4, <2>6, TakesTotals
      <3> QED  BY <1>1, <1>4, <1>5, <2>4, <3>1
    <2> QED  BY <2>5, <2>6
  <1> QED  BY <1>0, <1>6, <1>7, <1>8, <1>9, <1>10, StepIs

\* What was paid of an order always fits in its total, whatever is split, moved, removed or
\* voided: what leaves an order is refused if its payments need it, and what arrives only adds.
THEOREM PaymentsAlwaysFit == Spec => []PaymentsFit
  <1>1. FitInv => PaymentsFit
    BY DEF FitInv
  <1> QED  BY <1>1, InitFit, NextFit, PTL DEF Spec
-----------------------------------------------------------------------------
(* Series of parts. *)

\* A part of a series is charged once.
SeriesOnce ==
    \A p, q \in pays : p.order = q.order /\ p.of = q.of /\ p.of # 0 /\ p.part = q.part => p = q

SeriesInv == Typed /\ SeriesOnce

\* No part is charged at first.
LEMMA InitSeries == Init => SeriesInv
  BY InitTyped DEF Init, SeriesInv, SeriesOnce

\* A part that was charged is not offered again until it is voided.
LEMMA NextSeries == SeriesInv /\ [Next]_vars => SeriesInv'
  <1> SUFFICES ASSUME SeriesInv, [Next]_vars PROVE SeriesOnce'
    BY NextTyped DEF SeriesInv
  <1>0. Typed /\ SeriesOnce
    BY DEF SeriesInv
  <1>1. CASE PaysOne
    <2>1. PICK o \in Orders, amount \in Int, n \in Nat : \E covers, part : PaysStep(o, amount, covers, part, n)
      BY <1>1 DEF PaysOne
    <2>2. PICK covers, part : PaysStep(o, amount, covers, part, n)
      BY <2>1
    <2>3. PICK new : new = [number |-> numbers + 1, order |-> o, amount |-> amount, covers |-> covers,
                            part |-> part, of |-> n]
      OBVIOUS
    <2>4. pays' = pays \cup {new} /\ (n # 0 => part \notin Charged(o, n))
      BY <2>2, <2>3 DEF PaysStep, Pay
    <2>5. \A p \in pays : p.order = o /\ p.of = n /\ n # 0 => p.part # part
      BY <2>4 DEF Charged, PaysOf
    <2>6. new.order = o /\ new.of = n /\ new.part = part
      BY <2>3
    <2> QED  BY <1>0, <2>4, <2>5, <2>6 DEF SeriesOnce
  <1>2. CASE pays' \subseteq pays
    BY <1>0, <1>2 DEF SeriesOnce
  <1>3. CASE VoidsOne
    BY <1>2, <1>3 DEF VoidsOne, VoidPayment
  <1>4. CASE DeliversOne
    BY <1>2, <1>4 DEF DeliversOne, DeliverAll, DeliverLine
  <1>5. CASE CutsOne
    BY <1>2, <1>5 DEF CutsOne, CutsStep, TakeOff
  <1>6. CASE MovesOne
    BY <1>2, <1>6 DEF MovesOne, MovesStep
  <1>7. CASE QuietOne
    BY <1>2, <1>7 DEF QuietOne, CancelEmpty, AskMove, Ask, MoveLock, EndsMove, vars
  <1> QED  BY <1>0, <1>1, <1>3, <1>4, <1>5, <1>6, <1>7, StepIs

\* When all the other parts of a series are charged, one is left.
LEMMA OneLeft ==
    ASSUME Typed, SeriesOnce, NEW o \in Orders, NEW n \in Nat \ {0},
           NEW new, new \notin pays, new.order = o, new.of = n,
           Cardinality({q \in pays \cup {new} : q.order = o /\ q.of = n}) = n
    PROVE  n - Cardinality(Charged(o, n)) = 1
  <1> DEFINE S == {q \in pays : q.order = o /\ q.of = n}
             T == Charged(o, n)
             f == [p \in S |-> p.part]
  <1>1. {q \in pays \cup {new} : q.order = o /\ q.of = n} = S \cup {new} /\ new \notin S
    OBVIOUS
  <1>2. IsFiniteSet(S)
    BY FS_Subset DEF Typed, PaysTyped
  <1>3. Cardinality(S \cup {new}) = Cardinality(S) + 1 /\ Cardinality(S) \in Nat
    BY <1>1, <1>2, FS_AddElement, FS_CardinalityType
  <1>4. f \in Bijection(S, T)
    <2>1. T = {p.part : p \in S}
      BY DEF Charged, PaysOf
    <2>2. f \in [S -> T]
      BY <2>1
    <2>3. \A p, q \in S : f[p] = f[q] => p = q
      BY DEF SeriesOnce
    <2>4. \A x \in T : \E p \in S : f[p] = x
      BY <2>1
    <2> HIDE DEF f, S, T
    <2>5. f \in Injection(S, T)
      BY <2>2, <2>3 DEF Injection, IsInjective
    <2>6. f \in Surjection(S, T)
      BY <2>2, <2>4 DEF Surjection
    <2> QED  BY <2>5, <2>6 DEF Bijection
  <1>5. Cardinality(T) = Cardinality(S)
    <2> HIDE DEF f, S, T
    <2> QED  BY <1>2, <1>4, FS_Bijection DEF ExistsBijection
  <1>6. Cardinality(S \cup {new}) = n
    BY <1>1
  <1> HIDE DEF S
  <1>7. n - Cardinality(T) = 1
    BY <1>3, <1>5, <1>6
  <1> QED  BY <1>7
\* A step that charges the last part of a series leaves nothing to pay.
SettlesStep ==
    \A p \in pays' \ pays :
        p.of > 0 /\ Cardinality({q \in pays' : q.order = p.order /\ q.of = p.of}) = p.of
           => Outstanding(p.order)' = 0

\* The last part is charged what is outstanding.
LEMMA StepSettles == SeriesInv /\ [Next]_vars => [SettlesStep]_vars
  <1> SUFFICES ASSUME SeriesInv, [Next]_vars PROVE SettlesStep
    OBVIOUS
  <1>0. Typed /\ SeriesOnce
    BY DEF SeriesInv
  <1>1. CASE PaysOne
    <2>1. PICK o \in Orders, amount \in Int, n \in Nat : \E covers, part : PaysStep(o, amount, covers, part, n)
      BY <1>1 DEF PaysOne
    <2>2. PICK covers, part : PaysStep(o, amount, covers, part, n)
      BY <2>1
    <2>3. PICK new : new = [number |-> numbers + 1, order |-> o, amount |-> amount, covers |-> covers,
                            part |-> part, of |-> n]
      OBVIOUS
    <2>4. /\ pays' = pays \cup {new} /\ Delivers /\ ValidarCobro(status[o], OrderTotal(o), Paid(o), amount)
          /\ n # 0 => part \in (1..n) \ Charged(o, n) /\ amount = PartAmount(o, n)
          /\ bill' = bill
      BY <1>0, <2>2, <2>3, PayDelivers DEF PaysStep, Pay
    <2>5. new \notin pays
      <3>1. \A p \in pays : p.number \in 1..numbers
        BY <1>0 DEF Typed, PaysTyped, PayTyped
      <3>2. numbers \in Nat /\ new.number = numbers + 1
        BY <1>0, <2>3, BillSays DEF Typed, PaysTyped
      <3> QED  BY <3>1, <3>2
    <2>6. new.order = o /\ new.of = n /\ new.amount = amount /\ amount \in Nat
      BY <2>3, <2>4 DEF ValidarCobro
    <2>7. SUFFICES ASSUME n > 0, Cardinality({q \in pays \cup {new} : q.order = o /\ q.of = n}) = n
                   PROVE  Outstanding(o)' = 0
      BY <2>4, <2>6 DEF SettlesStep
    <2>8. n - Cardinality(Charged(o, n)) = 1
      <3>1. n \in Nat \ {0}
        BY <2>7
      <3> QED  BY <1>0, <2>5, <2>6, <2>7, <3>1, OneLeft
    <2>9. amount = Outstanding(o)
      BY <2>4, <2>7, <2>8 DEF PartAmount
    <2>10. Paid(o)' = Paid(o) + amount
      BY <1>0, <2>4, <2>5, <2>6, PaidGrows
    <2>11. OrderTotal(o)' = OrderTotal(o)
      BY <1>0, <2>4, DeliversTotals
    <2>12. Paid(o) \in Nat /\ OrderTotal(o) \in Nat
      BY <1>0, OwesSays
    <2>13. Outstanding(o)' = PorCobrar(OrderTotal(o)', Paid(o)')
      BY DEF Outstanding
    <2> QED  BY <2>9, <2>10, <2>11, <2>12, <2>13 DEF Outstanding, PorCobrar, Minus
  <1>2. CASE pays' \subseteq pays
    BY <1>2 DEF SettlesStep
  <1>3. CASE VoidsOne
    BY <1>2, <1>3 DEF VoidsOne, VoidPayment
  <1>4. CASE DeliversOne
    BY <1>2, <1>4 DEF DeliversOne, DeliverAll, DeliverLine
  <1>5. CASE CutsOne
    BY <1>2, <1>5 DEF CutsOne, CutsStep, TakeOff
  <1>6. CASE MovesOne
    BY <1>2, <1>6 DEF MovesOne, MovesStep
  <1>7. CASE QuietOne
    BY <1>2, <1>7 DEF QuietOne, CancelEmpty, AskMove, Ask, MoveLock, EndsMove, vars
  <1> QED  BY <1>0, <1>1, <1>3, <1>4, <1>5, <1>6, <1>7, StepIs

\* The last part charged of a series leaves its order with nothing to pay, whatever was charged,
\* voided, moved or removed between one part and the next.
THEOREM LastPartAlwaysSettles == Spec => LastPartSettles
  <1>1. SeriesInv /\ [Next]_vars => [SettlesStep]_vars
    BY StepSettles
  <1>2. Spec => []SeriesInv
    BY InitSeries, NextSeries, PTL DEF Spec
  <1> QED  BY <1>1, <1>2, PTL DEF Spec, LastPartSettles, SettlesStep
-----------------------------------------------------------------------------
(* The kitchen board. *)

\* What the board shows of an order, over lines ls and statuses st.
Shows(st, ls, o) ==
    /\ st[o] = "entregada" => \A i \in LiveIn(ls, o) : Pending(ls[i]) = 0
    /\ st[o] \in {"abierta", "lista"} => ~TodoEntregado(ls, o)

\* It depends only on the status and the lines of the order.
LEMMA ShowsSame ==
    ASSUME NEW st, NEW ls, NEW o, Shows(st, ls, o), NEW su, NEW ms, su[o] = st[o],
           LiveIn(ls, o) = LiveIn(ms, o), \A i \in LiveIn(ls, o) : ls[i] = ms[i]
    PROVE  Shows(su, ms, o)
  <1>1. TodoEntregado(ls, o) <=> LiveIn(ls, o) # {} /\ \A i \in LiveIn(ls, o) : Pending(ls[i]) = 0
    BY DEF TodoEntregado, LiveIn
  <1>2. TodoEntregado(ms, o) <=> LiveIn(ms, o) # {} /\ \A i \in LiveIn(ms, o) : Pending(ms[i]) = 0
    BY DEF TodoEntregado, LiveIn
  <1> QED  BY <1>1, <1>2 DEF Shows

\* An order that closes by itself is shown as it is.
LEMMA ClosesShown ==
    ASSUME NEW st \in [Orders -> Statuses \cup {"none"}], NEW ls, NEW o \in Orders,
           st[o] = "entregada" => \A i \in LiveIn(ls, o) : Pending(ls[i]) = 0
    PROVE  Shows(CloseIfDelivered(st, ls, o), ls, o)
  <1>1. TodoEntregado(ls, o) <=> LiveIn(ls, o) # {} /\ \A i \in LiveIn(ls, o) : Pending(ls[i]) = 0
    BY DEF TodoEntregado, LiveIn
  <1>2. CASE TodoEntregado(ls, o)
    <2>1. CloseIfDelivered(st, ls, o)[o] = "entregada"
      BY <1>2 DEF CloseIfDelivered
    <2> QED  BY <1>1, <1>2, <2>1 DEF Shows
  <1>3. CASE ~ TodoEntregado(ls, o)
    <2>1. CloseIfDelivered(st, ls, o) = st
      BY <1>3 DEF CloseIfDelivered
    <2> QED  BY <1>3, <2>1 DEF Shows
  <1> QED  BY <1>2, <1>3

\* So is one that receives.
LEMMA ReceivesShown ==
    ASSUME NEW st \in [Orders -> Statuses \cup {"none"}], NEW ls, NEW o \in Orders
    PROVE  Shows(Receive(st, ls, o), ls, o)
  <1>1. CASE st[o] = "entregada" /\ ~ TodoEntregado(ls, o)
    <2>1. Receive(st, ls, o)[o] = "abierta"
      BY <1>1 DEF Receive
    <2> QED  BY <1>1, <2>1 DEF Shows
  <1>2. CASE ~ (st[o] = "entregada" /\ ~ TodoEntregado(ls, o))
    <2>1. Receive(st, ls, o) = CloseIfDelivered(st, ls, o)
      BY <1>2 DEF Receive
    <2>2. st[o] = "entregada" => \A i \in LiveIn(ls, o) : Pending(ls[i]) = 0
      BY <1>2 DEF TodoEntregado, LiveIn
    <2> QED  BY <2>1, <2>2, ClosesShown
  <1> QED  BY <1>1, <1>2

\* Other orders are left with their status.
LEMMA OtherStatus ==
    ASSUME NEW st \in [Orders -> Statuses \cup {"none"}], NEW ls, NEW o, NEW q \in Orders, q # o
    PROVE  CloseIfDelivered(st, ls, o)[q] = st[q] /\ Receive(st, ls, o)[q] = st[q]
  BY DEF CloseIfDelivered, Receive

BoardInv == Typed /\ BoardShowsPending

\* The board of the run, in these terms.
LEMMA BoardIs == BoardShowsPending <=> \A o \in Orders : Shows(status, line, o)
  <1>1. \A o : LiveIn(line, o) = Live(o)
    BY DEF LiveIn, Live, Ids
  <1> QED  BY <1>1 DEF BoardShowsPending, Shows
\* At first an order with products has them pending.
LEMMA InitBoard == Init => BoardInv
  <1> SUFFICES ASSUME Init, NEW o \in Orders PROVE Shows(status, line, o)
    BY InitTyped, BoardIs DEF BoardInv
  <1>1. Typed /\ status = [q \in Orders |-> IF Live(q) = {} THEN "none" ELSE "abierta"]
    BY InitTyped DEF Init
  <1>2. \A i \in Ids : line[i].done = 0
    BY DEF Init, Ids
  <1>3. status[o] \in {"abierta", "lista"} => ~ TodoEntregado(line, o)
    <2> SUFFICES ASSUME Live(o) # {} PROVE ~ TodoEntregado(line, o)
      BY <1>1
    <2>1. PICK i \in Live(o) : TRUE
      OBVIOUS
    <2>2. i \in Ids /\ line[i].qty \in Nat \ {0} /\ line[i].done = 0
      BY <1>1, <1>2, <2>1, LineSays DEF Live, Typed
    <2>3. Pending(line[i]) # 0
      BY <2>2 DEF Pending
    <2> QED  BY <2>1, <2>3 DEF TodoEntregado, Live, Ids
  <1>4. status[o] # "entregada"
    BY <1>1
  <1> QED  BY <1>3, <1>4 DEF Shows

\* Delivering in an order leaves the board as it was for the others.
LEMMA DeliversOthers ==
    ASSUME Typed, Delivers, NEW o, NEW q \in Orders, q # o, status'[q] = status[q],
           \A i \in Ids : line[i].home # o => line'[i] = line[i], Shows(status, line, q)
    PROVE  Shows(status', line', q)
  <1>1. LiveIn(line, q) = LiveIn(line', q)
    BY DEF LiveIn, Delivers, Ids
  <1>2. \A i \in LiveIn(line, q) : line[i] = line'[i]
    BY DEF LiveIn, Ids
  <1> QED  BY <1>1, <1>2, ShowsSame

\* Handing over everything of an order closes it.
LEMMA HandedOver ==
    ASSUME Typed, Delivers, NEW o \in Orders, status'[o] = "entregada",
           \A i \in Live(o) : line'[i].done = line[i].qty
    PROVE  Shows(status', line', o)
  <1>1. LiveIn(line', o) = Live(o)
    BY DEF LiveIn, Live, Delivers, Ids
  <1>2. ASSUME NEW i \in Live(o) PROVE Pending(line'[i]) = 0
    <2>1. i \in Ids /\ line[i].qty \in Nat
      BY LineSays DEF Live, Typed
    <2>2. line'[i].qty = line[i].qty
      BY <2>1 DEF Delivers
    <2> QED  BY <2>1, <2>2 DEF Pending
  <1> QED  BY <1>1, <1>2 DEF Shows

\* A payment that hands over shows it.
LEMMA PayShown ==
    ASSUME BoardInv, PaysOne, NEW q \in Orders
    PROVE  Shows(status', line', q)
  <1>0. Typed /\ Shows(status, line, q)
    BY BoardIs DEF BoardInv
  <1>1. PICK o \in Orders, amount \in Int, n \in Nat : \E covers, part : PaysStep(o, amount, covers, part, n)
    BY DEF PaysOne
  <1>2. PICK covers, part : PaysStep(o, amount, covers, part, n)
    BY <1>1
  <1>3. Pay(o, amount, covers, part, n) /\ Delivers
    BY <1>0, <1>2, PayDelivers DEF PaysStep
  <1>4. CASE UNCHANGED <<status, line>>
    BY <1>0, <1>4
  <1>5. CASE /\ status' = [status EXCEPT ![o] = "entregada"]
             /\ line' = [i \in Ids |-> IF i \in Live(o) THEN [line[i] EXCEPT !.done = @ + Pending(line[i])]
                                                        ELSE line[i]]
    <2>1. \A i \in Ids : line[i].home # o => line'[i] = line[i]
      BY <1>5 DEF Live
    <2>2. status'[o] = "entregada" /\ \A p \in Orders \ {o} : status'[p] = status[p]
      BY <1>0, <1>5 DEF Typed
    <2>3. ASSUME NEW i \in Live(o) PROVE line'[i].done = line[i].qty
      <3>1. i \in Ids /\ line[i] \in LineType /\ line[i].qty \in Nat /\ line[i].done \in Nat
        BY <1>0, LineSays DEF Live, Typed
      <3>2. line'[i] = [line[i] EXCEPT !.done = line[i].done + Pending(line[i])]
        BY <1>5, <3>1
      <3>3. line'[i].done = line[i].done + Pending(line[i])
        BY <3>1, <3>2 DEF LineType
      <3> QED  BY <3>1, <3>3 DEF Pending
    <2>4. q = o => Shows(status', line', q)
      BY <1>0, <1>3, <2>2, <2>3, HandedOver
    <2>5. q # o => Shows(status', line', q)
      BY <1>0, <1>3, <2>1, <2>2, DeliversOthers
    <2> QED  BY <2>4, <2>5
  <1> QED  BY <1>3, <1>4, <1>5 DEF Pay

\* So does a delivery.
LEMMA DeliveryShown ==
    ASSUME BoardInv, DeliversOne, NEW q \in Orders
    PROVE  Shows(status', line', q)
  <1>0. Typed /\ \A o \in Orders : Shows(status, line, o)
    BY BoardIs DEF BoardInv
  <1>1. ASSUME NEW o \in Orders, DeliverAll(o) PROVE Shows(status', line', q)
    <2>1. /\ line' = [i \in Ids |-> IF i \in Live(o) THEN [line[i] EXCEPT !.done = line[i].qty] ELSE line[i]]
          /\ status' = [status EXCEPT ![o] = "entregada"]
      BY <1>1 DEF DeliverAll
    <2>7. Delivers
      BY <1>0, <1>1, DeliverAllDelivers
    <2>2. \A i \in Ids : line[i].home # o => line'[i] = line[i]
      BY <2>1 DEF Live
    <2>3. status'[o] = "entregada" /\ \A p \in Orders \ {o} : status'[p] = status[p]
      BY <1>0, <2>1 DEF Typed
    <2>4. ASSUME NEW i \in Live(o) PROVE line'[i].done = line[i].qty
      <3>1. i \in Ids /\ line[i] \in LineType
        BY <1>0, LineSays DEF Live, Typed
      <3>2. line'[i] = [line[i] EXCEPT !.done = line[i].qty]
        BY <2>1, <3>1
      <3> QED  BY <3>1, <3>2 DEF LineType
    <2>5. q = o => Shows(status', line', q)
      BY <1>0, <2>3, <2>4, <2>7, HandedOver
    <2>6. q # o => Shows(status', line', q)
      BY <1>0, <2>2, <2>3, <2>7, DeliversOthers
    <2> QED  BY <2>5, <2>6
  <1>2. ASSUME NEW i \in Ids, NEW k \in 1..MaxPieces, DeliverLine(i, k) PROVE Shows(status', line', q)
    <2>1. PICK o \in Orders : o = line[i].home
      BY <1>0, LineSays DEF Typed
    <2>2. /\ line' = [line EXCEPT ![i].done = @ + k] /\ status' = CloseIfDelivered(status, line', o)
          /\ line[i].live /\ k \in 1..Pending(line[i]) /\ Delivers
      BY <1>0, <1>2, <2>1, DeliverLineDelivers DEF DeliverLine
    <2>3. i \in LiveIn(line, o) /\ Pending(line[i]) # 0
      <3>1. i \in LiveIn(line, o)
        BY <2>1, <2>2 DEF LiveIn, Ids
      <3>2. Pending(line[i]) \in Int
        <4>1. line[i].qty \in Nat /\ line[i].done \in Nat
          BY <1>0, LineSays DEF Typed
        <4> QED  BY <4>1 DEF Pending
      <3> QED  BY <2>2, <3>1, <3>2
    <2>4. status[o] # "entregada"
      BY <1>0, <2>3 DEF Shows
    <2>5. Shows(status', line', o)
      <3>1. PICK ls : ls = line'
        OBVIOUS
      <3>2. status \in [Orders -> Statuses \cup {"none"}]
        BY <1>0 DEF Typed
      <3>3. Shows(CloseIfDelivered(status, ls, o), ls, o)
        BY <2>4, <3>2, ClosesShown
      <3> QED  BY <2>2, <3>1, <3>3
    <2>6. \A j \in Ids : line[j].home # o => line'[j] = line[j]
      BY <2>1, <2>2 DEF Ids
    <2>7. q # o => status'[q] = status[q]
      BY <1>0, <2>2, OtherStatus DEF Typed
    <2>8. q # o => Shows(status', line', q)
      BY <1>0, <2>2, <2>6, <2>7, DeliversOthers
    <2> QED  BY <2>5, <2>8
  <1> QED  BY <1>1, <1>2 DEF DeliversOne

\* Orders a removal or a move does not touch are shown as they were.
LEMMA TakesOthers ==
    ASSUME BoardInv, NEW sel, NEW from, NEW o, NEW live, TakesOut(sel, from, o, live),
           NEW ls, ls = TakeOut(sel, o, live), NEW st,
           NEW q \in Orders, q # from, q # o \/ ~live, st[q] = status[q]
    PROVE  Shows(st, ls, q)
  <1>1. Shows(status, line, q)
    BY BoardIs DEF BoardInv
  <1>2. TakenFrom(sel, from, live)
    BY DEF TakesOut
  <1>3. LiveIn(ls, q) = Live(q) /\ \A j \in Live(q) : ls[j] = line[j]
    BY <1>2, OthersStay
  <1>4. LiveIn(line, q) = Live(q)
    BY DEF LiveIn, Live, Ids
  <1> QED  BY <1>1, <1>3, <1>4, ShowsSame

\* A removal is shown.
LEMMA CutShown ==
    ASSUME BoardInv, CutsOne, NEW q \in Orders
    PROVE  Shows(status', line', q)
  <1>0. Typed /\ status \in [Orders -> Statuses \cup {"none"}]
    BY DEF BoardInv, Typed
  <1>1. PICK o \in Orders : \E sel : CutsStep(o, sel)
    BY DEF CutsOne
  <1>2. PICK sel : CutsStep(o, sel)
    BY <1>1
  <1>3. PICK ls : ls = TakeOut(sel, o, FALSE)
    OBVIOUS
  <1>4. TakesOut(sel, o, o, FALSE) /\ line' = ls /\ status' = CloseIfDelivered(status, ls, o)
    BY <1>2, <1>3 DEF CutsStep, TakeOff
  <1>5. status[o] # "entregada"
    <2>1. Shows(status, line, o) /\ LiveIn(line, o) = Live(o)
      BY BoardIs DEF BoardInv, LiveIn, Live, Ids
    <2>2. \A i \in Live(o) : Pending(line[i]) > 0 => Pending(line[i]) # 0
      OBVIOUS
    <2> QED  BY <1>2, <2>1, <2>2 DEF CutsStep, Shows
  <1>6. Shows(status', line', o)
    <2>1. Shows(CloseIfDelivered(status, ls, o), ls, o)
      BY <1>0, <1>5, ClosesShown
    <2> QED  BY <1>4, <2>1
  <1>7. ASSUME q # o PROVE Shows(status', line', q)
    <2>1. PICK st : st = status'
      OBVIOUS
    <2>2. st[q] = status[q]
      BY <1>0, <1>4, <1>7, <2>1, OtherStatus
    <2>3. PICK live : live = FALSE
      OBVIOUS
    <2>4. Shows(st, ls, q)
      BY <1>3, <1>4, <1>7, <2>2, <2>3, TakesOthers
    <2> QED  BY <1>4, <2>1, <2>4
  <1> QED  BY <1>6, <1>7
\* What an order that gives keeps of a line, when it had nothing pending, has nothing pending.
LEMMA RestDelivered ==
    ASSUME NEW l \in LineType, Pending(l) = 0, NEW k \in Nat \ {0}
    PROVE  Pending(RestOf(l, k)) = 0
  <1>1. l.qty \in Nat /\ l.done \in Nat /\ l.qty - l.done = 0
    BY DEF LineType, Pending
  <1>2. GoesDelivered(l, k) = k
    BY <1>1 DEF GoesDelivered, Pending, Minus
  <1>3. RestOf(l, k).qty = l.qty - k /\ RestOf(l, k).done = l.done - k
    BY <1>2 DEF RestOf, LineType
  <1> QED  BY <1>1, <1>3 DEF Pending

\* A move is shown by both orders.
LEMMA MoveShown ==
    ASSUME BoardInv, MovesOne, NEW q \in Orders
    PROVE  Shows(status', line', q)
  <1>0. Typed /\ status \in [Orders -> Statuses \cup {"none"}]
    BY DEF BoardInv, Typed
  <1>1. PICK t \in Tablets, key \in MoveKeys : \E to : MovesStep(t, key, to)
    BY DEF MovesOne
  <1>2. PICK to : MovesStep(t, key, to)
    BY <1>1
  <1>3. PICK from : from = asked[key].from
    OBVIOUS
  <1>4. PICK sel : sel = asked[key].sel
    OBVIOUS
  <1>5. PICK live : live = TRUE
    OBVIOUS
  <1>6. TakesOut(sel, from, to, live) /\ to # from /\ Pass(from, to, sel, key)
    BY <1>0, <1>2, <1>3, <1>4, <1>5, MoveTakes DEF MovesStep
  <1>7. PICK ls : ls = TakeOut(sel, to, live)
    OBVIOUS
  <1>8. from \in Orders /\ to \in Orders /\ TakenFrom(sel, from, live)
    BY <1>6 DEF TakesOut
  <1>9. PICK st0 : st0 = [status EXCEPT ![to] = IF @ = "none" THEN "abierta" ELSE @]
    OBVIOUS
  <1>10. PICK st : st = Receive(st0, ls, to)
    OBVIOUS
  <1>11. line' = ls /\ status' = IF Everything(from, sel) THEN [st EXCEPT ![from] = "cancelada"]
                                 ELSE CloseIfDelivered(st, ls, from)
    BY <1>5, <1>6, <1>7, <1>9, <1>10 DEF Pass
  <1>12. st0 \in [Orders -> Statuses \cup {"none"}] /\ \A o \in Orders \ {to} : st0[o] = status[o]
    BY <1>0, <1>9 DEF Statuses
  <1>13. st \in [Orders -> Statuses \cup {"none"}] /\ \A o \in Orders \ {to} : st[o] = status[o]
    BY <1>8, <1>10, <1>12, StatusTyped, OtherStatus
  <1>14. Shows(st, ls, to)
    BY <1>8, <1>10, <1>12, ReceivesShown
  <1>15. \A o \in Orders \ {from} : status'[o] = st[o]
    BY <1>8, <1>11, <1>13, OtherStatus
  <1>16. CASE q = to
    <2>1. PICK su : su = status'
      OBVIOUS
    <2>2. su[to] = st[to]
      BY <1>6, <1>8, <1>15, <2>1
    <2>3. Shows(su, ls, to)
      BY <1>14, <2>2, ShowsSame
    <2> QED  BY <1>11, <1>16, <2>1, <2>3
  <1>17. CASE q = from
    <2>1. CASE Everything(from, sel)
      <3>1. status'[from] = "cancelada"
        BY <1>8, <1>11, <1>13, <2>1
      <3> QED  BY <1>17, <3>1 DEF Shows
    <2>2. CASE ~ Everything(from, sel)
      <3>1. ASSUME st[from] = "entregada", NEW i \in LiveIn(ls, from) PROVE Pending(ls[i]) = 0
        <4>1. LiveIn(ls, from) = KeptLines(sel, from) /\ \A j \in KeptLines(sel, from) : ls[j] = KeptLine(sel, j)
          BY <1>6, <1>7, <1>8, GiverKeeps
        <4>2. i \in KeptLines(sel, from) /\ ls[i] = KeptLine(sel, i)
          BY <3>1, <4>1
        <4>3. i \in Live(from) /\ i \in Ids /\ line[i] \in LineType
          BY <1>0, <4>2, LineSays DEF KeptLines, Live, Typed
        <4>4. status[from] = "entregada"
          BY <1>6, <1>8, <1>13, <3>1
        <4>5. Shows(status, line, from) /\ LiveIn(line, from) = Live(from)
          BY <1>8, BoardIs DEF BoardInv, LiveIn, Live, Ids
        <4>6. Pending(line[i]) = 0
          BY <4>3, <4>4, <4>5 DEF Shows
        <4>7. i \in DOMAIN sel => sel[i] \in Nat \ {0}
          BY <1>6 DEF TakesOut
        <4> QED  BY <4>2, <4>3, <4>6, <4>7, RestDelivered DEF KeptLine
      <3>2. Shows(CloseIfDelivered(st, ls, from), ls, from)
        BY <1>8, <1>13, <3>1, ClosesShown
      <3> QED  BY <1>11, <1>17, <2>2, <3>2
    <2> QED  BY <2>1, <2>2
  <1>18. CASE q # to /\ q # from
    <2>1. PICK su : su = status'
      OBVIOUS
    <2>2. su[q] = status[q]
      BY <1>13, <1>15, <1>18, <2>1
    <2>3. Shows(su, ls, q)
      BY <1>6, <1>7, <1>18, <2>2, TakesOthers
    <2> QED  BY <1>11, <2>1, <2>3
  <1> QED  BY <1>16, <1>17, <1>18

\* Every step shows the orders it touches and leaves the others.
LEMMA NextBoard == BoardInv /\ [Next]_vars => BoardInv'
  <1> SUFFICES ASSUME BoardInv, [Next]_vars PROVE BoardShowsPending'
    BY NextTyped DEF BoardInv
  <1>0. Typed /\ \A o \in Orders : Shows(status, line, o)
    BY BoardIs DEF BoardInv
  <1>1. \A o \in Orders : Shows(status', line', o)
    <2> TAKE o \in Orders
    <2>1. CASE UNCHANGED <<status, line>>
      BY <1>0, <2>1
    <2>2. CASE VoidsOne
      BY <2>1, <2>2 DEF VoidsOne, VoidPayment
    <2>3. CASE QuietOne
      <3>1. ASSUME NEW p \in Orders, CancelEmpty(p) PROVE Shows(status', line', o)
        <4>1. line' = line /\ status' = [status EXCEPT ![p] = "cancelada"]
          BY <3>1 DEF CancelEmpty
        <4>2. o = p => status'[o] = "cancelada"
          BY <1>0, <4>1 DEF Typed
        <4>3. o # p => status'[o] = status[o]
          BY <1>0, <4>1 DEF Typed
        <4> QED  BY <1>0, <4>1, <4>2, <4>3 DEF Shows
      <3>2. CASE ~ \E p \in Orders : CancelEmpty(p)
        BY <2>1, <2>3, <3>2 DEF QuietOne, AskMove, Ask, MoveLock, EndsMove, vars
      <3> QED  BY <3>1, <3>2
    <2> QED  BY <1>0, <2>2, <2>3, PayShown, DeliveryShown, CutShown, MoveShown, StepIs
  <1>2. BoardShowsPending' <=> \A o \in Orders : Shows(status', line', o)
    <2>1. \A o : LiveIn(line', o) = Live(o)'
      BY DEF LiveIn, Live, Ids
    <2> QED  BY <2>1 DEF BoardShowsPending, Shows
  <1> QED  BY <1>1, <1>2

\* The board never stops showing an order with something pending, nor shows one with nothing
\* left: payments, deliveries, moves and removals close and open the orders they touch.
THEOREM BoardAlwaysShows == Spec => []BoardShowsPending
  <1>1. BoardInv => BoardShowsPending
    BY DEF BoardInv
  <1> QED  BY <1>1, InitBoard, NextBoard, PTL DEF Spec
=============================================================================
