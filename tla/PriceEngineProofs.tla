------------------------- MODULE PriceEngineProofs -------------------------
(***************************************************************************)
(* The order-book and price engines, for any feed, trades, prices and      *)
(* bounds: every variable has its type, the levels are those the events    *)
(* left, the volume is that of the last 24 hours, and the price in Redis   *)
(* is one state of the market that not both goroutines have gone past.     *)
(***************************************************************************)
EXTENDS PriceEngine, DataLemmas

---------------------------------------------------------------------------
(* Numbers.                                                                *)

\* A finite set of numbers is bounded.
LEMMA Bounded ==
  ASSUME NEW S \in SUBSET Nat, IsFiniteSet(S)
  PROVE  \E m \in Nat : \A x \in S : x <= m
<1>1. PICK n \in Nat : ExistsSurjection(1..n, S)
  BY FS_NatSurjection
<1>2. PICK f \in [1..n -> S] : \A x \in S : \E i \in 1..n : f[i] = x
  BY <1>1 DEF ExistsSurjection, Surjection
<1>8. \A i \in 1..n : f[i] \in Nat
  <2>1. \A i \in 1..n : f[i] \in S
    BY <1>2
  <2>2. QED  BY <2>1
<1> DEFINE U == {k \in Nat : k <= n => \E m \in Nat : \A i \in 1..k : f[i] <= m}
<1>3. 0 \in U
  <2>1. \A i \in 1..0 : f[i] <= 0
    OBVIOUS
  <2>2. QED  BY <2>1
<1>4. ASSUME NEW k \in Nat, k \in U PROVE k + 1 \in U
  <2> SUFFICES ASSUME k + 1 <= n PROVE \E m \in Nat : \A i \in 1..(k + 1) : f[i] <= m
    OBVIOUS
  <2>1. PICK m \in Nat : \A i \in 1..k : f[i] <= m
    BY <1>4
  <2>2. f[k + 1] \in Nat
    <3>1. k + 1 \in 1..n
      OBVIOUS
    <3>2. QED  BY <1>8, <3>1
  <2> DEFINE b == m + f[k + 1]
  <2>3. b \in Nat /\ m <= b /\ f[k + 1] <= b
    BY <2>2
  <2>4. ASSUME NEW i \in 1..(k + 1) PROVE f[i] <= b
    <3>1. f[i] \in Nat
      <4>1. i \in 1..n
        OBVIOUS
      <4>2. QED  BY <1>8, <4>1
    <3>2. CASE i = k + 1
      BY <2>3, <3>2
    <3>3. CASE i \in 1..k
      BY <2>1, <2>3, <3>1, <3>3
    <3>4. QED  BY <3>2, <3>3
  <2>5. QED  BY <2>3, <2>4
<1>5. n \in U
  <2> HIDE DEF U
  <2>1. QED  BY <1>3, <1>4, Induction
<1>6. PICK m \in Nat : \A i \in 1..n : f[i] <= m
  BY <1>5
<1>7. QED  BY <1>2, <1>6

\* The best bid and the best ask of a set of prices are prices.
LEMMA BestIsPrice ==
  ASSUME NEW S \in SUBSET Price
  PROVE  BestBid(S) \in Price \cup {0} /\ BestAsk(S) \in Price \cup {0}
<1>1. CASE S = {}
  BY <1>1 DEF BestBid, BestAsk
<1>2. CASE S # {}
  <2>1. S \in SUBSET Nat /\ IsFiniteSet(S)
    <3>1. S \in SUBSET Nat /\ IsFiniteSet(Price)
      BY PriceAssumption
    <3>2. QED  BY <3>1, FS_Subset
  <2>2. \E x \in S : \A y \in S : x >= y
    <3> DEFINE T == {m \in Nat : \A x \in S : x <= m}
    <3>1. T \in SUBSET Nat /\ T # {}
      BY <2>1, Bounded
    <3>2. PICK m \in T : \A k \in T : m <= k
      <4> HIDE DEF T
      <4>1. QED  BY <3>1, LeastNumber
    <3>3. m \in Nat /\ \A x \in S : x <= m
      OBVIOUS
    <3>4. m \in S
      <4> SUFFICES ASSUME m \notin S PROVE FALSE
        OBVIOUS
      <4>1. \A x \in S : x \in Nat /\ x < m
        BY <2>1, <3>3
      <4>2. m - 1 \in T
        BY <1>2, <3>3, <4>1
      <4>3. QED  BY <3>2, <3>3, <4>2
    <3>5. QED  BY <2>1, <3>3, <3>4
  <2>3. \E x \in S : \A y \in S : x <= y
    BY <1>2, <2>1, LeastNumber
  <2>4. Max(S) \in S /\ Min(S) \in S
    BY <2>2, <2>3 DEF Max, Min
  <2>5. QED  BY <1>2, <2>4 DEF BestBid, BestAsk
<1>3. QED  BY <1>1, <1>2

---------------------------------------------------------------------------
(* Sequences.                                                              *)

\* Totals is what its definition says, from front to back.
LEMMA TotalsRec ==
  ASSUME NEW ps \in Seq(Point)
  PROVE  /\ Len(ps) \in Nat
         /\ Totals(ps) = [i \in 0..Len(ps) |-> IF i = 0 THEN 0 ELSE Totals(ps)[i - 1] + ps[i].value]
<1> DEFINE Q(f, n) == f = [i \in 0..n |-> IF i = 0 THEN 0 ELSE f[i - 1] + ps[i].value]
           S == {n \in Nat : \E f : Q(f, n)}
<1>1. 0 \in S
  <2> DEFINE f == [i \in 0..0 |-> 0]
  <2>1. Q(f, 0)
    OBVIOUS
  <2>2. QED  BY <2>1
<1>2. ASSUME NEW n \in Nat, n \in S PROVE n + 1 \in S
  <2>1. PICK f : Q(f, n)
    BY <1>2
  <2> DEFINE g == [i \in 0..(n + 1) |-> IF i = n + 1 THEN f[n] + ps[n + 1].value ELSE f[i]]
  <2>2. ASSUME NEW i \in 0..(n + 1) PROVE g[i] = IF i = 0 THEN 0 ELSE g[i - 1] + ps[i].value
    BY <2>1
  <2>3. Q(g, n + 1)
    BY <2>2
  <2> HIDE DEF Q, g
  <2>4. \E h : Q(h, n + 1)
    BY <2>3
  <2>5. QED  BY <2>4
<1>3. Len(ps) \in Nat /\ Nat \subseteq S
  <2> HIDE DEF S
  <2>1. QED  BY <1>1, <1>2, Induction
<1>4. \E f : Q(f, Len(ps))
  BY <1>3
<1>5. Totals(ps) = CHOOSE f : Q(f, Len(ps))
  BY DEF Totals
<1> HIDE DEF Q
<1>6. Q(Totals(ps), Len(ps))
  BY <1>4, <1>5
<1>7. QED  BY <1>3, <1>6 DEF Q

\* The totals are numbers, and each is the one before and a value.
LEMMA TotalsStep ==
  ASSUME NEW ps \in Seq(Point)
  PROVE  /\ Totals(ps)[0] = 0
         /\ \A i \in 1..Len(ps) : Totals(ps)[i] = Totals(ps)[i - 1] + ps[i].value
         /\ \A i \in 1..Len(ps) : ps[i].value \in Nat
         /\ \A i \in 0..Len(ps) : Totals(ps)[i] \in Nat
<1> DEFINE S == {n \in Nat : n <= Len(ps) => Totals(ps)[n] \in Nat}
<1>1. /\ Len(ps) \in Nat
      /\ Totals(ps) = [i \in 0..Len(ps) |-> IF i = 0 THEN 0 ELSE Totals(ps)[i - 1] + ps[i].value]
  BY TotalsRec
<1>2. Totals(ps)[0] = 0
  <2>1. 0 \in 0..Len(ps)
    BY <1>1
  <2>2. QED  BY <1>1, <2>1
<1>3. ASSUME NEW i \in 1..Len(ps) PROVE Totals(ps)[i] = Totals(ps)[i - 1] + ps[i].value
  <2>1. i \in 0..Len(ps) /\ i # 0
    BY <1>1
  <2>2. QED  BY <1>1, <2>1
<1>4. ASSUME NEW i \in 1..Len(ps) PROVE ps[i].value \in Nat
  <2>1. ps[i] \in Point
    OBVIOUS
  <2>2. QED  BY <2>1 DEF Point
<1>5. 0 \in S
  BY <1>2
<1>6. ASSUME NEW n \in Nat, n \in S PROVE n + 1 \in S
  <2> SUFFICES ASSUME n + 1 <= Len(ps) PROVE Totals(ps)[n + 1] \in Nat
    OBVIOUS
  <2>1. n + 1 \in 1..Len(ps) /\ Totals(ps)[n] \in Nat
    BY <1>1, <1>6
  <2>2. Totals(ps)[n + 1] = Totals(ps)[n + 1 - 1] + ps[n + 1].value /\ ps[n + 1].value \in Nat
    BY <1>3, <1>4, <2>1
  <2>3. n + 1 - 1 = n
    OBVIOUS
  <2>4. QED  BY <2>1, <2>2, <2>3
<1>7. Nat \subseteq S
  <2> HIDE DEF S
  <2>1. QED  BY <1>5, <1>6, Induction
<1>8. ASSUME NEW i \in 0..Len(ps) PROVE Totals(ps)[i] \in Nat
  <2>1. i \in Nat /\ i <= Len(ps)
    BY <1>1
  <2>2. i \in S
    BY <1>7, <2>1
  <2>3. QED  BY <2>1, <2>2
<1>9. QED  BY <1>2, <1>3, <1>4, <1>8

\* Trades that lie together within others, their ages aside, add up to what
\* the totals of those others grow by.
LEMMA TotalsWithin ==
  ASSUME NEW ps \in Seq(Point), NEW qs \in Seq(Point), NEW a \in Nat, a + Len(qs) <= Len(ps),
         \A i \in 1..Len(qs) : qs[i].value = ps[a + i].value
  PROVE  Totals(ps)[a + Len(qs)] = Totals(ps)[a] + Sum(qs)
<1> DEFINE S == {n \in Nat : n <= Len(qs) => Totals(ps)[a + n] = Totals(ps)[a] + Totals(qs)[n]}
<1>1. Len(ps) \in Nat /\ Len(qs) \in Nat
  BY TotalsRec
<1>2. /\ \A i \in 1..Len(ps) : Totals(ps)[i] = Totals(ps)[i - 1] + ps[i].value
      /\ \A i \in 1..Len(ps) : ps[i].value \in Nat
      /\ \A i \in 0..Len(ps) : Totals(ps)[i] \in Nat
  BY TotalsStep
<1>3. /\ Totals(qs)[0] = 0
      /\ \A i \in 1..Len(qs) : Totals(qs)[i] = Totals(qs)[i - 1] + qs[i].value
      /\ \A i \in 0..Len(qs) : Totals(qs)[i] \in Nat
  BY TotalsStep
<1>4. a \in 0..Len(ps)
  BY <1>1
<1>5. 0 \in S
  BY <1>2, <1>3, <1>4
<1>6. ASSUME NEW n \in Nat, n \in S PROVE n + 1 \in S
  <2> SUFFICES ASSUME n + 1 <= Len(qs)
               PROVE  Totals(ps)[a + (n + 1)] = Totals(ps)[a] + Totals(qs)[n + 1]
    OBVIOUS
  <2>1. Totals(ps)[a + n] = Totals(ps)[a] + Totals(qs)[n]
    BY <1>1, <1>6
  <2>2. Totals(qs)[n + 1] = Totals(qs)[n] + qs[n + 1].value
    <3>1. n + 1 \in 1..Len(qs) /\ (n + 1) - 1 = n
      BY <1>1
    <3>2. QED  BY <1>3, <3>1
  <2>3. Totals(ps)[a + (n + 1)] = Totals(ps)[a + n] + ps[a + (n + 1)].value
    <3>1. a + (n + 1) \in 1..Len(ps) /\ (a + (n + 1)) - 1 = a + n
      BY <1>1
    <3>2. QED  BY <1>2, <3>1
  <2>4. qs[n + 1].value = ps[a + (n + 1)].value
    <3>1. n + 1 \in 1..Len(qs)
      BY <1>1
    <3>2. QED  BY <3>1
  <2>5. Totals(ps)[a] \in Nat /\ Totals(qs)[n] \in Nat /\ ps[a + (n + 1)].value \in Nat
    <3>1. n \in 0..Len(qs) /\ a + (n + 1) \in 1..Len(ps)
      BY <1>1
    <3>2. QED  BY <1>2, <1>3, <1>4, <3>1
  <2>6. QED  BY <2>1, <2>2, <2>3, <2>4, <2>5
<1>7. Nat \subseteq S
  <2> HIDE DEF S
  <2>1. QED  BY <1>5, <1>6, Induction
<1>8. Len(qs) \in S
  BY <1>1, <1>7
<1>9. QED  BY <1>1, <1>8 DEF Sum

\* What trades add up to is a number, and that of all but the first and that
\* of the first make up the whole.
LEMMA SumOfParts ==
  ASSUME NEW ps \in Seq(Point), NEW c \in 0..Len(ps)
  PROVE  /\ Sum(ps) \in Nat
         /\ Sum(SubSeq(ps, 1, c)) \in Nat /\ Sum(SubSeq(ps, c + 1, Len(ps))) \in Nat
         /\ Sum(ps) = Sum(SubSeq(ps, 1, c)) + Sum(SubSeq(ps, c + 1, Len(ps)))
<1> DEFINE first == SubSeq(ps, 0 + 1, c)
           rest  == SubSeq(ps, c + 1, Len(ps))
<1>1. Len(ps) \in Nat /\ c \in Nat /\ c <= Len(ps)
  BY TotalsRec
<1>2. /\ first \in Seq(Point) /\ Len(first) = c - 0
      /\ \A i \in 1..(c - 0) : first[i] = ps[0 + i]
  <2>1. 0 \in 0..Len(ps) /\ c \in 0..Len(ps)
    BY <1>1
  <2>2. QED  BY <2>1, Part
<1>3. /\ rest \in Seq(Point) /\ Len(rest) = Len(ps) - c
      /\ \A i \in 1..(Len(ps) - c) : rest[i] = ps[c + i]
  <2>1. Len(ps) \in c..Len(ps)
    BY <1>1
  <2>2. QED  BY <2>1, Part
<1>4. \A qs \in Seq(Point) : Sum(qs) \in Nat
  <2> SUFFICES ASSUME NEW qs \in Seq(Point) PROVE Sum(qs) \in Nat
    OBVIOUS
  <2>1. Len(qs) \in Nat /\ \A i \in 0..Len(qs) : Totals(qs)[i] \in Nat
    BY TotalsRec, TotalsStep
  <2>2. QED  BY <2>1 DEF Sum
<1> HIDE DEF first, rest
<1>5. Totals(ps)[0 + Len(first)] = Totals(ps)[0] + Sum(first)
  <2>1. 0 \in Nat /\ 0 + Len(first) <= Len(ps)
    BY <1>1, <1>2
  <2>2. \A i \in 1..Len(first) : first[i].value = ps[0 + i].value
    BY <1>1, <1>2
  <2>3. QED  BY <1>2, <2>1, <2>2, TotalsWithin
<1>6. Totals(ps)[c + Len(rest)] = Totals(ps)[c] + Sum(rest)
  <2>1. c \in Nat /\ c + Len(rest) <= Len(ps)
    BY <1>1, <1>3
  <2>2. \A i \in 1..Len(rest) : rest[i].value = ps[c + i].value
    BY <1>1, <1>3
  <2>3. QED  BY <1>3, <2>1, <2>2, TotalsWithin
<1>7. Totals(ps)[0] = 0
  BY TotalsStep
<1>8. Sum(ps) = Sum(first) + Sum(rest)
  <2>1. 0 + Len(first) = c /\ c + Len(rest) = Len(ps)
    BY <1>1, <1>2, <1>3
  <2>2. Sum(first) \in Nat
    BY <1>2, <1>4
  <2>3. QED  BY <1>5, <1>6, <1>7, <2>1, <2>2 DEF Sum
<1>9. SubSeq(ps, 1, c) = first
  BY DEF first
<1>10. QED  BY <1>2, <1>3, <1>4, <1>8, <1>9 DEF rest

\* One more trade adds its value.
LEMMA SumOfMore ==
  ASSUME NEW ps \in Seq(Point), NEW x \in Point
  PROVE  Sum(Append(ps, x)) = Sum(ps) + x.value
<1> DEFINE all == Append(ps, x)
<1>1. /\ all \in Seq(Point) /\ Len(all) = Len(ps) + 1 /\ Len(ps) \in Nat
      /\ all[Len(ps) + 1] = x /\ \A i \in 1..Len(ps) : all[i] = ps[i]
  BY AppendIs
<1> HIDE DEF all
<1>2. Totals(all)[0 + Len(ps)] = Totals(all)[0] + Sum(ps)
  <2>1. 0 \in Nat /\ 0 + Len(ps) <= Len(all)
    BY <1>1
  <2>2. \A i \in 1..Len(ps) : ps[i].value = all[0 + i].value
    BY <1>1
  <2>3. QED  BY <1>1, <2>1, <2>2, TotalsWithin
<1>3. /\ Totals(all)[0] = 0
      /\ \A i \in 1..Len(all) : Totals(all)[i] = Totals(all)[i - 1] + all[i].value
  BY <1>1, TotalsStep
<1>4. Totals(all)[Len(all)] = Totals(all)[Len(ps)] + x.value
  <2>1. Len(all) \in 1..Len(all) /\ Len(all) - 1 = Len(ps)
    BY <1>1
  <2>2. QED  BY <1>1, <1>3, <2>1
<1>5. Sum(ps) \in Nat
  <2>1. 0 \in 0..Len(ps)
    BY <1>1
  <2>2. QED  BY <2>1, SumOfParts
<1>6. Sum(all) = Sum(ps) + x.value
  <2>1. 0 + Len(ps) = Len(ps)
    BY <1>1
  <2>2. QED  BY <1>2, <1>3, <1>4, <1>5, <2>1 DEF Sum
<1>7. QED  BY <1>6 DEF all

\* Trades that get older are as many, worth as much and in the same order.
LEMMA OlderKeeps ==
  ASSUME NEW ps \in Seq(Point)
  PROVE  /\ Older(ps) \in Seq(Point) /\ Len(Older(ps)) = Len(ps)
         /\ \A i \in 1..Len(ps) : /\ Older(ps)[i].age = IF ps[i].age > Day THEN ps[i].age ELSE ps[i].age + 1
                                  /\ ps[i].age \in 0..(Day + 1)
         /\ Sum(Older(ps)) = Sum(ps)
<1>1. Len(ps) \in Nat /\ DOMAIN ps = 1..Len(ps)
  BY LenProperties
<1>2. Day \in Nat
  BY BoundAssumption
<1>3. \A i \in 1..Len(ps) : ps[i] \in Point
  BY <1>1
<1>4. ASSUME NEW i \in 1..Len(ps)
      PROVE  /\ Older(ps)[i] \in Point /\ Older(ps)[i].value = ps[i].value
             /\ Older(ps)[i].age = IF ps[i].age > Day THEN ps[i].age ELSE ps[i].age + 1
             /\ ps[i].age \in 0..(Day + 1)
  <2>1. ps[i] \in [age : 0..(Day + 1), value : Nat]
    BY <1>3 DEF Point
  <2>2. Older(ps)[i] = [ps[i] EXCEPT !.age = IF @ > Day THEN @ ELSE @ + 1]
    BY <1>1 DEF Older
  <2>3. QED  BY <1>2, <2>1, <2>2 DEF Point
<1>5. Older(ps) \in [1..Len(ps) -> Point]
  BY <1>1, <1>4 DEF Older
<1>6. Older(ps) \in Seq(Point) /\ Len(Older(ps)) = Len(ps)
  BY <1>1, <1>5
<1>7. Sum(Older(ps)) = Sum(ps)
  <2> DEFINE qs == Older(ps)
  <2>1. qs \in Seq(Point) /\ Len(qs) = Len(ps) /\ \A i \in 1..Len(ps) : qs[i].value = ps[0 + i].value
    BY <1>1, <1>4, <1>6
  <2> HIDE DEF qs
  <2>2. Totals(ps)[0 + Len(qs)] = Totals(ps)[0] + Sum(qs)
    <3>1. 0 \in Nat /\ 0 + Len(qs) <= Len(ps)
      BY <1>1, <2>1
    <3>2. QED  BY <2>1, <3>1, TotalsWithin
  <2>3. Totals(ps)[0] = 0
    BY TotalsStep
  <2>4. Sum(qs) \in Nat
    <3>1. 0 \in 0..Len(qs)
      BY <1>1, <2>1
    <3>2. QED  BY <2>1, <3>1, SumOfParts
  <2>5. Sum(qs) = Sum(ps)
    BY <1>1, <2>1, <2>2, <2>3, <2>4 DEF Sum
  <2>6. QED  BY <2>5 DEF qs
<1>8. QED  BY <1>4, <1>6, <1>7

\* The quotes passed on are quotes.
LEMMA QuotedType ==
  ASSUME NEW quotes \in Seq(Quote)
  PROVE  Quoted(quotes) \in Seq(Quote)
<1> DEFINE Kept(f, i) == IF i = 0 THEN <<>>
                         ELSE IF quotes[i].bid = 0 /\ quotes[i].ask = 0 THEN f[i - 1]
                         ELSE Append(f[i - 1], quotes[i])
           Q(f, n) == f = [i \in 0..n |-> Kept(f, i)]
           S == {n \in Nat : \E f : Q(f, n)}
<1>1. Len(quotes) \in Nat /\ \A i \in 1..Len(quotes) : quotes[i] \in Quote
  BY LenProperties
<1>2. 0 \in S
  <2> DEFINE f == [i \in 0..0 |-> <<>>]
  <2>1. Q(f, 0)
    OBVIOUS
  <2> HIDE DEF Q, f
  <2>2. \E g : Q(g, 0)
    BY <2>1
  <2>3. QED  BY <2>2
<1>3. ASSUME NEW n \in Nat, n \in S PROVE n + 1 \in S
  <2>1. PICK f : Q(f, n)
    BY <1>3
  <2> DEFINE next == Kept(f, n + 1)
             g == [i \in 0..(n + 1) |-> IF i = n + 1 THEN next ELSE f[i]]
  <2>2. ASSUME NEW i \in 0..(n + 1) PROVE g[i] = Kept(g, i)
    <3>1. CASE i = n + 1
      <4>1. g[i - 1] = f[i - 1] /\ g[i] = next
        BY <3>1
      <4>2. QED  BY <3>1, <4>1
    <3>2. CASE i # n + 1
      <4>1. i \in 0..n /\ g[i] = f[i] /\ (i # 0 => g[i - 1] = f[i - 1])
        BY <3>2
      <4>2. f[i] = Kept(f, i)
        BY <2>1, <4>1
      <4>3. QED  BY <4>1, <4>2
    <3>3. QED  BY <3>1, <3>2
  <2>3. Q(g, n + 1)
    <3> HIDE DEF next
    <3>1. g = [i \in 0..(n + 1) |-> g[i]]
      OBVIOUS
    <3> HIDE DEF g, Kept
    <3>2. QED  BY <2>2, <3>1
  <2> HIDE DEF g, Q
  <2>4. \E h : Q(h, n + 1)
    BY <2>3
  <2>5. QED  BY <2>4
<1>4. Nat \subseteq S
  <2> HIDE DEF S
  <2>1. QED  BY <1>2, <1>3, Induction
<1>5. \E f : Q(f, Len(quotes))
  BY <1>1, <1>4
<1>6. Quoted(quotes) = (CHOOSE f : Q(f, Len(quotes)))[Len(quotes)]
  BY DEF Quoted
<1> DEFINE q == CHOOSE f : Q(f, Len(quotes))
<1>7. Q(q, Len(quotes))
  <2> HIDE DEF Q
  <2>1. QED  BY <1>5
<1> HIDE DEF q
<1> DEFINE T == {n \in Nat : n <= Len(quotes) => q[n] \in Seq(Quote)}
<1>8. 0 \in T
  BY <1>1, <1>7
<1>9. ASSUME NEW n \in Nat, n \in T PROVE n + 1 \in T
  <2> SUFFICES ASSUME n + 1 <= Len(quotes) PROVE q[n + 1] \in Seq(Quote)
    OBVIOUS
  <2>1. q[n] \in Seq(Quote) /\ quotes[n + 1] \in Quote /\ (n + 1) - 1 = n /\ n + 1 \in 0..Len(quotes)
    BY <1>1, <1>9
  <2>2. q[n + 1] = Kept(q, n + 1)
    BY <1>7, <2>1
  <2>3. QED  BY <2>1, <2>2
<1>10. Nat \subseteq T
  <2> HIDE DEF T
  <2>1. QED  BY <1>8, <1>9, Induction
<1>11. q[Len(quotes)] \in Seq(Quote)
  BY <1>1, <1>10
<1>12. QED  BY <1>6, <1>11 DEF q

---------------------------------------------------------------------------
(* The window of trades.                                                   *)

\* What is cut off in front of a recent trade is all that is expired, up to
\* the first one that is not.
LEMMA CutIsPrefix ==
  ASSUME NEW ps \in Seq(Point), Len(ps) > 0, ps[Len(ps)].age <= Day
  PROVE  /\ Cardinality(Expired(ps)) \in 0..(Len(ps) - 1)
         /\ \A i \in 1..Cardinality(Expired(ps)) : ps[i].age > Day
         /\ ps[Cardinality(Expired(ps)) + 1].age <= Day
<1> DEFINE T == {i \in 1..Len(ps) : ps[i].age <= Day}
<1>1. Len(ps) \in Nat /\ DOMAIN ps = 1..Len(ps)
  BY LenProperties
<1>2. \A i \in 1..Len(ps) : ps[i].age \in Nat
  <2>1. \A i \in 1..Len(ps) : ps[i] \in Point
    BY <1>1
  <2>2. Day \in Nat
    BY BoundAssumption
  <2>3. QED  BY <2>1, <2>2 DEF Point
<1>3. Day \in Nat
  BY BoundAssumption
<1>4. T \in SUBSET Nat /\ Len(ps) \in T
  BY <1>1
<1>5. PICK n \in T : \A k \in T : n <= k
  <2> HIDE DEF T
  <2>1. QED  BY <1>4, LeastNumber
<1>6. n \in 1..Len(ps) /\ ps[n].age <= Day
  OBVIOUS
<1>7. \A i \in 1..(n - 1) : ps[i].age > Day
  <2> SUFFICES ASSUME NEW i \in 1..(n - 1) PROVE ps[i].age > Day
    OBVIOUS
  <2>1. i \in 1..Len(ps) /\ ~(n <= i)
    BY <1>1, <1>6
  <2>2. i \notin T
    BY <1>5, <2>1
  <2>3. QED  BY <1>2, <1>3, <2>1, <2>2
<1>8. Expired(ps) = 1..(n - 1)
  <2>1. ASSUME NEW i \in Expired(ps) PROVE i \in 1..(n - 1)
    <3>1. i \in 1..Len(ps) /\ \A j \in 1..i : ps[j].age > Day
      BY <1>1, <2>1 DEF Expired
    <3>2. n \notin 1..i
      BY <1>2, <1>3, <1>6, <3>1
    <3>3. QED  BY <1>1, <1>6, <3>1, <3>2
  <2>2. ASSUME NEW i \in 1..(n - 1) PROVE i \in Expired(ps)
    <3>1. i \in DOMAIN ps /\ \A j \in 1..i : j \in 1..(n - 1)
      BY <1>1, <1>6
    <3>2. QED  BY <1>7, <3>1 DEF Expired
  <2>3. QED  BY <2>1, <2>2
<1>9. Cardinality(1..(n - 1)) = n - 1
  <2>1. 1 \in Int /\ n - 1 \in Int /\ n >= 1
    BY <1>1, <1>6
  <2>2. Cardinality(1..(n - 1)) = IF 1 > n - 1 THEN 0 ELSE (n - 1) - 1 + 1
    BY <2>1, FS_Interval
  <2>3. QED  BY <2>1, <2>2
<1>10. n - 1 \in 0..(Len(ps) - 1) /\ (n - 1) + 1 = n
  BY <1>1, <1>6
<1>11. QED  BY <1>6, <1>7, <1>8, <1>9, <1>10

\* How many trades are cut off in front of all, and what is left of them.
Cut(all) == Cardinality(Expired(all))
Kept(all) == SubSeq(all, Cut(all) + 1, Len(all))

\* A trade is put behind the others, and what is cut off in front goes out of
\* the volume.
LEMMA TradeCounts ==
  ASSUME NEW ps \in Seq(Point), NEW x \in Point, x.age = 0,
         NEW all, all = Append(ps, x)
  PROVE  /\ all \in Seq(Point) /\ Len(ps) \in Nat /\ Len(all) = Len(ps) + 1
         /\ Cut(all) \in 0..Len(ps)
         /\ Kept(all) \in Seq(Point) /\ Len(Kept(all)) = (Len(ps) + 1) - Cut(all)
         /\ (Sum(ps) + x.value) - Sum(SubSeq(all, 1, Cut(all))) = Sum(Kept(all))
         /\ Sum(Kept(all)) \in Nat
         /\ \A i \in 1..Cut(all) : ps[i].age > Day
         /\ \A i \in 1..Len(Kept(all)) : Kept(all)[i] = all[Cut(all) + i]
         /\ \A i \in 1..Len(ps) : all[i] = ps[i]
         /\ all[Len(ps) + 1] = x
         /\ Kept(all)[1].age <= Day
<1> DEFINE cut  == Cut(all)
           rest == Kept(all)
<1>1. cut = Cardinality(Expired(all)) /\ rest = SubSeq(all, cut + 1, Len(all))
  BY DEF Cut, Kept
<1> HIDE DEF cut, rest
<1>2. /\ all \in Seq(Point) /\ Len(all) = Len(ps) + 1 /\ Len(ps) \in Nat
      /\ all[Len(ps) + 1] = x /\ \A i \in 1..Len(ps) : all[i] = ps[i]
  BY AppendIs
<1>3. Sum(all) = Sum(ps) + x.value
  BY SumOfMore
<1>4. /\ cut \in 0..(Len(all) - 1) /\ \A i \in 1..cut : all[i].age > Day
      /\ all[cut + 1].age <= Day
  <2>1. Day \in Nat
    BY BoundAssumption
  <2>2. Len(all) > 0 /\ all[Len(all)].age <= Day
    BY <1>2, <2>1
  <2>3. QED  BY <1>2, <1>1, <2>2, CutIsPrefix
<1>5. cut \in 0..Len(ps) /\ cut \in 0..Len(all) /\ Len(all) \in cut..Len(all) /\ cut \in Nat
  BY <1>2, <1>4
<1>6. /\ rest \in Seq(Point) /\ Len(rest) = Len(all) - cut
      /\ \A i \in 1..(Len(all) - cut) : rest[i] = all[cut + i]
  BY <1>2, <1>5, <1>1, Part
<1>7. /\ Sum(all) \in Nat /\ Sum(SubSeq(all, 1, cut)) \in Nat /\ Sum(rest) \in Nat
      /\ Sum(all) = Sum(SubSeq(all, 1, cut)) + Sum(rest)
  BY <1>2, <1>5, <1>1, SumOfParts
<1>8. (Sum(ps) + x.value) - Sum(SubSeq(all, 1, cut)) = Sum(rest)
  <2>1. x.value \in Nat
    BY DEF Point
  <2>2. Sum(ps) \in Nat
    <3>1. 0 \in 0..Len(ps)
      BY <1>2
    <3>2. QED  BY <3>1, SumOfParts
  <2>3. QED  BY <1>3, <1>7, <2>1, <2>2
<1>9. \A i \in 1..cut : ps[i].age > Day
  BY <1>2, <1>4, <1>5
<1>10. rest[1].age <= Day
  <2>1. 1 \in 1..(Len(all) - cut)
    BY <1>2, <1>5
  <2>2. QED  BY <1>4, <1>6, <2>1
<1>11. Len(all) - cut = (Len(ps) + 1) - cut
  BY <1>2
<1>12. QED  BY <1>2, <1>5, <1>6, <1>7, <1>8, <1>9, <1>10, <1>11 DEF cut, rest

---------------------------------------------------------------------------
(* Types.  That the volume is a number takes what it is the sum of.        *)

Typed == TypeOK /\ volume = Sum(points)

\* A worker's copy and what Redis holds keep their type as the states of the
\* market get more.
LEMMA UpdatesStay ==
  ASSUME Len(history) \in Nat, Len(history)' \in Nat, Len(history) <= Len(history)'
  PROVE  /\ Update \subseteq Update'
         /\ AtMostOne(Update) \subseteq AtMostOne(Update')
<1>1. 1..Len(history) \subseteq 1..Len(history')
  OBVIOUS
<1>2. Update \subseteq Update'
  BY <1>1 DEF Update
<1>3. ASSUME NEW S, NEW T, S \subseteq T PROVE AtMostOne(S) \subseteq AtMostOne(T)
  <2>1. \A s \in Seq(S) : s \in Seq(T)
    BY <1>3, SeqMonotonic
  <2>2. QED  BY <2>1 DEF AtMostOne
<1>4. QED  BY <1>2, <1>3

\* The empty sequence and a single element are at most one.
LEMMA OneOrNone ==
  ASSUME NEW S
  PROVE  /\ <<>> \in AtMostOne(S)
         /\ \A x \in S : <<x>> \in AtMostOne(S)
         /\ \A s \in AtMostOne(S) : s # <<>> => Len(s) = 1 /\ s[1] \in S
<1>1. <<>> \in Seq(S) /\ Len(<<>>) = 0
  BY EmptySeq
<1>2. \A x \in S : <<x>> \in Seq(S) /\ Len(<<x>>) = 1
  OBVIOUS
<1>3. ASSUME NEW s \in Seq(S), Len(s) <= 1, s # <<>> PROVE Len(s) = 1 /\ s[1] \in S
  <2>1. Len(s) \in Nat \ {0}
    BY <1>3, EmptySeq
  <2>2. Len(s) = 1
    BY <1>3, <2>1
  <2>3. QED  BY <2>2, ElementOfSeq
<1>4. QED  BY <1>1, <1>2, <1>3 DEF AtMostOne

\* A locked section leaves one more state, and its worker with a copy of it.
LEMMA LockedType ==
  ASSUME TypeOK, NEW w \in Worker, Locked(w),
         quote' \in [bid : Price \cup {0}, ask : Price \cup {0}],
         last' \in Price \cup {0}, volume' \in Nat
  PROVE  /\ history' \in Seq(State) /\ Len(history') = Len(history) + 1 /\ Len(history) \in Nat
         /\ pricing' \in [Worker -> AtMostOne(Update')]
         /\ priceKey \in AtMostOne(Update') /\ prices \in SUBSET Update'
         /\ mine' \in [Worker -> 0..Len(history')] /\ unwritten' \in SUBSET Worker
<1> DEFINE state == [bid |-> quote'.bid, ask |-> quote'.ask, last |-> last', volume |-> volume']
           copy  == [version |-> Len(history'), bid |-> state.bid, ask |-> state.ask, last |-> last',
                     volume |-> volume', mid |-> Mid(state.bid, state.ask, last')]
<1>1. state \in State
  BY DEF State
<1>2. history' = Append(history, state) /\ history \in Seq(State)
  BY DEF Locked, TypeOK
<1>3. /\ history' \in Seq(State) /\ Len(history') = Len(history) + 1 /\ Len(history) \in Nat
  <2> HIDE DEF state
  <2>1. QED  BY <1>1, <1>2, AppendIs
<1>4. Mid(state.bid, state.ask, last') \in Nat
  <2>1. state.bid \in Nat /\ state.ask \in Nat /\ last' \in Nat
    <3>1. state.bid = quote'.bid /\ state.ask = quote'.ask
      OBVIOUS
    <3> HIDE DEF state
    <3>2. Price \cup {0} \subseteq Nat
      BY PriceAssumption
    <3>3. QED  BY <3>1, <3>2
  <2> HIDE DEF state
  <2>2. \A b, a, p \in Nat : Mid(b, a, p) \in Nat
    BY DEF Mid
  <2>3. QED  BY <2>1, <2>2
<1>5. copy \in Update'
  <2>1. Len(history') \in 1..Len(history')
    BY <1>3
  <2>2. QED  BY <1>4, <2>1 DEF Update
<1>6. <<copy>> \in AtMostOne(Update')
  <2> HIDE DEF copy
  <2>1. QED  BY <1>5, OneOrNone
<1>7. AtMostOne(Update) \subseteq AtMostOne(Update')
  BY <1>3, UpdatesStay
<1>8. pricing' = [pricing EXCEPT ![w] = <<copy>>]
  BY DEF Locked
<1>9. pricing \in [Worker -> AtMostOne(Update')] /\ priceKey \in AtMostOne(Update')
  BY <1>7 DEF TypeOK
<1>10. pricing' \in [Worker -> AtMostOne(Update')]
  <2> HIDE DEF copy
  <2>1. QED  BY <1>6, <1>8, <1>9
<1>11. prices \in SUBSET Update'
  BY <1>3, UpdatesStay DEF TypeOK
<1>12. mine' \in [Worker -> 0..Len(history')]
  <2>1. mine' = [mine EXCEPT ![w] = Len(history')] /\ mine \in [Worker -> 0..Len(history)]
    BY DEF Locked, TypeOK
  <2>2. PICK n \in Nat, k \in Nat : n = Len(history') /\ k = Len(history)
    BY <1>3
  <2>3. n \in 0..n /\ 0..k \subseteq 0..n
    BY <1>3, <2>2
  <2>4. mine' = [mine EXCEPT ![w] = n] /\ mine \in [Worker -> 0..n]
    BY <2>1, <2>2, <2>3
  <2>5. mine' \in [Worker -> 0..n]
    BY <2>3, <2>4
  <2>6. QED  BY <2>2, <2>5
<1>13. unwritten' \in SUBSET Worker
  BY DEF Locked, TypeOK
<1>14. QED  BY <1>3, <1>9, <1>10, <1>11, <1>12, <1>13

\* Nothing has happened yet.
LEMMA TypedAtFirst == Init => Typed
<1> SUFFICES ASSUME Init PROVE Typed
  OBVIOUS
<1> USE BoundAssumption, OneOrNone
<1>1. book \in [Token -> [bids : SUBSET Price, asks : SUBSET Price]]
  BY DEF Init, EmptyBook
<1>2. /\ pricing \in [Worker -> AtMostOne(Update)] /\ priceKey \in AtMostOne(Update)
      /\ published \in SUBSET Worker /\ prices \in SUBSET Update
      /\ mine \in [Worker -> 0..Len(history)] /\ unwritten \in SUBSET Worker
  BY DEF Init
<1>3. bookKey \in AtMostOne(Quote) /\ left \in [Key -> 0..KeyLife]
  BY DEF Init
<1>4. quote \in {NoQuote} \cup [bid : Price, ask : Price]
  BY DEF Init
<1>5. points \in Seq(Point) /\ volume = Sum(points)
  <2>1. <<>> \in Seq(Point) /\ Len(<<>>) = 0
    BY EmptySeq
  <2>2. Sum(<<>>) = 0
    BY <2>1, TotalsStep DEF Sum
  <2>3. QED  BY <2>1, <2>2 DEF Init
<1>6. /\ handled \in Seq(Feed) /\ sending \in Seq(Quote)
      /\ traded \in Seq(Point) /\ history \in Seq(State)
  BY DEF Init
<1>7. newest \in Nat /\ last \in Price \cup {0} /\ volume \in Nat
  BY DEF Init
<1>8. stored \in BOOLEAN /\ \A u \in updates : u.id \in 1..newest /\ u.quote \in Quote
  BY DEF Init
<1>9. events \in 0..MaxEvents /\ trades \in 0..MaxTrades /\ faults \in 0..MaxFaults
  BY DEF Init
<1>10. QED  BY <1>1, <1>2, <1>3, <1>4, <1>5, <1>6, <1>7, <1>8, <1>9 DEF Typed, TypeOK

\* The types in four parts: the order-book engine and the key and topic it
\* fills, the market's state, the copies of it, and the counters.
EngineTypes ==
  /\ book \in [Token -> [bids : SUBSET Price, asks : SUBSET Price]]
  /\ handled \in Seq(Feed) /\ sending \in Seq(Quote) /\ stored \in BOOLEAN
  /\ newest \in Nat
  /\ \A u \in updates : u.id \in 1..newest /\ u.quote \in Quote
  /\ bookKey \in AtMostOne(Quote)
MarketTypes ==
  /\ quote \in {NoQuote} \cup [bid : Price, ask : Price]
  /\ last \in Price \cup {0} /\ volume \in Nat
  /\ points \in Seq(Point) /\ traded \in Seq(Point) /\ volume = Sum(points)
  /\ history \in Seq(State)
CopyTypes ==
  /\ pricing \in [Worker -> AtMostOne(Update)] /\ published \in SUBSET Worker
  /\ prices \in SUBSET Update /\ priceKey \in AtMostOne(Update)
  /\ mine \in [Worker -> 0..Len(history)] /\ unwritten \in SUBSET Worker
CounterTypes ==
  /\ left \in [Key -> 0..KeyLife]
  /\ events \in 0..MaxEvents /\ trades \in 0..MaxTrades /\ faults \in 0..MaxFaults

LEMMA TypeParts == Typed <=> EngineTypes /\ MarketTypes /\ CopyTypes /\ CounterTypes
BY DEF Typed, TypeOK, EngineTypes, MarketTypes, CopyTypes, CounterTypes

\* What a part does not mention does not disturb it.
LEMMA EngineSame ==
  ASSUME EngineTypes, UNCHANGED <<engineVars, updates>>
  PROVE  EngineTypes'
BY DEF EngineTypes, engineVars

LEMMA MarketSame ==
  ASSUME MarketTypes, UNCHANGED <<quote, last, volume, points, traded, history>>
  PROVE  MarketTypes'
BY DEF MarketTypes

LEMMA CopySame ==
  ASSUME CopyTypes, UNCHANGED <<pricing, published, prices, priceKey, mine, unwritten, history>>
  PROVE  CopyTypes'
BY DEF CopyTypes, Update

\* The quote a market has is one of prices and zeros.
LEMMA QuoteIs ==
  ASSUME MarketTypes
  PROVE  quote \in [bid : Price \cup {0}, ask : Price \cup {0}]
BY DEF MarketTypes, NoQuote

\* A failure counted is within its bound.
LEMMA MayFailType ==
  ASSUME CounterTypes, MayFail \/ UNCHANGED faults
  PROVE  faults' \in 0..MaxFaults
BY BoundAssumption DEF CounterTypes, MayFail

\* FetchRaw: levels are sets of prices, and what is passed on are quotes.
LEMMA FetchRawTyped ==
  ASSUME Typed, FetchRaw
  PROVE  Typed'
<1>1. EngineTypes /\ MarketTypes /\ CopyTypes /\ CounterTypes
  BY TypeParts
<1>2. PICK e \in Feed : (FetchChanges(e) \/ FetchLevels(e)) /\ handled' = Append(handled, e)
  BY DEF FetchRaw
<1>3. e \in LevelsEvent \cup ChangesEvent
  BY FeedAssumption
<1>4. book' \in [Token -> [bids : SUBSET Price, asks : SUBSET Price]] /\ sending' \in Seq(Quote)
  <2>1. book \in [Token -> [bids : SUBSET Price, asks : SUBSET Price]]
    BY <1>1 DEF EngineTypes
  <2>2. CASE FetchChanges(e)
    <3>1. e.quotes \in Seq(Quote)
      BY <1>3, <2>2 DEF FetchChanges, LevelsEvent, ChangesEvent
    <3>2. QED  BY <2>1, <2>2, <3>1, QuotedType DEF FetchChanges
  <2>3. CASE FetchLevels(e)
    <3> DEFINE start == StartLevels(e)
               bids  == ApplyLevels(start.bids, e.bids)
               asks  == ApplyLevels(start.asks, e.asks)
    <3>1. e.token \in Token
      BY <1>3, <2>3 DEF FetchLevels, LevelsEvent, ChangesEvent
    <3>2. bids \in SUBSET Price /\ asks \in SUBSET Price
      BY DEF ApplyLevels
    <3>3. /\ book' = [book EXCEPT ![e.token] = [bids |-> bids, asks |-> asks]]
          /\ sending' = <<[token |-> e.token, bid |-> BestBid(bids), ask |-> BestAsk(asks)]>>
      BY <2>3 DEF FetchLevels
    <3> HIDE DEF bids, asks
    <3>4. BestBid(bids) \in Price \cup {0} /\ BestAsk(asks) \in Price \cup {0}
      BY <3>2, BestIsPrice
    <3>5. [token |-> e.token, bid |-> BestBid(bids), ask |-> BestAsk(asks)] \in Quote
      BY <3>1, <3>4 DEF Quote
    <3>6. QED  BY <2>1, <3>1, <3>2, <3>3, <3>5
  <2>4. QED  BY <1>2, <2>2, <2>3
<1>5. UNCHANGED <<stored, newest, updates, bookKey, left, stateVars, priceVars, trades, faults>>
  BY DEF FetchRaw
<1>6. EngineTypes'
  <2>1. handled' \in Seq(Feed)
    BY <1>1, <1>2, AppendIs DEF EngineTypes
  <2>2. QED  BY <1>1, <1>4, <1>5, <2>1 DEF EngineTypes
<1>7. MarketTypes' /\ CopyTypes'
  BY <1>1, <1>5, MarketSame, CopySame DEF stateVars, priceVars
<1>8. CounterTypes'
  BY <1>1, <1>5, BoundAssumption DEF CounterTypes, FetchRaw
<1>9. QED  BY <1>6, <1>7, <1>8, TypeParts, PTL

\* PublishBook: the update has the next number, and the older ones stay below.
LEMMA PublishBookTyped ==
  ASSUME Typed, PublishBook
  PROVE  Typed'
<1>1. EngineTypes /\ MarketTypes /\ CopyTypes /\ CounterTypes
  BY TypeParts
<1>2. /\ sending # <<>> /\ stored' = TRUE /\ newest' = newest + 1
      /\ \/ updates' = updates \cup {[id |-> newest', quote |-> Head(sending)]} /\ UNCHANGED faults
         \/ MayFail /\ UNCHANGED updates
      /\ UNCHANGED <<book, handled, sending, bookKey, left, stateVars, priceVars, events, trades>>
  BY DEF PublishBook
<1>3. newest \in Nat /\ newest' \in Nat /\ newest < newest'
  BY <1>1, <1>2 DEF EngineTypes
<1>4. Head(sending) \in Quote
  BY <1>1, <1>2, HeadTailProperties DEF EngineTypes
<1>5. ASSUME NEW u \in updates' PROVE u.id \in 1..newest' /\ u.quote \in Quote
  <2>1. CASE u \in updates
    <3>1. u.id \in 1..newest /\ u.quote \in Quote
      BY <1>1, <2>1 DEF EngineTypes
    <3>2. QED  BY <1>3, <3>1
  <2>2. CASE u = [id |-> newest', quote |-> Head(sending)]
    BY <1>3, <1>4, <2>2
  <2>3. QED  BY <1>2, <1>5, <2>1, <2>2
<1>7. EngineTypes'
  BY <1>1, <1>2, <1>3, <1>5 DEF EngineTypes
<1>8. MarketTypes' /\ CopyTypes'
  BY <1>1, <1>2, MarketSame, CopySame DEF stateVars, priceVars
<1>9. CounterTypes'
  <2>1. faults' \in 0..MaxFaults
    BY <1>1, <1>2, MayFailType
  <2>2. QED  BY <1>1, <1>2, <2>1 DEF CounterTypes
<1>10. QED  BY <1>7, <1>8, <1>9, TypeParts, PTL

\* SetBook: the key holds the update published just before, or what it held.
LEMMA SetBookTyped ==
  ASSUME Typed, SetBook
  PROVE  Typed'
<1>1. EngineTypes /\ MarketTypes /\ CopyTypes /\ CounterTypes
  BY TypeParts
<1>2. /\ sending # <<>> /\ stored /\ stored' = FALSE /\ sending' = Tail(sending)
      /\ \/ /\ bookKey' = <<Head(sending)>> /\ left' = [left EXCEPT !["book"] = KeyLife]
            /\ UNCHANGED faults
         \/ MayFail /\ UNCHANGED <<bookKey, left>>
      /\ UNCHANGED <<book, handled, newest, updates, stateVars, priceVars, events, trades>>
  BY DEF SetBook
<1>3. Head(sending) \in Quote /\ Tail(sending) \in Seq(Quote)
  BY <1>1, <1>2, HeadTailProperties DEF EngineTypes
<1>4. EngineTypes'
  <2>1. stored' \in BOOLEAN
    BY <1>2
  <2>2. bookKey' \in AtMostOne(Quote)
    BY <1>1, <1>2, <1>3, OneOrNone DEF EngineTypes
  <2>3. QED  BY <1>1, <1>2, <1>3, <2>1, <2>2 DEF EngineTypes
<1>5. MarketTypes' /\ CopyTypes'
  BY <1>1, <1>2, MarketSame, CopySame DEF stateVars, priceVars
<1>6. CounterTypes'
  <2>1. faults' \in 0..MaxFaults
    BY <1>1, <1>2, MayFailType
  <2>2. left' \in [Key -> 0..KeyLife]
    BY <1>1, <1>2, BoundAssumption DEF CounterTypes, Key
  <2>3. QED  BY <1>1, <1>2, <2>1, <2>2 DEF CounterTypes
<1>7. QED  BY <1>4, <1>5, <1>6, TypeParts, PTL

\* FetchTrade by its parts: the trade, the trades with it, and the cut.
LEMMA FetchTradeParts ==
  ASSUME Typed, FetchTrade
  PROVE  \E t \in Trade, x \in Point, all \in Seq(Point), cut \in 0..Len(points) :
           /\ x = [age |-> 0, value |-> t.price * t.size] /\ t.price \in Price
           /\ all = Append(points, x) /\ Len(all) = Len(points) + 1
           /\ \A i \in 1..Len(points) : all[i] = points[i]
           /\ all[Len(points) + 1] = x
           /\ last' = t.price /\ traded' = Append(traded, x)
           /\ points' \in Seq(Point) /\ Len(points') = (Len(points) + 1) - cut
           /\ \A i \in 1..Len(points') : points'[i] = all[cut + i]
           /\ points'[1].age <= Day
           /\ \A i \in 1..cut : points[i].age > Day
           /\ volume' = Sum(points') /\ volume' \in Nat
<1>1. PICK t \in Trade :
        LET all == Append(points, [age |-> 0, value |-> t.price * t.size])
        IN  /\ last' = t.price
            /\ points' = Kept(all)
            /\ volume' = (volume + t.price * t.size) - Sum(SubSeq(all, 1, Cut(all)))
            /\ traded' = Append(traded, [age |-> 0, value |-> t.price * t.size])
  BY DEF FetchTrade, Cut, Kept
<1>2. t.price \in Price /\ t.size \in Nat /\ t.price \in Nat
  BY TradeAssumption, PriceAssumption
<1>3. PICK x : x = [age |-> 0, value |-> t.price * t.size]
  OBVIOUS
<1>4. x \in Point /\ x.age = 0 /\ x.value = t.price * t.size
  <2>1. t.price * t.size \in Nat /\ 0 \in 0..(Day + 1)
    BY <1>2, BoundAssumption
  <2>2. QED  BY <1>3, <2>1 DEF Point
<1>5. PICK all : all = Append(points, x)
  OBVIOUS
<1>6. /\ last' = t.price /\ points' = Kept(all) /\ traded' = Append(traded, x)
      /\ volume' = (volume + x.value) - Sum(SubSeq(all, 1, Cut(all)))
  BY <1>1, <1>3, <1>5
<1>7. points \in Seq(Point) /\ volume = Sum(points)
  BY DEF Typed, TypeOK
<1>8. /\ all \in Seq(Point) /\ Len(points) \in Nat /\ Len(all) = Len(points) + 1
      /\ \A i \in 1..Len(points) : all[i] = points[i]
      /\ all[Len(points) + 1] = x
  BY <1>4, <1>5, <1>7, AppendIs
<1>16. Cut(all) \in 0..Len(points)
  BY <1>4, <1>5, <1>7, TradeCounts
<1>9. Kept(all) \in Seq(Point) /\ Len(Kept(all)) = (Len(points) + 1) - Cut(all)
  BY <1>4, <1>5, <1>7, TradeCounts
<1>10. \A i \in 1..Len(Kept(all)) : Kept(all)[i] = all[Cut(all) + i]
  <2>1. Cut(all) \in 0..Len(all) /\ Len(all) \in Cut(all)..Len(all)
    BY <1>8, <1>16
  <2>2. \A i \in 1..(Len(all) - Cut(all)) : Kept(all)[i] = all[Cut(all) + i]
    BY <1>8, <2>1, Part DEF Kept
  <2>3. Len(Kept(all)) = Len(all) - Cut(all)
    BY <1>8, <2>1, Part DEF Kept
  <2>4. QED  BY <2>2, <2>3
<1>11. \A i \in 1..Cut(all) : points[i].age > Day
  BY <1>4, <1>5, <1>7, TradeCounts
<1>12. Kept(all)[1].age <= Day
  BY <1>4, <1>5, <1>7, TradeCounts
<1>13. volume' = Sum(Kept(all)) /\ Sum(Kept(all)) \in Nat
  <2>1. /\ (Sum(points) + x.value) - Sum(SubSeq(all, 1, Cut(all))) = Sum(Kept(all))
        /\ Sum(Kept(all)) \in Nat
    BY <1>4, <1>5, <1>7, TradeCounts
  <2>2. QED  BY <1>6, <1>7, <2>1
<1>14. PICK cut : cut = Cut(all)
  OBVIOUS
<1>15. /\ points' \in Seq(Point) /\ Len(points') = (Len(points) + 1) - cut
       /\ \A i \in 1..Len(points') : points'[i] = all[cut + i]
       /\ points'[1].age <= Day
       /\ \A i \in 1..cut : points[i].age > Day
       /\ volume' = Sum(points') /\ volume' \in Nat
  BY <1>6, <1>9, <1>10, <1>11, <1>12, <1>13, <1>14
<1>17. cut \in 0..Len(points)
  BY <1>14, <1>16
<1>18. QED  BY <1>2, <1>3, <1>4, <1>5, <1>6, <1>8, <1>15, <1>17

\* FetchTrade: the volume it leaves is a number.
LEMMA FetchTradeTyped ==
  ASSUME Typed, FetchTrade
  PROVE  Typed'
<1>1. EngineTypes /\ MarketTypes /\ CopyTypes /\ CounterTypes
  BY TypeParts
<1>2. PICK x \in Point : traded' = Append(traded, x)
  BY FetchTradeParts
<1>3. /\ last' \in Price /\ points' \in Seq(Point)
      /\ volume' = Sum(points') /\ volume' \in Nat
  BY FetchTradeParts
<1>4. /\ UNCHANGED quote /\ Locked("trader") /\ trades < MaxTrades /\ trades' = trades + 1
      /\ UNCHANGED <<engineVars, updates, left, published, prices, priceKey, events, faults>>
  BY DEF FetchTrade
<1>5. "trader" \in Worker
  BY DEF Worker
<1>6. /\ history' \in Seq(State) /\ pricing' \in [Worker -> AtMostOne(Update')]
      /\ priceKey \in AtMostOne(Update') /\ prices \in SUBSET Update'
      /\ mine' \in [Worker -> 0..Len(history')] /\ unwritten' \in SUBSET Worker
  <2>1. quote' \in [bid : Price \cup {0}, ask : Price \cup {0}]
    BY <1>1, <1>4, QuoteIs
  <2>2. QED  BY <1>3, <1>4, <1>5, <2>1, LockedType DEF Typed
<1>7. EngineTypes'
  BY <1>1, <1>4, EngineSame
<1>8. MarketTypes'
  <2>1. traded' \in Seq(Point)
    BY <1>1, <1>2, AppendIs DEF MarketTypes
  <2>2. QED  BY <1>1, <1>3, <1>4, <1>6, <2>1 DEF MarketTypes
<1>9. CopyTypes'
  BY <1>1, <1>4, <1>6 DEF CopyTypes
<1>10. CounterTypes'
  BY <1>1, <1>4, BoundAssumption DEF CounterTypes
<1>11. QED  BY <1>7, <1>8, <1>9, <1>10, TypeParts, PTL

\* FetchUpdate: the quotes of an update are prices.
LEMMA FetchUpdateTyped ==
  ASSUME Typed, FetchUpdate
  PROVE  Typed'
<1>1. EngineTypes /\ MarketTypes /\ CopyTypes /\ CounterTypes
  BY TypeParts
<1>2. PICK u \in updates :
        /\ updates' = updates \ {u}
        /\ IF TwoSided(u.quote)
           THEN /\ quote' = [bid |-> u.quote.bid, ask |-> u.quote.ask]
                /\ UNCHANGED <<last, volume, points, traded>>
                /\ Locked("quoter")
           ELSE UNCHANGED <<stateVars, pricing, mine, unwritten>>
  BY DEF FetchUpdate
<1>3. UNCHANGED <<engineVars, left, published, prices, priceKey, counters>>
  BY DEF FetchUpdate
<1>4. u.quote \in Quote
  BY <1>1 DEF EngineTypes
<1>5. EngineTypes'
  BY <1>1, <1>2, <1>3 DEF EngineTypes, engineVars
<1>6. CounterTypes'
  BY <1>1, <1>3 DEF CounterTypes, counters
<1>7. MarketTypes' /\ CopyTypes'
  <2>1. CASE TwoSided(u.quote)
    <3>1. /\ quote' = [bid |-> u.quote.bid, ask |-> u.quote.ask]
          /\ UNCHANGED <<last, volume, points, traded>> /\ Locked("quoter")
      BY <1>2, <2>1
    <3>2. quote' \in [bid : Price, ask : Price]
      <4>1. /\ u.quote.bid \in Price \cup {0} /\ u.quote.bid > 0
            /\ u.quote.ask \in Price \cup {0} /\ u.quote.ask > 0
        BY <1>4, <2>1 DEF Quote, TwoSided
      <4>2. u.quote.bid \in Price /\ u.quote.ask \in Price
        BY <4>1
      <4>3. QED  BY <3>1, <4>2
    <3>3. /\ quote' \in [bid : Price \cup {0}, ask : Price \cup {0}]
          /\ last' \in Price \cup {0} /\ volume' \in Nat /\ "quoter" \in Worker
      BY <1>1, <3>1, <3>2 DEF MarketTypes, Worker
    <3>4. /\ history' \in Seq(State) /\ pricing' \in [Worker -> AtMostOne(Update')]
          /\ priceKey \in AtMostOne(Update') /\ prices \in SUBSET Update'
          /\ mine' \in [Worker -> 0..Len(history')] /\ unwritten' \in SUBSET Worker
      BY <3>1, <3>3, LockedType DEF Typed
    <3>5. MarketTypes'
      BY <1>1, <3>1, <3>2, <3>4 DEF MarketTypes
    <3>6. CopyTypes'
      BY <1>1, <1>3, <3>4 DEF CopyTypes
    <3>7. QED  BY <3>5, <3>6
  <2>2. CASE ~TwoSided(u.quote)
    BY <1>1, <1>2, <1>3, <2>2, MarketSame, CopySame DEF stateVars
  <2>3. QED  BY <2>1, <2>2
<1>8. QED  BY <1>5, <1>6, <1>7, TypeParts, PTL

\* PublishPrice: the topic gets what the worker copied.
LEMMA PublishPriceTyped ==
  ASSUME Typed, NEW w \in Worker, PublishPrice(w)
  PROVE  Typed'
<1>1. EngineTypes /\ MarketTypes /\ CopyTypes /\ CounterTypes
  BY TypeParts
<1>2. /\ published' = published \cup {w}
      /\ prices' = prices \cup Range(pricing[w]) \/ prices' = prices
      /\ MayFail \/ UNCHANGED faults
      /\ UNCHANGED <<engineVars, stateVars, updates, left, pricing, priceKey, mine, unwritten, events, trades>>
  BY DEF PublishPrice, Written
<1>3. EngineTypes' /\ MarketTypes'
  BY <1>1, <1>2, EngineSame, MarketSame DEF stateVars
<1>4. CopyTypes'
  <2>1. Update' = Update /\ history' = history
    BY <1>2 DEF Update, stateVars
  <2>2. pricing[w] \in Seq(Update)
    BY <1>1 DEF CopyTypes, AtMostOne
  <2>3. Range(pricing[w]) \subseteq Update
    BY <2>2 DEF Range
  <2>4. prices' \in SUBSET Update /\ published' \in SUBSET Worker
    BY <1>1, <1>2, <2>3 DEF CopyTypes
  <2>5. QED  BY <1>1, <1>2, <2>1, <2>4 DEF CopyTypes
<1>5. CounterTypes'
  <2>1. faults' \in 0..MaxFaults
    BY <1>1, <1>2, MayFailType
  <2>2. QED  BY <1>1, <1>2, <2>1 DEF CounterTypes
<1>6. QED  BY <1>3, <1>4, <1>5, TypeParts, PTL

\* SetPrice: the key holds what the worker copied.
LEMMA SetPriceTyped ==
  ASSUME Typed, NEW w \in Worker, SetPrice(w)
  PROVE  Typed'
<1>1. EngineTypes /\ MarketTypes /\ CopyTypes /\ CounterTypes
  BY TypeParts
<1>2. /\ published' = published \ {w} /\ pricing' = [pricing EXCEPT ![w] = <<>>]
      /\ \/ /\ priceKey' = pricing[w] /\ left' = [left EXCEPT !["price"] = KeyLife]
            /\ UNCHANGED <<faults, unwritten>>
         \/ MayFail /\ unwritten' = unwritten \cup {w} /\ UNCHANGED <<priceKey, left>>
      /\ UNCHANGED <<engineVars, stateVars, updates, prices, mine, events, trades>>
  BY DEF SetPrice, Cached, Written
<1>3. EngineTypes' /\ MarketTypes'
  BY <1>1, <1>2, EngineSame, MarketSame DEF stateVars
<1>4. CopyTypes'
  <2>1. Update' = Update /\ history' = history
    BY <1>2 DEF Update, stateVars
  <2>2. priceKey' \in AtMostOne(Update) /\ pricing' \in [Worker -> AtMostOne(Update)]
    BY <1>1, <1>2, OneOrNone DEF CopyTypes
  <2>3. unwritten' \in SUBSET Worker /\ published' \in SUBSET Worker
    BY <1>1, <1>2 DEF CopyTypes
  <2>4. QED  BY <1>1, <1>2, <2>1, <2>2, <2>3 DEF CopyTypes
<1>5. CounterTypes'
  <2>1. faults' \in 0..MaxFaults
    BY <1>1, <1>2, MayFailType
  <2>2. left' \in [Key -> 0..KeyLife]
    BY <1>1, <1>2, BoundAssumption DEF CounterTypes, Key
  <2>3. QED  BY <1>1, <1>2, <2>1, <2>2 DEF CounterTypes
<1>6. QED  BY <1>3, <1>4, <1>5, TypeParts, PTL

\* Tick: ages stop just past the window, the volume does not change, and a key
\* stays what it was or is gone.
LEMMA TickTyped ==
  ASSUME Typed, Tick
  PROVE  Typed'
<1>1. EngineTypes /\ MarketTypes /\ CopyTypes /\ CounterTypes
  BY TypeParts
<1>2. /\ points' = Older(points) /\ traded' = Older(traded)
      /\ left' = [k \in Key |-> IF left[k] = 0 THEN 0 ELSE left[k] - 1]
      /\ bookKey' = <<>> \/ bookKey' = bookKey
      /\ priceKey' = <<>> \/ priceKey' = priceKey
      /\ UNCHANGED <<book, handled, sending, stored, newest, quote, last, volume, history, updates,
                     pricing, published, prices, mine, unwritten, counters>>
  BY DEF Tick, Alive
<1>3. points' \in Seq(Point) /\ traded' \in Seq(Point) /\ Sum(points') = Sum(points)
  BY <1>1, <1>2, OlderKeeps DEF MarketTypes
<1>4. MarketTypes'
  BY <1>1, <1>2, <1>3 DEF MarketTypes
<1>5. EngineTypes'
  BY <1>1, <1>2, OneOrNone DEF EngineTypes
<1>6. CopyTypes'
  <2>1. Update' = Update
    BY <1>2 DEF Update
  <2>2. QED  BY <1>1, <1>2, <2>1, OneOrNone DEF CopyTypes
<1>7. CounterTypes'
  <2>1. KeyLife \in Nat
    BY BoundAssumption
  <2>2. \A n \in 0..KeyLife : (IF n = 0 THEN 0 ELSE n - 1) \in 0..KeyLife
    BY <2>1
  <2>3. left' \in [Key -> 0..KeyLife]
    BY <1>1, <1>2, <2>2 DEF CounterTypes
  <2>4. QED  BY <1>1, <1>2, <2>3 DEF CounterTypes, counters
<1>8. QED  BY <1>4, <1>5, <1>6, <1>7, TypeParts, PTL

\* Crash: what is in memory starts again, what is outside stays.
LEMMA CrashTyped ==
  ASSUME Typed, Crash
  PROVE  Typed'
<1>1. EngineTypes /\ MarketTypes /\ CopyTypes /\ CounterTypes
  BY TypeParts
<1>2. /\ MayFail
      /\ book' = EmptyBook /\ handled' = <<>> /\ sending' = <<>> /\ stored' = FALSE
      /\ quote' = NoQuote /\ last' = 0 /\ volume' = 0 /\ points' = <<>> /\ traded' = <<>>
      /\ unwritten' = unwritten \cup {w \in Worker : ~Idle(w)}
      /\ pricing' = [w \in Worker |-> <<>>] /\ published' = {}
      /\ UNCHANGED <<newest, updates, bookKey, left, history, prices, priceKey, mine, events, trades>>
  BY DEF Crash
<1>3. EngineTypes'
  <2>1. book' \in [Token -> [bids : SUBSET Price, asks : SUBSET Price]]
    BY <1>2 DEF EmptyBook
  <2>2. handled' \in Seq(Feed) /\ sending' \in Seq(Quote)
    BY <1>2
  <2>3. stored' \in BOOLEAN
    BY <1>2
  <2>4. QED  BY <1>1, <1>2, <2>1, <2>2, <2>3 DEF EngineTypes
<1>4. MarketTypes'
  <2>1. quote' \in {NoQuote} \cup [bid : Price, ask : Price]
    BY <1>2
  <2>2. <<>> \in Seq(Point) /\ Sum(<<>>) = 0
    <3>1. <<>> \in Seq(Point) /\ Len(<<>>) = 0
      BY EmptySeq
    <3>2. QED  BY <3>1, TotalsStep DEF Sum
  <2>3. QED  BY <1>1, <1>2, <2>1, <2>2 DEF MarketTypes
<1>5. CopyTypes'
  <2>1. Update' = Update
    BY <1>2 DEF Update
  <2>2. unwritten' \in SUBSET Worker
    BY <1>1, <1>2 DEF CopyTypes
  <2>3. QED  BY <1>1, <1>2, <2>1, <2>2, OneOrNone DEF CopyTypes
<1>6. CounterTypes'
  <2>1. faults' \in 0..MaxFaults
    BY <1>1, <1>2, MayFailType
  <2>2. QED  BY <1>1, <1>2, <2>1 DEF CounterTypes
<1>7. QED  BY <1>3, <1>4, <1>5, <1>6, TypeParts, PTL

LEMMA NextTyped ==
  ASSUME Typed, [Next]_vars
  PROVE  Typed'
<1>1. CASE FetchRaw
  BY <1>1, FetchRawTyped
<1>2. CASE PublishBook
  BY <1>2, PublishBookTyped
<1>3. CASE SetBook
  BY <1>3, SetBookTyped
<1>4. CASE FetchTrade
  BY <1>4, FetchTradeTyped
<1>5. CASE FetchUpdate
  BY <1>5, FetchUpdateTyped
<1>6. CASE \E w \in Worker : PublishPrice(w) \/ SetPrice(w)
  BY <1>6, PublishPriceTyped, SetPriceTyped
<1>7. CASE Tick
  BY <1>7, TickTyped
<1>8. CASE Crash
  BY <1>8, CrashTyped
<1>9. CASE UNCHANGED vars
  <2>1. EngineTypes /\ MarketTypes /\ CopyTypes /\ CounterTypes
    BY TypeParts
  <2>2. UNCHANGED <<engineVars, stateVars, updates, left, priceVars, counters>>
    BY <1>9 DEF vars
  <2>3. EngineTypes' /\ MarketTypes' /\ CopyTypes'
    BY <2>1, <2>2, EngineSame, MarketSame, CopySame DEF stateVars, priceVars
  <2>4. CounterTypes'
    BY <2>1, <2>2 DEF CounterTypes, counters
  <2>5. QED  BY <2>3, <2>4, TypeParts, PTL
<1>10. QED  BY <1>1, <1>2, <1>3, <1>4, <1>5, <1>6, <1>7, <1>8, <1>9 DEF Next

LEMMA AlwaysTyped == Spec => []Typed
<1>1. Init => Typed
  BY TypedAtFirst
<1>2. Typed /\ [Next]_vars => Typed'
  BY NextTyped
<1>3. QED  BY <1>1, <1>2, PTL DEF Spec

\* Every variable has its type, whatever is fed, traded, lost or restarted.
THEOREM TypesHold == Spec => []TypeOK
<1>1. Typed => TypeOK
  BY DEF Typed
<1>2. QED  BY <1>1, AlwaysTyped, PTL

---------------------------------------------------------------------------
(* The levels of the order book.                                           *)

\* Some of the events set a level, and none after it took it away.
Left(h, t, side, p) ==
  \E i \in DOMAIN h : /\ Sets(h[i], t, side, p)
                      /\ \A j \in (i + 1)..Len(h) : ~Clears(h[j], t, side, p)

\* An event after the others either sets a level, or leaves one that is there.
LEMMA OneMoreEvent ==
  ASSUME NEW S, NEW h \in Seq(S), NEW e \in S, NEW t \in Token,
         NEW side \in {"bids", "asks"}, NEW p \in Price,
         NEW g, g = Append(h, e)
  PROVE  Left(g, t, side, p) <=>
           Sets(e, t, side, p) \/ (~Clears(e, t, side, p) /\ Left(h, t, side, p))
<1>1. /\ g \in Seq(S) /\ Len(g) = Len(h) + 1 /\ Len(h) \in Nat
      /\ g[Len(h) + 1] = e /\ \A i \in 1..Len(h) : g[i] = h[i]
  BY AppendIs
<1>2. DOMAIN g = 1..Len(g) /\ DOMAIN h = 1..Len(h)
  BY <1>1, LenProperties
<1>3. ASSUME NEW i \in DOMAIN g, Sets(g[i], t, side, p),
             \A j \in (i + 1)..Len(g) : ~Clears(g[j], t, side, p), i # Len(g)
      PROVE  /\ ~Clears(e, t, side, p)
             /\ i \in DOMAIN h /\ Sets(h[i], t, side, p)
             /\ \A j \in (i + 1)..Len(h) : ~Clears(h[j], t, side, p)
  <2>1. i \in 1..Len(h) /\ Len(g) \in (i + 1)..Len(g) /\ g[i] = h[i]
    BY <1>1, <1>2, <1>3
  <2>2. ~Clears(e, t, side, p)
    BY <1>1, <1>3, <2>1
  <2>3. ASSUME NEW j \in (i + 1)..Len(h) PROVE ~Clears(h[j], t, side, p)
    <3>1. j \in (i + 1)..Len(g) /\ g[j] = h[j]
      BY <1>1, <2>1
    <3>2. ~Clears(g[j], t, side, p)
      BY <1>3, <3>1
    <3>3. QED  BY <3>1, <3>2
  <2>4. Sets(h[i], t, side, p)
    BY <1>3, <2>1
  <2>5. QED  BY <1>2, <2>1, <2>2, <2>3, <2>4
<1>4. ASSUME Sets(e, t, side, p)
      PROVE  /\ Len(g) \in DOMAIN g /\ Sets(g[Len(g)], t, side, p)
             /\ \A j \in (Len(g) + 1)..Len(g) : ~Clears(g[j], t, side, p)
  BY <1>1, <1>2, <1>4
<1>5. ASSUME ~Clears(e, t, side, p), NEW i \in DOMAIN h, Sets(h[i], t, side, p),
             \A j \in (i + 1)..Len(h) : ~Clears(h[j], t, side, p)
      PROVE  /\ i \in DOMAIN g /\ Sets(g[i], t, side, p)
             /\ \A j \in (i + 1)..Len(g) : ~Clears(g[j], t, side, p)
  <2>1. i \in 1..Len(g) /\ g[i] = h[i]
    BY <1>1, <1>2
  <2>2. ASSUME NEW j \in (i + 1)..Len(g) PROVE ~Clears(g[j], t, side, p)
    <3>1. CASE j = Len(h) + 1
      BY <1>1, <1>5, <3>1
    <3>2. CASE j # Len(h) + 1
      <4>1. j \in (i + 1)..Len(h) /\ g[j] = h[j]
        BY <1>1, <1>2, <3>2
      <4>2. ~Clears(h[j], t, side, p)
        BY <1>5, <4>1
      <4>3. QED  BY <4>1, <4>2
    <3>3. QED  BY <3>1, <3>2
  <2>3. Sets(g[i], t, side, p)
    BY <1>5, <2>1
  <2>4. QED  BY <1>2, <2>1, <2>2, <2>3
<1>6. ASSUME NEW i \in DOMAIN g, Sets(g[i], t, side, p), i = Len(g)
      PROVE  Sets(e, t, side, p)
  <2>1. g[i] = e
    BY <1>1, <1>6
  <2>2. QED  BY <1>6, <2>1
<1>7. QED  BY <1>3, <1>4, <1>5, <1>6 DEF Left

\* An event sets and takes away levels of its token only, as Sets and Clears say.
LEMMA LevelsFollow ==
  ASSUME Typed, NEW e \in Feed, FetchChanges(e) \/ FetchLevels(e),
         NEW t \in Token, NEW side \in {"bids", "asks"}, NEW p \in Price
  PROVE  p \in book'[t][side] <=>
           Sets(e, t, side, p) \/ (~Clears(e, t, side, p) /\ p \in book[t][side])
<1>1. e \in LevelsEvent \cup ChangesEvent
  BY FeedAssumption
<1>2. book \in [Token -> [bids : SUBSET Price, asks : SUBSET Price]]
  BY DEF Typed, TypeOK
<1>3. CASE FetchChanges(e)
  <2>1. book' = book /\ e.kind # "levels"
    BY <1>3 DEF FetchChanges
  <2>2. QED  BY <2>1 DEF Sets, Clears
<1>4. CASE FetchLevels(e)
  <2>1. e.kind = "levels" /\ e \in LevelsEvent
    BY <1>1, <1>4 DEF FetchLevels, LevelsEvent, ChangesEvent
  <2>2. e.token \in Token /\ e.reset \in BOOLEAN /\ e[side][p] \in {"absent", "set", "gone"}
    BY <2>1 DEF LevelsEvent, Change
  <2> DEFINE start == StartLevels(e)
             new   == [bids |-> ApplyLevels(start.bids, e.bids), asks |-> ApplyLevels(start.asks, e.asks)]
  <2>3. book' = [book EXCEPT ![e.token] = new]
    BY <1>4 DEF FetchLevels
  <2>4. CASE t # e.token
    <3>1. book'[t] = book[t]
      BY <1>2, <2>3, <2>4
    <3>2. QED  BY <2>4, <3>1 DEF Sets, Clears
  <2>5. CASE t = e.token
    <3>1. book'[t] = new
      BY <1>2, <2>3, <2>5
    <3>2. p \in book'[t][side] <=> e[side][p] = "set" \/ (p \in start[side] /\ e[side][p] = "absent")
      <4> HIDE DEF start
      <4>1. CASE side = "bids"
        BY <3>1, <4>1 DEF ApplyLevels
      <4>2. CASE side = "asks"
        BY <3>1, <4>2 DEF ApplyLevels
      <4>3. QED  BY <4>1, <4>2
    <3>3. p \in start[side] <=> ~e.reset /\ p \in book[t][side]
      <4>1. CASE e.reset
        BY <4>1 DEF StartLevels
      <4>2. CASE ~e.reset
        BY <2>5, <4>2 DEF StartLevels
      <4>3. QED  BY <2>2, <4>1, <4>2
    <3> HIDE DEF start, new
    <3>4. Sets(e, t, side, p) <=> e[side][p] = "set"
      BY <2>1, <2>5 DEF Sets
    <3>5. Clears(e, t, side, p) <=> e[side][p] = "gone" \/ (e.reset /\ e[side][p] = "absent")
      BY <2>1, <2>5 DEF Clears
    <3>6. QED  BY <2>2, <3>2, <3>3, <3>4, <3>5
  <2>6. QED  BY <2>4, <2>5
<1>5. QED  BY <1>3, <1>4

\* The levels are those the events left, and stay so.
LEMMA BookStep ==
  ASSUME Typed, BookMatchesEvents, [Next]_vars
  PROVE  BookMatchesEvents'
<1>1. CASE UNCHANGED <<book, handled>>
  BY <1>1 DEF BookMatchesEvents
<1>2. CASE FetchRaw
  <2>1. PICK e \in Feed : (FetchChanges(e) \/ FetchLevels(e)) /\ handled' = Append(handled, e)
    BY <1>2 DEF FetchRaw
  <2>2. handled \in Seq(Feed)
    BY DEF Typed, TypeOK
  <2> SUFFICES ASSUME NEW t \in Token, NEW side \in {"bids", "asks"}, NEW p \in Price
               PROVE  p \in book'[t][side] <=> Left(handled', t, side, p)
    BY DEF BookMatchesEvents, Left
  <2>3. p \in book[t][side] <=> Left(handled, t, side, p)
    BY DEF BookMatchesEvents, Left
  <2>4. p \in book'[t][side] <=>
          Sets(e, t, side, p) \/ (~Clears(e, t, side, p) /\ p \in book[t][side])
    BY <2>1, LevelsFollow
  <2>5. Left(handled', t, side, p) <=>
          Sets(e, t, side, p) \/ (~Clears(e, t, side, p) /\ Left(handled, t, side, p))
    BY <2>1, <2>2, OneMoreEvent
  <2>6. QED  BY <2>3, <2>4, <2>5
<1>3. CASE Crash
  <2>1. book' = EmptyBook /\ handled' = <<>>
    BY <1>3 DEF Crash
  <2>2. DOMAIN <<>> = {}
    OBVIOUS
  <2>3. ASSUME NEW t \in Token, NEW side \in {"bids", "asks"} PROVE book'[t][side] = {}
    BY <2>1 DEF EmptyBook
  <2>4. QED  BY <2>1, <2>2, <2>3 DEF BookMatchesEvents
<1>4. CASE PublishBook \/ SetBook \/ FetchTrade \/ FetchUpdate \/ Tick
  BY <1>1, <1>4 DEF PublishBook, SetBook, FetchTrade, FetchUpdate, Tick, engineVars
<1>5. CASE \E w \in Worker : PublishPrice(w) \/ SetPrice(w)
  BY <1>1, <1>5 DEF PublishPrice, SetPrice, engineVars
<1>6. CASE UNCHANGED vars
  BY <1>1, <1>6 DEF vars, engineVars
<1>7. QED  BY <1>2, <1>3, <1>4, <1>5, <1>6 DEF Next

\* The levels kept for a token are those some event since the restart set and
\* no later one took away.
THEOREM LevelsAreRight == Spec => []BookMatchesEvents
<1>1. Init => BookMatchesEvents
  <2> SUFFICES ASSUME Init PROVE BookMatchesEvents
    OBVIOUS
  <2>1. DOMAIN handled = {}
    BY DEF Init
  <2>2. ASSUME NEW t \in Token, NEW side \in {"bids", "asks"} PROVE book[t][side] = {}
    BY DEF Init, EmptyBook
  <2>3. QED  BY <2>1, <2>2 DEF BookMatchesEvents
<1>2. Typed /\ BookMatchesEvents /\ [Next]_vars => BookMatchesEvents'
  BY BookStep
<1>3. QED  BY <1>1, <1>2, AlwaysTyped, PTL DEF Spec

---------------------------------------------------------------------------
(* The volume of the last 24 hours.                                        *)

\* How many trades since the restart have been taken out.
Out == Len(traded) - Len(points)

\* The trades kept are the last ones, oldest first, and those taken out are
\* older than a day; after a trade none of those kept is.
WindowInv ==
  /\ Len(points) <= Len(traded)
  /\ \A i \in 1..Len(points) : points[i] = traded[Out + i]
  /\ \A i \in 1..Out : traded[i].age > Day
  /\ \A i, j \in 1..Len(points) : i <= j => points[i].age >= points[j].age
  /\ Len(points) > 0 /\ points[Len(points)].age = 0 =>
       \A i \in 1..Len(points) : points[i].age <= Day

LEMMA Lengths ==
  ASSUME Typed
  PROVE  /\ Len(points) \in Nat /\ Len(traded) \in Nat
         /\ points \in Seq(Point) /\ traded \in Seq(Point)
         /\ \A i \in 1..Len(points) : points[i].age \in Nat
         /\ \A i \in 1..Len(traded) : traded[i].age \in Nat
         /\ Day \in Nat
<1>1. points \in Seq(Point) /\ traded \in Seq(Point)
  BY DEF Typed, TypeOK
<1>2. Day \in Nat
  BY BoundAssumption
<1>3. ASSUME NEW ps \in Seq(Point), NEW i \in 1..Len(ps) PROVE ps[i].age \in Nat
  <2>1. ps[i] \in Point
    OBVIOUS
  <2>2. QED  BY <1>2, <2>1 DEF Point
<1>4. QED  BY <1>1, <1>2, <1>3

\* A trade goes behind the others, and what goes out in front are the first.
LEMMA WindowMoves ==
  ASSUME Typed, WindowInv, FetchTrade
  PROVE  WindowInv'
<1>1. /\ Len(points) \in Nat /\ Len(traded) \in Nat
      /\ points \in Seq(Point) /\ traded \in Seq(Point)
      /\ \A i \in 1..Len(points) : points[i].age \in Nat
      /\ Day \in Nat
  BY Lengths
<1>2. PICK t \in Trade, x \in Point, all \in Seq(Point), cut \in 0..Len(points) :
        /\ x = [age |-> 0, value |-> t.price * t.size] /\ t.price \in Price
        /\ all = Append(points, x) /\ Len(all) = Len(points) + 1
        /\ \A i \in 1..Len(points) : all[i] = points[i]
        /\ all[Len(points) + 1] = x
        /\ last' = t.price /\ traded' = Append(traded, x)
        /\ points' \in Seq(Point) /\ Len(points') = (Len(points) + 1) - cut
        /\ \A i \in 1..Len(points') : points'[i] = all[cut + i]
        /\ points'[1].age <= Day
        /\ \A i \in 1..cut : points[i].age > Day
        /\ volume' = Sum(points') /\ volume' \in Nat
  BY FetchTradeParts
<1>3. x.age = 0
  BY <1>2
<1>4. /\ Len(traded') = Len(traded) + 1 /\ traded'[Len(traded) + 1] = x
      /\ \A i \in 1..Len(traded) : traded'[i] = traded[i]
  BY <1>1, <1>2, AppendIs
<1>5. /\ Len(points) <= Len(traded)
      /\ \A i \in 1..Len(points) : points[i] = traded[Out + i]
      /\ \A i \in 1..Out : traded[i].age > Day
      /\ \A i, j \in 1..Len(points) : i <= j => points[i].age >= points[j].age
  BY DEF WindowInv
<1>6. Out \in Nat /\ Out' = Out + cut /\ Len(traded) = Out + Len(points) /\ cut \in Nat /\ cut <= Len(points)
  BY <1>1, <1>2, <1>4, <1>5 DEF Out
<1>7. Len(points') <= Len(traded') /\ Len(points') = (Len(points) + 1) - cut /\ Len(points') \in Nat
  BY <1>1, <1>2, <1>4, <1>5
<1>13. Out' \in Nat
  BY <1>6
<1>8. ASSUME NEW i \in 1..Len(points') PROVE points'[i] = traded'[Out' + i]
  <2>5. i \in Nat /\ 1 <= i /\ i <= Len(points')
    BY <1>7
  <2>1. points'[i] = all[cut + i]
    BY <1>2
  <2>2. CASE cut + i = Len(points) + 1
    <3>1. Out' + i = Len(traded) + 1
      <4>1. PICK o \in Nat, n \in Nat, l \in Nat : o = Out /\ n = Len(points) /\ l = Len(traded)
        BY <1>1, <1>6
      <4>2. Out' = o + cut /\ l = o + n /\ cut + i = n + 1
        BY <1>6, <2>2, <4>1
      <4>3. (o + cut) + i = l + 1
        BY <1>6, <2>5, <4>2
      <4>4. QED  BY <4>1, <4>2, <4>3
    <3>2. QED  BY <1>2, <1>4, <2>1, <2>2, <3>1
  <2>3. CASE cut + i # Len(points) + 1
    <3>1. cut + i \in 1..Len(points) /\ Out' + i = Out + (cut + i)
      BY <1>1, <1>6, <1>7, <2>3, <2>5
    <3>2. all[cut + i] = traded[Out + (cut + i)]
      BY <1>2, <1>5, <3>1
    <3>3. Out + (cut + i) \in 1..Len(traded)
      BY <1>1, <1>6, <3>1
    <3>4. QED  BY <1>4, <2>1, <3>1, <3>2, <3>3
  <2>4. QED  BY <2>2, <2>3
<1>9. ASSUME NEW i \in 1..Out' PROVE traded'[i].age > Day
  <2>1. i \in 1..Len(traded) /\ traded'[i] = traded[i]
    BY <1>1, <1>4, <1>6
  <2>2. CASE i \in 1..Out
    BY <1>5, <2>1, <2>2
  <2>3. CASE i \notin 1..Out
    <3>1. i - Out \in 1..cut /\ i - Out \in 1..Len(points) /\ Out + (i - Out) = i
      BY <1>1, <1>6, <2>3
    <3>2. points[i - Out].age > Day /\ points[i - Out] = traded[Out + (i - Out)]
      BY <1>2, <1>5, <3>1
    <3>3. QED  BY <2>1, <3>1, <3>2
  <2>4. QED  BY <2>2, <2>3
<1>10. ASSUME NEW i \in 1..Len(points'), NEW j \in 1..Len(points'), i <= j
       PROVE  points'[i].age >= points'[j].age
  <2>1. points'[i] = all[cut + i] /\ points'[j] = all[cut + j]
    BY <1>2
  <2>2. CASE cut + j = Len(points) + 1
    <3>1. points'[j].age = 0
      BY <1>2, <1>3, <2>1, <2>2
    <3>2. points'[i].age >= 0
      <4>1. CASE cut + i = Len(points) + 1
        BY <1>2, <1>3, <2>1, <4>1
      <4>2. CASE cut + i # Len(points) + 1
        <5>1. cut + i \in 1..Len(points)
          BY <1>1, <1>2, <1>6, <4>2
        <5>2. QED  BY <1>1, <1>2, <2>1, <5>1
      <4>3. QED  BY <4>1, <4>2
    <3>3. QED  BY <3>1, <3>2
  <2>3. CASE cut + j # Len(points) + 1
    <3>1. /\ cut + i \in 1..Len(points) /\ cut + j \in 1..Len(points) /\ cut + i <= cut + j
      <4>1. PICK n \in Nat, m \in Nat : n = Len(points) /\ m = Len(points')
        BY <1>1, <1>7
      <4>2. m = (n + 1) - cut /\ i \in 1..m /\ j \in 1..m /\ i <= j /\ cut + j # n + 1
        BY <1>7, <1>10, <2>3, <4>1
      <4>3. cut + i \in 1..n /\ cut + j \in 1..n /\ cut + i <= cut + j
        BY <1>6, <4>2
      <4>4. QED  BY <4>1, <4>3
    <3>2. points[cut + i].age >= points[cut + j].age
      BY <1>5, <3>1
    <3>3. QED  BY <1>2, <2>1, <3>1, <3>2
  <2>4. QED  BY <2>2, <2>3
<1>11. \A i \in 1..Len(points') : points'[i].age <= Day
  <2> SUFFICES ASSUME NEW i \in 1..Len(points') PROVE points'[i].age <= Day
    OBVIOUS
  <2>1. 1 \in 1..Len(points') /\ 1 <= i
    BY <1>1, <1>2, <1>6
  <2>2. points'[1].age >= points'[i].age /\ points'[1].age <= Day
    BY <1>2, <1>10, <2>1
  <2>3. points'[1].age \in Nat /\ points'[i].age \in Nat
    <3>1. points'[1] \in Point /\ points'[i] \in Point
      BY <1>2, <2>1
    <3>2. QED  BY <1>1, <3>1 DEF Point
  <2>4. QED  BY <1>1, <2>2, <2>3
<1>12. QED  BY <1>7, <1>8, <1>9, <1>10, <1>11 DEF WindowInv

\* When time passes the last trade is no longer new.
LEMMA WindowAges ==
  ASSUME Typed, WindowInv, Tick
  PROVE  WindowInv'
<1>1. /\ Len(points) \in Nat /\ Len(traded) \in Nat
      /\ points \in Seq(Point) /\ traded \in Seq(Point)
      /\ \A i \in 1..Len(points) : points[i].age \in Nat
      /\ \A i \in 1..Len(traded) : traded[i].age \in Nat
      /\ Day \in Nat
  BY Lengths
<1>2. points' = Older(points) /\ traded' = Older(traded)
  BY DEF Tick
<1>3. /\ Len(points') = Len(points) /\ Len(traded') = Len(traded)
      /\ \A i \in 1..Len(points) :
           points'[i].age = IF points[i].age > Day THEN points[i].age ELSE points[i].age + 1
      /\ \A i \in 1..Len(traded) :
           traded'[i].age = IF traded[i].age > Day THEN traded[i].age ELSE traded[i].age + 1
  BY <1>1, <1>2, OlderKeeps
<1>4. /\ Len(points) <= Len(traded)
      /\ \A i \in 1..Len(points) : points[i] = traded[Out + i]
      /\ \A i \in 1..Out : traded[i].age > Day
      /\ \A i, j \in 1..Len(points) : i <= j => points[i].age >= points[j].age
  BY DEF WindowInv
<1>5. Out' = Out /\ Out \in Nat /\ Len(traded) = Out + Len(points)
  BY <1>1, <1>3, <1>4 DEF Out
<1>6. ASSUME NEW i \in 1..Len(points') PROVE points'[i] = traded'[Out' + i]
  <2>1. i \in DOMAIN points /\ Out + i \in DOMAIN traded /\ points[i] = traded[Out + i]
    BY <1>1, <1>3, <1>4, <1>5
  <2>2. QED  BY <1>2, <1>5, <2>1 DEF Older
<1>7. ASSUME NEW i \in 1..Out' PROVE traded'[i].age > Day
  <2>1. i \in 1..Len(traded) /\ traded[i].age > Day
    BY <1>1, <1>4, <1>5
  <2>2. QED  BY <1>3, <2>1
<1>8. ASSUME NEW i \in 1..Len(points'), NEW j \in 1..Len(points'), i <= j
      PROVE  points'[i].age >= points'[j].age
  <2>1. /\ i \in 1..Len(points) /\ j \in 1..Len(points) /\ points[i].age >= points[j].age
        /\ points[i].age \in Nat /\ points[j].age \in Nat
    BY <1>1, <1>3, <1>4, <1>8
  <2>2. QED  BY <1>1, <1>3, <2>1
<1>9. ASSUME Len(points') > 0 PROVE points'[Len(points')].age # 0
  <2>1. Len(points) \in 1..Len(points)
    BY <1>1, <1>3, <1>9
  <2>2. points[Len(points)].age \in Nat
    BY <1>1, <2>1
  <2>3. QED  BY <1>1, <1>3, <2>1, <2>2
<1>10. QED  BY <1>1, <1>3, <1>4, <1>6, <1>7, <1>8, <1>9 DEF WindowInv

LEMMA WindowStep ==
  ASSUME Typed, WindowInv, [Next]_vars
  PROVE  WindowInv'
<1>1. CASE UNCHANGED <<points, traded>>
  BY <1>1 DEF WindowInv, Out
<1>2. CASE FetchRaw \/ PublishBook \/ SetBook \/ FetchUpdate
  BY <1>1, <1>2 DEF FetchRaw, PublishBook, SetBook, FetchUpdate, stateVars
<1>3. CASE \E w \in Worker : PublishPrice(w) \/ SetPrice(w)
  BY <1>1, <1>3 DEF PublishPrice, SetPrice, stateVars
<1>4. CASE FetchTrade
  BY <1>4, WindowMoves
<1>5. CASE Tick
  BY <1>5, WindowAges
<1>6. CASE Crash
  <2>1. points' = <<>> /\ traded' = <<>>
    BY <1>6 DEF Crash
  <2>2. QED  BY <2>1 DEF WindowInv, Out
<1>7. CASE UNCHANGED vars
  BY <1>1, <1>7 DEF vars, stateVars
<1>8. QED  BY <1>2, <1>3, <1>4, <1>5, <1>6, <1>7 DEF Next

\* The kept trades, one by one, are the last ones there have been.
LEMMA WindowIsCounted ==
  ASSUME Typed, WindowInv
  PROVE  VolumeCountsWindow
<1>1. /\ Len(points) \in Nat /\ Len(traded) \in Nat
      /\ points \in Seq(Point) /\ traded \in Seq(Point)
  BY Lengths
<1>2. /\ Len(points) <= Len(traded)
      /\ \A i \in 1..Len(points) : points[i] = traded[Out + i]
      /\ \A i \in 1..Out : traded[i].age > Day
      /\ Len(points) > 0 /\ points[Len(points)].age = 0 =>
           \A i \in 1..Len(points) : points[i].age <= Day
  BY DEF WindowInv
<1>3. Out \in 0..Len(traded) /\ Len(traded) \in Out..Len(traded) /\ Len(traded) - Out = Len(points)
  BY <1>1, <1>2 DEF Out
<1> DEFINE window == SubSeq(traded, Out + 1, Len(traded))
<1>4. /\ window \in Seq(Point) /\ Len(window) = Len(points)
      /\ \A i \in 1..Len(points) : window[i] = traded[Out + i]
  BY <1>1, <1>3, Part
<1>5. points = window
  <2> HIDE DEF window
  <2>1. QED  BY <1>1, <1>2, <1>4, SeqEqual
<1>6. ASSUME points # <<>>, Last(points).age = 0 PROVE \A i \in DOMAIN points : points[i].age <= Day
  <2>1. Len(points) > 0 /\ DOMAIN points = 1..Len(points)
    BY <1>1, <1>6, EmptySeq, LenProperties
  <2>2. QED  BY <1>2, <1>6, <2>1 DEF Last
<1>7. volume = Sum(points)
  BY DEF Typed
<1>8. QED  BY <1>2, <1>5, <1>6, <1>7 DEF VolumeCountsWindow, Out

\* Volume24h is what the kept trades add up to; only trades older than a day
\* have been taken out, and right after a trade all of those have.
THEOREM VolumeIsRight == Spec => []VolumeCountsWindow
<1>1. Init => WindowInv
  <2> SUFFICES ASSUME Init PROVE WindowInv
    OBVIOUS
  <2>1. points = <<>> /\ traded = <<>>
    BY DEF Init
  <2>2. QED  BY <2>1 DEF WindowInv, Out
<1>2. Typed /\ WindowInv /\ [Next]_vars => WindowInv'
  BY WindowStep
<1>3. Typed /\ WindowInv => VolumeCountsWindow
  BY WindowIsCounted
<1>4. QED  BY <1>1, <1>2, <1>3, AlwaysTyped, PTL DEF Spec

---------------------------------------------------------------------------
(* What Redis holds is one state of the market.                            *)

\* The copies of a state there has been.
Snapshots ==
  {u \in Update : LET s == history[u.version]
                  IN  /\ u.bid = s.bid /\ u.ask = s.ask /\ u.last = s.last /\ u.volume = s.volume
                      /\ u.mid = Mid(s.bid, s.ask, s.last)}

\* The workers hold copies of states, and so do the topic and Redis.
SnapshotInv ==
  /\ \A w \in Worker : pricing[w] \in AtMostOne(Snapshots)
  /\ priceKey \in AtMostOne(Snapshots) /\ prices \in SUBSET Snapshots

\* States of the market are only added, so a copy of one remains one.
LEMMA SnapshotsStay ==
  ASSUME history \in Seq(State), NEW s \in State,
         history' = Append(history, s) \/ history' = history
  PROVE  Snapshots \subseteq Snapshots' /\ AtMostOne(Snapshots) \subseteq AtMostOne(Snapshots')
<1>1. Len(history) \in Nat /\ Len(history') \in Nat /\ Len(history) <= Len(history')
      /\ \A i \in 1..Len(history) : history'[i] = history[i]
  <2>1. CASE history' = Append(history, s)
    BY <2>1, AppendIs
  <2>2. CASE history' = history
    BY <2>2
  <2>3. QED  BY <2>1, <2>2
<1>2. Update \subseteq Update'
  BY <1>1, UpdatesStay
<1>3. ASSUME NEW u \in Snapshots PROVE u \in Snapshots'
  <2>1. u \in Update /\ u.version \in 1..Len(history)
    BY <1>3 DEF Snapshots, Update
  <2>2. history'[u.version] = history[u.version]
    BY <1>1, <2>1
  <2>3. QED  BY <1>2, <1>3, <2>1, <2>2 DEF Snapshots
<1>4. \A q \in Seq(Snapshots) : q \in Seq(Snapshots')
  BY <1>3, SeqMonotonic
<1>5. QED  BY <1>3, <1>4 DEF AtMostOne

\* A locked section copies the state it leaves, which is the newest.
LEMMA LockedCopies ==
  ASSUME Typed, Typed', NEW w \in Worker, Locked(w)
  PROVE  /\ \E s \in State : history' = Append(history, s)
         /\ Len(history') = Len(history) + 1 /\ Len(history) \in Nat
         /\ \E u \in Snapshots' : /\ pricing' = [pricing EXCEPT ![w] = <<u>>]
                                  /\ u.version = Len(history')
<1> DEFINE state == [bid |-> quote'.bid, ask |-> quote'.ask, last |-> last', volume |-> volume']
           copy  == [version |-> Len(history'), bid |-> state.bid, ask |-> state.ask, last |-> last',
                     volume |-> volume', mid |-> Mid(state.bid, state.ask, last')]
<1>1. history' = Append(history, state) /\ pricing' = [pricing EXCEPT ![w] = <<copy>>]
  BY DEF Locked
<1>2. /\ quote' \in [bid : Price \cup {0}, ask : Price \cup {0}]
      /\ last' \in Price \cup {0} /\ volume' \in Nat
      /\ history \in Seq(State)
  <2>1. NoQuote \in [bid : Price \cup {0}, ask : Price \cup {0}]
    BY DEF NoQuote
  <2>2. [bid : Price, ask : Price] \subseteq [bid : Price \cup {0}, ask : Price \cup {0}]
    OBVIOUS
  <2>3. /\ quote' \in {NoQuote} \cup [bid : Price, ask : Price]
        /\ last' \in Price \cup {0} /\ volume' \in Nat
        /\ history \in Seq(State)
    BY DEF Typed, TypeOK, NoQuote
  <2>4. quote' \in [bid : Price \cup {0}, ask : Price \cup {0}]
    BY <2>1, <2>2, <2>3
  <2>5. QED  BY <2>3, <2>4
<1>3. state \in State
  BY <1>2 DEF State
<1>4. /\ Len(history') = Len(history) + 1 /\ Len(history) \in Nat
      /\ history'[Len(history) + 1] = state
  <2> HIDE DEF state
  <2>1. QED  BY <1>1, <1>2, <1>3, AppendIs
<1>5. history'[Len(history')] = state
  BY <1>4
<1>6. copy \in Update'
  <2>1. Len(history') \in 1..Len(history')
    BY <1>4
  <2>2. Mid(state.bid, state.ask, last') \in Nat
    <3>1. \A b, a, p \in Nat : Mid(b, a, p) \in Nat
      BY DEF Mid
    <3>2. state.bid \in Price \cup {0} /\ state.ask \in Price \cup {0} /\ last' \in Price \cup {0}
      BY <1>2
    <3>3. Price \cup {0} \subseteq Nat
      BY PriceAssumption
    <3>4. QED  BY <3>1, <3>2, <3>3
  <2>3. state.bid \in Price \cup {0} /\ state.ask \in Price \cup {0}
    BY <1>2
  <2> HIDE DEF state
  <2>4. QED  BY <1>2, <2>1, <2>2, <2>3 DEF Update
<1>7. copy \in Snapshots'
  BY <1>5, <1>6 DEF Snapshots
<1>8. copy.version = Len(history')
  OBVIOUS
<1> HIDE DEF state, copy
<1>9. \E u \in Snapshots' : pricing' = [pricing EXCEPT ![w] = <<u>>] /\ u.version = Len(history')
  BY <1>1, <1>7, <1>8
<1>10. QED  BY <1>1, <1>3, <1>4, <1>9

\* FetchUpdate either drops the update or is a locked section of the quoter.
LEMMA FetchUpdateParts ==
  ASSUME Typed, FetchUpdate
  PROVE  /\ UNCHANGED <<published, prices, priceKey>>
         /\ Locked("quoter") \/ UNCHANGED <<history, pricing, mine, unwritten>>
BY DEF FetchUpdate, stateVars

LEMMA SnapshotStep ==
  ASSUME Typed, Typed', SnapshotInv, [Next]_vars
  PROVE  SnapshotInv'
<1>1. history \in Seq(State) /\ pricing \in [Worker -> AtMostOne(Update)]
  BY DEF Typed, TypeOK
<1>2. ASSUME UNCHANGED <<history, prices>>, priceKey' = <<>> \/ priceKey' = priceKey,
             pricing' = pricing \/ pricing' = [w \in Worker |-> <<>>]
      PROVE  SnapshotInv'
  <2>1. Snapshots' = Snapshots
    BY <1>2 DEF Snapshots, Update
  <2>2. <<>> \in AtMostOne(Snapshots)
    BY OneOrNone
  <2>3. QED  BY <1>2, <2>1, <2>2 DEF SnapshotInv
<1>3. ASSUME NEW w \in Worker, Locked(w), UNCHANGED <<prices, priceKey>> PROVE SnapshotInv'
  <2>1. PICK u \in Snapshots' : pricing' = [pricing EXCEPT ![w] = <<u>>]
    BY <1>3, LockedCopies
  <2>2. PICK s \in State : history' = Append(history, s)
    BY <1>3, LockedCopies
  <2>3. Snapshots \subseteq Snapshots' /\ AtMostOne(Snapshots) \subseteq AtMostOne(Snapshots')
    BY <1>1, <2>2, SnapshotsStay
  <2>4. <<u>> \in AtMostOne(Snapshots')
    BY OneOrNone
  <2>5. ASSUME NEW v \in Worker PROVE pricing'[v] \in AtMostOne(Snapshots')
    BY <1>1, <2>1, <2>3, <2>4 DEF SnapshotInv
  <2>6. priceKey' \in AtMostOne(Snapshots') /\ prices' \in SUBSET Snapshots'
    BY <1>3, <2>3 DEF SnapshotInv
  <2>7. QED  BY <2>5, <2>6 DEF SnapshotInv
<1>4. CASE FetchTrade
  BY <1>3, <1>4 DEF FetchTrade, Worker
<1>5. CASE FetchUpdate
  <2>1. "quoter" \in Worker
    BY DEF Worker
  <2>2. QED  BY <1>2, <1>3, <1>5, <2>1, FetchUpdateParts
<1>6. ASSUME NEW w \in Worker, PublishPrice(w) \/ SetPrice(w) PROVE SnapshotInv'
  <2>1. /\ pricing' = [pricing EXCEPT ![w] = <<>>] \/ pricing' = pricing
        /\ history' = history
        /\ priceKey' = pricing[w] \/ priceKey' = priceKey
        /\ prices' = prices \cup Range(pricing[w]) \/ prices' = prices
    BY <1>6 DEF PublishPrice, SetPrice, Cached, Written, stateVars
  <2>2. Snapshots' = Snapshots
    BY <2>1 DEF Snapshots, Update
  <2>3. <<>> \in AtMostOne(Snapshots)
    BY OneOrNone
  <2>4. ASSUME NEW v \in Worker PROVE pricing'[v] \in AtMostOne(Snapshots)
    BY <1>1, <2>1, <2>3 DEF SnapshotInv
  <2>5. priceKey' \in AtMostOne(Snapshots)
    BY <2>1 DEF SnapshotInv
  <2>6. Range(pricing[w]) \subseteq Snapshots
    BY DEF SnapshotInv, AtMostOne, Range
  <2>7. prices' \in SUBSET Snapshots
    BY <2>1, <2>6 DEF SnapshotInv
  <2>8. QED  BY <2>2, <2>4, <2>5, <2>7 DEF SnapshotInv
<1>7. CASE Crash
  BY <1>2, <1>7 DEF Crash
<1>8. CASE FetchRaw \/ PublishBook \/ SetBook
  BY <1>2, <1>8 DEF FetchRaw, PublishBook, SetBook, stateVars, priceVars
<1>9. CASE Tick
  BY <1>2, <1>9 DEF Tick, Alive
<1>10. CASE UNCHANGED vars
  BY <1>2, <1>10 DEF vars, stateVars, priceVars
<1>11. QED  BY <1>4, <1>5, <1>6, <1>7, <1>8, <1>9, <1>10 DEF Next

LEMMA AlwaysSnapshots == Spec => []SnapshotInv
<1>1. Init => SnapshotInv
  BY OneOrNone DEF Init, SnapshotInv
<1>2. Typed /\ Typed' /\ SnapshotInv /\ [Next]_vars => SnapshotInv'
  BY SnapshotStep
<1>3. QED  BY <1>1, <1>2, AlwaysTyped, PTL DEF Spec

\* What live:price holds, and whatever went to pmaxis.prices, is one state of
\* the market: bid, ask, last price, volume and mid belong together.
THEOREM CachedIsOneState == Spec => []CachedIsSnapshot
<1>1. SnapshotInv => CachedIsSnapshot
  <2> SUFFICES ASSUME SnapshotInv, NEW u \in prices \cup Range(priceKey) PROVE IsSnapshot(u)
    BY DEF CachedIsSnapshot
  <2>1. priceKey \in Seq(Snapshots) /\ prices \subseteq Snapshots
    BY DEF SnapshotInv, AtMostOne
  <2>2. u \in Snapshots
    BY <2>1 DEF Range
  <2>3. QED  BY <2>2 DEF Snapshots, IsSnapshot
<1>2. QED  BY <1>1, AlwaysSnapshots, PTL

---------------------------------------------------------------------------
(* No price is served that both goroutines have gone past.                 *)

\* A worker holds its last update until it is written or lost, and of the two
\* last updates one is in Redis, or about to be, or lost.
BothInv ==
  /\ \A w \in Worker : ~Idle(w) => pricing[w][1].version = mine[w]
  /\ \A w \in published : ~Idle(w)
  /\ priceKey # <<>> =>
       \E w \in Worker : w \in unwritten \/ ~Idle(w) \/ priceKey[1].version = mine[w]

LEMMA BothStep ==
  ASSUME Typed, Typed', BothInv, [Next]_vars
  PROVE  BothInv'
<1>1. /\ pricing \in [Worker -> AtMostOne(Update)] /\ mine \in [Worker -> 0..Len(history)]
      /\ \A w \in Worker : pricing[w] = <<>> \/ Len(pricing[w]) = 1
  BY OneOrNone DEF Typed, TypeOK
<1>2. ASSUME UNCHANGED <<pricing, published, mine, unwritten>>, priceKey' = <<>> \/ priceKey' = priceKey
      PROVE  BothInv'
  BY <1>2 DEF BothInv, Idle
<1>3. ASSUME NEW w \in Worker, Locked(w), UNCHANGED <<published, priceKey>> PROVE BothInv'
  <2>1. PICK u \in Snapshots' : pricing' = [pricing EXCEPT ![w] = <<u>>] /\ u.version = Len(history')
    BY <1>3, LockedCopies
  <2>2. mine' = [mine EXCEPT ![w] = Len(history')]
    BY <1>3 DEF Locked
  <2>3. <<u>> # <<>> /\ <<u>>[1] = u
    OBVIOUS
  <2>4. pricing'[w] # <<>> /\ pricing'[w][1].version = mine'[w]
    BY <1>1, <2>1, <2>2, <2>3
  <2>5. \A v \in Worker \ {w} : pricing'[v] = pricing[v] /\ mine'[v] = mine[v]
    BY <1>1, <2>1, <2>2
  <2>6. ASSUME NEW v \in Worker, pricing'[v] # <<>> PROVE pricing'[v][1].version = mine'[v]
    BY <2>4, <2>5, <2>6 DEF BothInv, Idle
  <2>7. \A v \in published' : pricing'[v] # <<>>
    BY <1>3, <2>4, <2>5 DEF BothInv, Idle, Typed, TypeOK
  <2>8. priceKey' # <<>> =>
          \E v \in Worker : v \in unwritten' \/ pricing'[v] # <<>> \/ priceKey'[1].version = mine'[v]
    BY <2>4
  <2>9. QED  BY <2>6, <2>7, <2>8 DEF BothInv, Idle
<1>4. CASE FetchTrade
  BY <1>3, <1>4 DEF FetchTrade, Worker
<1>5. CASE FetchUpdate
  <2>1. "quoter" \in Worker
    BY DEF Worker
  <2>2. QED  BY <1>2, <1>3, <1>5, <2>1, FetchUpdateParts
<1>6. ASSUME NEW w \in Worker, SetPrice(w) PROVE BothInv'
  <2>1. /\ published' = published \ {w} /\ ~Idle(w)
        /\ pricing' = [pricing EXCEPT ![w] = <<>>] /\ mine' = mine
        /\ priceKey' = pricing[w] \/ w \in unwritten'
    BY <1>6 DEF SetPrice, Cached, Written, BothInv
  <2>2. pricing[w][1].version = mine[w]
    BY <2>1 DEF BothInv
  <2>3. ASSUME NEW v \in Worker, pricing'[v] # <<>> PROVE pricing'[v][1].version = mine'[v]
    BY <1>1, <2>1, <2>3 DEF BothInv, Idle
  <2>4. w \in unwritten' \/ priceKey'[1].version = mine'[w]
    BY <2>1, <2>2
  <2>5. \A v \in published' : pricing'[v] # <<>>
    BY <1>1, <2>1 DEF BothInv, Idle, Typed, TypeOK
  <2>6. QED  BY <2>3, <2>4, <2>5 DEF BothInv, Idle
<1>7. CASE Crash
  <2>1. /\ unwritten' = unwritten \cup {w \in Worker : ~Idle(w)}
        /\ pricing' = [w \in Worker |-> <<>>] /\ published' = {} /\ UNCHANGED <<priceKey, mine>>
    BY <1>7 DEF Crash
  <2>2. \A w \in Worker : Idle(w)'
    BY <2>1 DEF Idle
  <2>3. QED  BY <2>1, <2>2 DEF BothInv
<1>8. CASE FetchRaw \/ PublishBook \/ SetBook
  BY <1>2, <1>8 DEF FetchRaw, PublishBook, SetBook, priceVars
<1>9. CASE Tick
  BY <1>2, <1>9 DEF Tick, Alive
<1>10. ASSUME NEW w \in Worker, PublishPrice(w) PROVE BothInv'
  BY <1>10 DEF PublishPrice, BothInv, Idle
<1>11. CASE UNCHANGED vars
  BY <1>2, <1>11 DEF vars, priceVars
<1>12. QED  BY <1>4, <1>5, <1>6, <1>7, <1>8, <1>9, <1>10, <1>11 DEF Next

\* When both goroutines wait for input and neither lost its last write, what is
\* left of live:price is the last price of one of the two.
THEOREM OneIsTheLast == Spec => []NoOlderThanBoth
<1>1. Init => BothInv
  BY DEF Init, BothInv, Idle
<1>2. Typed /\ Typed' /\ BothInv /\ [Next]_vars => BothInv'
  BY BothStep
<1>3. BothInv => NoOlderThanBoth
  BY DEF BothInv, NoOlderThanBoth, AllIdle
<1>4. QED  BY <1>1, <1>2, <1>3, AlwaysTyped, PTL DEF Spec

===========================================================================
