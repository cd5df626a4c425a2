----------------------------- MODULE DataLemmas -----------------------------
(***************************************************************************)
(* Numbers, sequences, lists laid flat, filters and sums: what the proofs  *)
(* about several components need of the operators these are built from.    *)
(*                                                                         *)
(* The library's induction theorems take an operator as a parameter, which *)
(* the provers cannot instantiate.  The inductions here are over sets of   *)
(* numbers: a number that is not in one would have a least one.            *)
(***************************************************************************)
EXTENDS Lists, FiniteSetsExt, SequencesExt,
        FiniteSetTheorems, SequenceTheorems, WellFoundedInduction, TLAPS

---------------------------------------------------------------------------
(* Numbers                                                                 *)

\* A set of numbers that is not empty has a least one.
LEMMA LeastNumber ==
  ASSUME NEW T \in SUBSET Nat, T # {}
  PROVE  \E n \in T : \A k \in T : n <= k
<1> DEFINE R == OpToRel(<, Nat)
<1>1. IsWellFoundedOn(R, Nat)
  BY NatLessThanWellFounded
<1> HIDE DEF R
<1>2. PICK n \in T : \A k \in T : <<k, n>> \notin R
  BY <1>1, WFMin
<1>3. \A k \in T : ~(k < n)
  BY <1>2 DEF R, OpToRel
<1>4. QED  BY <1>3

\* A set with 0 in it and, with every number, the next one has all of them.
LEMMA Induction ==
  ASSUME NEW S, 0 \in S, \A n \in Nat : n \in S => n + 1 \in S
  PROVE  Nat \subseteq S
<1> SUFFICES ASSUME Nat \ S # {} PROVE FALSE
  OBVIOUS
<1>1. PICK n \in Nat \ S : \A k \in Nat \ S : n <= k
  BY LeastNumber
<1>2. n - 1 \in Nat /\ n - 1 \notin Nat \ S /\ (n - 1) + 1 = n
  BY <1>1
<1>3. QED  BY <1>2

---------------------------------------------------------------------------
(* Sequences                                                               *)

\* A sequence with one more element.
LEMMA AppendIs ==
  ASSUME NEW S, NEW s \in Seq(S), NEW x \in S
  PROVE  /\ Append(s, x) \in Seq(S) /\ Len(Append(s, x)) = Len(s) + 1
         /\ Len(s) \in Nat /\ Append(s, x)[Len(s) + 1] = x
         /\ \A i \in 1..Len(s) : Append(s, x)[i] = s[i]
OBVIOUS

\* Part of a sequence.
LEMMA Part ==
  ASSUME NEW S, NEW s \in Seq(S), NEW a \in 0..Len(s), NEW b \in a..Len(s)
  PROVE  /\ SubSeq(s, a + 1, b) \in Seq(S) /\ Len(SubSeq(s, a + 1, b)) = b - a
         /\ \A i \in 1..(b - a) : SubSeq(s, a + 1, b)[i] = s[a + i]
<1>1. Len(s) \in Nat /\ a \in Nat /\ b \in Nat /\ a <= b /\ b <= Len(s)
  BY LenProperties
<1>2. \A i \in (a + 1)..b : s[i] \in S
  BY <1>1
<1>3. a + 1 \in Int /\ b \in Int
  BY <1>1
<1>4. /\ SubSeq(s, a + 1, b) \in Seq(S)
      /\ Len(SubSeq(s, a + 1, b)) = IF a + 1 <= b THEN b - (a + 1) + 1 ELSE 0
      /\ \A i \in 1..(b - (a + 1) + 1) : SubSeq(s, a + 1, b)[i] = s[(a + 1) + i - 1]
  BY <1>2, <1>3, SubSeqProperties
<1>5. ASSUME NEW i \in 1..(b - a) PROVE SubSeq(s, a + 1, b)[i] = s[a + i]
  <2>1. i \in 1..(b - (a + 1) + 1) /\ (a + 1) + i - 1 = a + i
    BY <1>1
  <2>2. QED  BY <1>4, <2>1
<1>6. QED  BY <1>1, <1>4, <1>5

\* The first elements with the next one.
LEMMA PartMore ==
  ASSUME NEW S, NEW s \in Seq(S), NEW a \in 0..Len(s), NEW b \in a..Len(s), b + 1 <= Len(s)
  PROVE  SubSeq(s, a + 1, b + 1) = Append(SubSeq(s, a + 1, b), s[b + 1])
<1>1. Len(s) \in Nat /\ a \in Nat /\ b \in Nat /\ a <= b /\ b + 1 \in a..Len(s) /\ s[b + 1] \in S
  BY LenProperties
<1> DEFINE p == SubSeq(s, a + 1, b)
           q == SubSeq(s, a + 1, b + 1)
           r == Append(p, s[b + 1])
<1>2. /\ p \in Seq(S) /\ Len(p) = b - a
      /\ \A i \in 1..(b - a) : p[i] = s[a + i]
  BY <1>1, Part
<1>3. /\ q \in Seq(S) /\ Len(q) = (b + 1) - a
      /\ \A i \in 1..((b + 1) - a) : q[i] = s[a + i]
  BY <1>1, Part
<1> HIDE DEF p, q
<1>4. /\ r \in Seq(S) /\ Len(r) = Len(p) + 1 /\ r[Len(p) + 1] = s[b + 1]
      /\ \A i \in 1..Len(p) : r[i] = p[i]
  <2>1. PICK x \in S : x = s[b + 1]
    BY <1>1
  <2>2. p \in Seq(S) /\ r = Append(p, x)
    BY <1>2, <2>1
  <2>3. QED  BY <2>1, <2>2, AppendIs
<1> HIDE DEF r
<1>5. Len(r) = Len(q)
  BY <1>1, <1>2, <1>3, <1>4
<1>6. ASSUME NEW i \in 1..Len(q) PROVE q[i] = r[i]
  <2>1. i \in 1..((b + 1) - a) /\ q[i] = s[a + i]
    BY <1>3
  <2>2. CASE i \in 1..(b - a)
    BY <1>2, <1>4, <2>1, <2>2
  <2>3. CASE i \notin 1..(b - a)
    <3>1. i = Len(p) + 1 /\ a + i = b + 1
      BY <1>1, <1>2, <2>1, <2>3
    <3>2. QED  BY <1>4, <2>1, <3>1
  <2>4. QED  BY <2>2, <2>3
<1>7. q = r
  BY <1>3, <1>4, <1>5, <1>6, SeqEqual
<1>8. QED  BY <1>7 DEF p, q, r

LEMMA WholeSeq ==
  ASSUME NEW S, NEW s \in Seq(S)
  PROVE  SubSeq(s, 1, Len(s)) = s
OBVIOUS

\* Segment of a sequence.
LEMMA Segment ==
  ASSUME NEW S, NEW s \in Seq(S), NEW i \in 1..Len(s), NEW j \in i..Len(s)
  PROVE  /\ SubSeq(s, i, j) \in Seq(S) /\ Len(SubSeq(s, i, j)) = j - i + 1
         /\ \A k \in 1..(j - i + 1) : SubSeq(s, i, j)[k] = s[i + k - 1]
<1>1. Len(s) \in Nat /\ \A k \in 1..Len(s) : s[k] \in S
  BY LenProperties
<1>2. i \in Int /\ j \in Int /\ i <= j /\ \A k \in i..j : s[k] \in S
  BY <1>1
<1>3. QED  BY <1>2, SubSeqProperties

\* A part of a sequence stays what it is when the sequence grows, and a part
\* up to the end grows with it.
LEMMA PartOfMore ==
  ASSUME NEW S, NEW s \in Seq(S), NEW x \in S, NEW i \in 1..Len(s), NEW j \in i..Len(s)
  PROVE  /\ SubSeq(Append(s, x), i, j) = SubSeq(s, i, j)
         /\ SubSeq(Append(s, x), i, Len(s) + 1) = Append(SubSeq(s, i, Len(s)), x)
<1> DEFINE u == Append(s, x)
           n == Len(s)
           p == SubSeq(s, i, n)
           q == SubSeq(u, i, n + 1)
           r == Append(p, x)
<1>1. /\ u \in Seq(S) /\ Len(u) = n + 1 /\ n \in Nat /\ u[n + 1] = x
      /\ \A k \in 1..n : u[k] = s[k]
  BY AppendIs
<1>2. i \in 1..(n + 1) /\ j \in i..(n + 1) /\ n + 1 \in i..(n + 1) /\ n \in i..n /\ i <= n
  BY <1>1
<1> HIDE DEF u
<1>3. SubSeq(u, i, j) = SubSeq(s, i, j)
  <2> DEFINE a == SubSeq(u, i, j)
             b == SubSeq(s, i, j)
  <2>1. a \in Seq(S) /\ Len(a) = j - i + 1 /\ \A k \in 1..(j - i + 1) : a[k] = u[i + k - 1]
    BY <1>1, <1>2, Segment
  <2>2. b \in Seq(S) /\ Len(b) = j - i + 1 /\ \A k \in 1..(j - i + 1) : b[k] = s[i + k - 1]
    BY Segment
  <2> HIDE DEF a, b
  <2>3. \A k \in 1..Len(a) : a[k] = b[k]
    <3> SUFFICES ASSUME NEW k \in 1..Len(a) PROVE a[k] = b[k]
      OBVIOUS
    <3>1. k \in 1..(j - i + 1) /\ i + k - 1 \in 1..n
      BY <1>1, <2>1
    <3>2. QED  BY <1>1, <2>1, <2>2, <3>1
  <2>4. a = b
    BY <2>1, <2>2, <2>3, SeqEqual
  <2>5. QED  BY <2>4 DEF a, b
<1>4. p \in Seq(S) /\ Len(p) = n - i + 1 /\ \A k \in 1..(n - i + 1) : p[k] = s[i + k - 1]
  BY <1>2, Segment
<1>5. q \in Seq(S) /\ Len(q) = (n + 1) - i + 1 /\ \A k \in 1..((n + 1) - i + 1) : q[k] = u[i + k - 1]
  BY <1>1, <1>2, Segment
<1> HIDE DEF p, q
<1>6. /\ r \in Seq(S) /\ Len(r) = Len(p) + 1 /\ r[Len(p) + 1] = x
      /\ \A k \in 1..Len(p) : r[k] = p[k]
  <2>1. p \in Seq(S)
    BY <1>4
  <2>2. QED  BY <2>1, AppendIs
<1> HIDE DEF r
<1>7. \A k \in 1..Len(q) : q[k] = r[k]
  <2> SUFFICES ASSUME NEW k \in 1..Len(q) PROVE q[k] = r[k]
    OBVIOUS
  <2>1. k \in 1..((n + 1) - i + 1) /\ q[k] = u[i + k - 1]
    BY <1>5
  <2>2. CASE k \in 1..(n - i + 1)
    <3>1. i + k - 1 \in 1..n
      BY <1>1, <2>2
    <3>2. QED  BY <1>1, <1>4, <1>6, <2>1, <2>2, <3>1
  <2>3. CASE k \notin 1..(n - i + 1)
    <3>1. k = Len(p) + 1 /\ i + k - 1 = n + 1
      <4>1. k \in Nat /\ 1 <= k /\ k <= (n + 1) - i + 1 /\ ~(k <= n - i + 1) /\ i \in Nat /\ n \in Nat
        BY <1>1, <1>2, <2>1, <2>3
      <4>2. k = (n - i + 1) + 1 /\ i + k - 1 = n + 1
        BY <4>1
      <4>3. QED  BY <1>4, <4>2
    <3>2. QED  BY <1>1, <1>6, <2>1, <3>1
  <2>4. QED  BY <2>2, <2>3
<1>8. Len(q) = Len(r)
  BY <1>1, <1>4, <1>5, <1>6
<1>9. q = r
  BY <1>5, <1>6, <1>7, <1>8, SeqEqual
<1>10. QED  BY <1>3, <1>9 DEF p, q, r, u

\* The last element alone.
LEMMA PartOfOne ==
  ASSUME NEW S, NEW s \in Seq(S), NEW x \in S
  PROVE  SubSeq(Append(s, x), Len(s) + 1, Len(s) + 1) = <<x>>
<1> DEFINE u == Append(s, x)
           n == Len(s)
           p == SubSeq(u, n + 1, n + 1)
<1>1. u \in Seq(S) /\ Len(u) = n + 1 /\ n \in Nat /\ u[n + 1] = x
  BY AppendIs
<1>2. n + 1 \in 1..(n + 1) /\ n + 1 \in (n + 1)..(n + 1) /\ (n + 1) - (n + 1) + 1 = 1
  BY <1>1
<1> HIDE DEF u
<1>3. p \in Seq(S) /\ Len(p) = 1 /\ \A k \in 1..1 : p[k] = u[(n + 1) + k - 1]
  <2>1. /\ p \in Seq(S) /\ Len(p) = (n + 1) - (n + 1) + 1
        /\ \A k \in 1..((n + 1) - (n + 1) + 1) : p[k] = u[(n + 1) + k - 1]
    BY <1>1, <1>2, Segment
  <2>2. QED  BY <1>2, <2>1
<1> HIDE DEF p
<1>4. p[1] = x
  <2>1. (n + 1) + 1 - 1 = n + 1 /\ 1 \in 1..1
    BY <1>1
  <2>2. QED  BY <1>1, <1>3, <2>1
<1>5. p = <<x>>
  BY <1>3, <1>4
<1>6. QED  BY <1>5 DEF p, u

\* What one more element adds to the elements of a sequence.
LEMMA AppendOne ==
  ASSUME NEW T, NEW s \in Seq(T), NEW x \in T
  PROVE  /\ Append(s, x) \in Seq(T) /\ Len(Append(s, x)) = Len(s) + 1 /\ Len(s) \in Nat
         /\ Range(Append(s, x)) = Range(s) \cup {x}
         /\ IsInjective(Append(s, x)) <=> IsInjective(s) /\ x \notin Range(s)
<1> DEFINE u == Append(s, x)
           n == Len(s)
<1>1. /\ u \in Seq(T) /\ Len(u) = n + 1 /\ n \in Nat /\ u[n + 1] = x
      /\ \A i \in 1..n : u[i] = s[i]
  BY AppendIs
<1>2. DOMAIN s = 1..n /\ DOMAIN u = 1..(n + 1) /\ 1..(n + 1) = (1..n) \cup {n + 1} /\ n + 1 \notin 1..n
  BY <1>1
<1> HIDE DEF u
<1>3. Range(u) = Range(s) \cup {x}
  BY <1>1, <1>2 DEF Range
<1>4. IsInjective(u) <=> IsInjective(s) /\ x \notin Range(s)
  <2>1. ASSUME IsInjective(u) PROVE IsInjective(s) /\ x \notin Range(s)
    BY <1>1, <1>2, <2>1 DEF Range, IsInjective
  <2>2. ASSUME IsInjective(s), x \notin Range(s) PROVE IsInjective(u)
    <3> SUFFICES ASSUME NEW i \in DOMAIN u, NEW j \in DOMAIN u, u[i] = u[j] PROVE i = j
      BY DEF IsInjective
    <3>1. \A k \in 1..n : s[k] # x
      BY <1>2, <2>2 DEF Range
    <3>2. \A k, l \in 1..n : s[k] = s[l] => k = l
      BY <1>2, <2>2 DEF IsInjective
    <3>3. QED  BY <1>1, <1>2, <3>1, <3>2
  <2>3. QED  BY <2>1, <2>2
<1>5. QED  BY <1>1, <1>3, <1>4 DEF u

\* Consecutive elements are some of the sequence, each at most as often.
LEMMA SomeOf ==
  ASSUME NEW T, NEW s \in Seq(T), NEW p \in Seq(T), NEW o \in Nat, o + Len(p) <= Len(s) \/ Len(p) = 0,
         \A i \in 1..Len(p) : p[i] = s[o + i]
  PROVE  Range(p) \subseteq Range(s) /\ (IsInjective(s) => IsInjective(p))
<1>1. DOMAIN s = 1..Len(s) /\ DOMAIN p = 1..Len(p) /\ Len(s) \in Nat /\ Len(p) \in Nat
  OBVIOUS
<1>2. \A i \in 1..Len(p) : o + i \in 1..Len(s)
  BY <1>1
<1>3. Range(p) \subseteq Range(s)
  BY <1>1, <1>2 DEF Range
<1>4. ASSUME IsInjective(s) PROVE IsInjective(p)
  <2> SUFFICES ASSUME NEW i \in 1..Len(p), NEW k \in 1..Len(p), p[i] = p[k] PROVE i = k
    BY <1>1 DEF IsInjective
  <2>1. s[o + i] = s[o + k] /\ o + i \in 1..Len(s) /\ o + k \in 1..Len(s)
    BY <1>2
  <2>2. o + i = o + k
    BY <1>1, <1>4, <2>1 DEF IsInjective
  <2>3. QED  BY <1>1, <2>2
<1>5. QED  BY <1>3, <1>4

\* One sequence after another.
LEMMA ConcatIs ==
  ASSUME NEW T, NEW p \in Seq(T), NEW q \in Seq(T)
  PROVE  /\ p \o q \in Seq(T) /\ Len(p \o q) = Len(p) + Len(q) /\ Len(p) \in Nat /\ Len(q) \in Nat
         /\ \A i \in 1..Len(p) : (p \o q)[i] = p[i]
         /\ \A i \in 1..Len(q) : (p \o q)[Len(p) + i] = q[i]
<1>1. /\ p \o q \in Seq(T) /\ Len(p \o q) = Len(p) + Len(q) /\ Len(p) \in Nat /\ Len(q) \in Nat
      /\ \A i \in 1..(Len(p) + Len(q)) : (p \o q)[i] = IF i <= Len(p) THEN p[i] ELSE q[i - Len(p)]
  BY ConcatProperties
<1>2. ASSUME NEW i \in 1..Len(p) PROVE (p \o q)[i] = p[i]
  BY <1>1
<1>3. ASSUME NEW i \in 1..Len(q) PROVE (p \o q)[Len(p) + i] = q[i]
  <2>1. Len(p) + i \in 1..(Len(p) + Len(q)) /\ ~(Len(p) + i <= Len(p)) /\ (Len(p) + i) - Len(p) = i
    BY <1>1
  <2>2. QED  BY <1>1, <2>1
<1>4. QED  BY <1>1, <1>2, <1>3

LEMMA ConcatInjective ==
  ASSUME NEW T, NEW p \in Seq(T), NEW q \in Seq(T)
  PROVE  /\ Range(p \o q) = Range(p) \cup Range(q)
         /\ IsInjective(p) /\ IsInjective(q) /\ Range(p) \cap Range(q) = {} => IsInjective(p \o q)
<1> DEFINE u == p \o q
<1>1. /\ u \in Seq(T) /\ Len(u) = Len(p) + Len(q) /\ Len(p) \in Nat /\ Len(q) \in Nat
      /\ \A i \in 1..Len(p) : u[i] = p[i]
      /\ \A i \in 1..Len(q) : u[Len(p) + i] = q[i]
  BY ConcatIs
<1>2. DOMAIN u = 1..Len(u) /\ DOMAIN p = 1..Len(p) /\ DOMAIN q = 1..Len(q)
  BY <1>1
<1> HIDE DEF u
<1>3. \A i \in 1..Len(u) : i \in 1..Len(p) \/ \E k \in 1..Len(q) : i = Len(p) + k
  <2> SUFFICES ASSUME NEW i \in 1..Len(u), i \notin 1..Len(p) PROVE \E k \in 1..Len(q) : i = Len(p) + k
    OBVIOUS
  <2>1. i - Len(p) \in 1..Len(q) /\ i = Len(p) + (i - Len(p))
    BY <1>1
  <2>2. QED  BY <2>1
<1>4. \A k \in 1..Len(q) : Len(p) + k \in 1..Len(u)
  BY <1>1
<1>5. \A i \in 1..Len(p) : i \in 1..Len(u)
  BY <1>1
<1>6. Range(u) = Range(p) \cup Range(q)
  <2>1. Range(u) \subseteq Range(p) \cup Range(q)
    <3> SUFFICES ASSUME NEW i \in 1..Len(u) PROVE u[i] \in Range(p) \cup Range(q)
      BY <1>2 DEF Range
    <3>1. CASE i \in 1..Len(p)
      BY <1>1, <1>2, <3>1 DEF Range
    <3>2. CASE i \notin 1..Len(p)
      BY <1>1, <1>2, <1>3, <3>2 DEF Range
    <3>3. QED  BY <3>1, <3>2
  <2>2. Range(p) \subseteq Range(u)
    BY <1>1, <1>2, <1>5 DEF Range
  <2>3. Range(q) \subseteq Range(u)
    BY <1>1, <1>2, <1>4 DEF Range
  <2>4. QED  BY <2>1, <2>2, <2>3
<1>7. ASSUME IsInjective(p), IsInjective(q), Range(p) \cap Range(q) = {} PROVE IsInjective(u)
  <2> SUFFICES ASSUME NEW i \in 1..Len(u), NEW k \in 1..Len(u), u[i] = u[k] PROVE i = k
    BY <1>2 DEF IsInjective
  <2>1. \A a \in 1..Len(p), b \in 1..Len(q) : p[a] # q[b]
    BY <1>2, <1>7 DEF Range
  <2>2. \A a, b \in 1..Len(p) : p[a] = p[b] => a = b
    BY <1>2, <1>7 DEF IsInjective
  <2>3. \A a, b \in 1..Len(q) : q[a] = q[b] => a = b
    BY <1>2, <1>7 DEF IsInjective
  <2>4. CASE i \in 1..Len(p) /\ k \in 1..Len(p)
    BY <1>1, <2>2, <2>4
  <2>5. CASE i \in 1..Len(p) /\ k \notin 1..Len(p)
    BY <1>1, <1>3, <2>1, <2>5
  <2>6. CASE i \notin 1..Len(p) /\ k \in 1..Len(p)
    BY <1>1, <1>3, <2>1, <2>6
  <2>7. CASE i \notin 1..Len(p) /\ k \notin 1..Len(p)
    <3>1. PICK a \in 1..Len(q), b \in 1..Len(q) : i = Len(p) + a /\ k = Len(p) + b
      BY <1>3, <2>7
    <3>2. q[a] = q[b]
      BY <1>1, <3>1
    <3>3. QED  BY <2>3, <3>1, <3>2
  <2>8. QED  BY <2>4, <2>5, <2>6, <2>7
<1>8. QED  BY <1>6, <1>7 DEF u

---------------------------------------------------------------------------
(* Filters                                                                 *)

\* f keeps of the first n elements of s those in S.
Keeps(f, s, S, n) ==
  f = [i \in 0..n |-> IF i = 0 THEN <<>>
                      ELSE IF s[i] \in S THEN Append(f[i - 1], s[i]) ELSE f[i - 1]]

\* What is kept of the first i elements.
LEMMA KeepsAt ==
  ASSUME NEW f, NEW s, NEW S, NEW n \in Nat, Keeps(f, s, S, n), NEW i \in 0..n
  PROVE  f[i] = IF i = 0 THEN <<>>
                ELSE IF s[i] \in S THEN Append(f[i - 1], s[i]) ELSE f[i - 1]
BY DEF Keeps

\* Something is kept of any number of elements.
LEMMA KeepsExists ==
  ASSUME NEW s, NEW S, NEW n \in Nat
  PROVE  \E f : Keeps(f, s, S, n)
<1> DEFINE H == {m \in Nat : \E f : Keeps(f, s, S, m)}
<1>1. 0 \in H
  <2> DEFINE f == [i \in 0..0 |-> <<>>]
  <2>1. Keeps(f, s, S, 0)
    BY DEF Keeps
  <2> HIDE DEF f
  <2>2. QED  BY <2>1
<1>2. ASSUME NEW m \in Nat, m \in H PROVE m + 1 \in H
  <2>1. PICK f : Keeps(f, s, S, m)
    BY <1>2
  <2> DEFINE next == IF s[m + 1] \in S THEN Append(f[m], s[m + 1]) ELSE f[m]
             g == [i \in 0..(m + 1) |-> IF i = m + 1 THEN next ELSE f[i]]
  <2>2. ASSUME NEW i \in 0..(m + 1)
        PROVE  g[i] = IF i = 0 THEN <<>>
                      ELSE IF s[i] \in S THEN Append(g[i - 1], s[i]) ELSE g[i - 1]
    <3>1. CASE i = m + 1
      <4>1. g[i] = next /\ g[i - 1] = f[m] /\ i # 0
        BY <3>1
      <4>2. QED  BY <3>1, <4>1
    <3>2. CASE i # m + 1
      <4>1. i \in 0..m /\ g[i] = f[i] /\ (i # 0 => g[i - 1] = f[i - 1])
        BY <3>2
      <4>2. f[i] = IF i = 0 THEN <<>>
                   ELSE IF s[i] \in S THEN Append(f[i - 1], s[i]) ELSE f[i - 1]
        BY <2>1, <4>1, KeepsAt
      <4>3. QED  BY <4>1, <4>2
    <3>3. QED  BY <3>1, <3>2
  <2>3. Keeps(g, s, S, m + 1)
    <3> HIDE DEF next
    <3>1. g = [i \in 0..(m + 1) |-> g[i]]
      OBVIOUS
    <3> HIDE DEF g
    <3>2. QED  BY <2>2, <3>1 DEF Keeps
  <2> HIDE DEF g
  <2>4. QED  BY <2>3
<1>3. Nat \subseteq H
  <2> HIDE DEF H
  <2>1. QED  BY <1>1, <1>2, Induction
<1>4. QED  BY <1>3

\* What is kept of sequences that begin alike is the same, and has their type.
LEMMA KeepsAgree ==
  ASSUME NEW T, NEW S, NEW s \in Seq(T), NEW u, NEW n \in Nat, n = Len(s),
         \A i \in 1..n : s[i] = u[i], NEW m \in Nat, n <= m,
         NEW f, Keeps(f, s, S, n), NEW g, Keeps(g, u, S, m)
  PROVE  f[n] = g[n] /\ f[n] \in Seq(T)
<1> DEFINE H == {i \in Nat : i <= n => f[i] = g[i] /\ f[i] \in Seq(T)}
<1>1. 0 \in H
  <2>1. 0 \in 0..n /\ 0 \in 0..m
    OBVIOUS
  <2>2. f[0] = <<>> /\ g[0] = <<>>
    BY <2>1, KeepsAt
  <2>3. <<>> \in Seq(T)
    OBVIOUS
  <2>4. f[0] = g[0] /\ f[0] \in Seq(T)
    BY <2>2, <2>3
  <2>5. QED  BY <2>4
<1>2. ASSUME NEW i \in Nat, i \in H PROVE i + 1 \in H
  <2> SUFFICES ASSUME i + 1 <= n PROVE f[i + 1] = g[i + 1] /\ f[i + 1] \in Seq(T)
    OBVIOUS
  <2> DEFINE j == i + 1
  <2>1. j \in 0..n /\ j \in 0..m /\ j # 0 /\ j - 1 = i /\ j \in 1..n /\ i <= n
    OBVIOUS
  <2> HIDE DEF j
  <2>2. f[j] = IF s[j] \in S THEN Append(f[i], s[j]) ELSE f[i]
    BY <2>1, KeepsAt
  <2>3. g[j] = IF u[j] \in S THEN Append(g[i], u[j]) ELSE g[i]
    BY <2>1, KeepsAt
  <2>4. s[j] = u[j] /\ s[j] \in T /\ f[i] = g[i] /\ f[i] \in Seq(T)
    BY <1>2, <2>1, LenProperties
  <2>5. f[j] = g[j] /\ f[j] \in Seq(T)
    BY <2>2, <2>3, <2>4
  <2>6. QED  BY <2>5 DEF j
<1>3. Nat \subseteq H
  <2> HIDE DEF H
  <2>1. QED  BY <1>1, <1>2, Induction
<1>4. QED  BY <1>3

\* Filter is what is kept of all elements.
LEMMA FilterIs ==
  ASSUME NEW T, NEW s \in Seq(T), NEW S
  PROVE  \E f : Keeps(f, s, S, Len(s)) /\ Filter(s, S) = f[Len(s)]
<1> DEFINE F == CHOOSE f : Keeps(f, s, S, Len(s))
<1>1. Keeps(F, s, S, Len(s))
  <2>1. Len(s) \in Nat
    OBVIOUS
  <2>2. \E f : Keeps(f, s, S, Len(s))
    BY <2>1, KeepsExists
  <2>3. QED  BY <2>2
<1>2. Filter(s, S) = F[Len(s)]
  BY DEF Filter, Keeps
<1> HIDE DEF F
<1>3. QED  BY <1>1, <1>2

\* One more element is kept if it is in the set.
LEMMA FilterMore ==
  ASSUME NEW T, NEW s \in Seq(T), NEW x \in T, NEW S
  PROVE  /\ Filter(s, S) \in Seq(T)
         /\ Filter(Append(s, x), S) = IF x \in S THEN Append(Filter(s, S), x) ELSE Filter(s, S)
<1> DEFINE u == Append(s, x)
           n == Len(s)
<1>1. /\ u \in Seq(T) /\ Len(u) = n + 1 /\ n \in Nat /\ u[n + 1] = x
      /\ \A i \in 1..n : u[i] = s[i]
  BY AppendIs
<1> HIDE DEF u
<1>2. PICK f : Keeps(f, s, S, n) /\ Filter(s, S) = f[n]
  BY FilterIs
<1>3. PICK g : Keeps(g, u, S, n + 1) /\ Filter(u, S) = g[n + 1]
  <2>1. \E g : Keeps(g, u, S, Len(u)) /\ Filter(u, S) = g[Len(u)]
    BY <1>1, FilterIs
  <2>2. QED  BY <1>1, <2>1
<1>4. f[n] = g[n] /\ f[n] \in Seq(T)
  <2>1. n + 1 \in Nat /\ n <= n + 1 /\ \A i \in 1..n : s[i] = u[i]
    BY <1>1
  <2>2. QED  BY <1>1, <1>2, <1>3, <2>1, KeepsAgree
<1>5. g[n + 1] = IF u[n + 1] \in S THEN Append(g[n], u[n + 1]) ELSE g[n]
  <2>1. n + 1 \in Nat /\ n + 1 \in 0..(n + 1) /\ n + 1 # 0 /\ (n + 1) - 1 = n
    BY <1>1
  <2> DEFINE m == n + 1
  <2> HIDE DEF m
  <2>2. g[m] = IF u[m] \in S THEN Append(g[m - 1], u[m]) ELSE g[m - 1]
    BY <1>3, <2>1, KeepsAt DEF m
  <2>3. QED  BY <2>1, <2>2 DEF m
<1>6. QED  BY <1>1, <1>2, <1>3, <1>4, <1>5 DEF u

\* What is left of a sequence has its type.
LEMMA FilterType ==
  ASSUME NEW T, NEW s \in Seq(T), NEW S
  PROVE  Filter(s, S) \in Seq(T)
<1>1. PICK f : Keeps(f, s, S, Len(s)) /\ Filter(s, S) = f[Len(s)]
  BY FilterIs
<1>2. Len(s) \in Nat /\ Len(s) <= Len(s) /\ \A i \in 1..Len(s) : s[i] = s[i]
  OBVIOUS
<1>3. f[Len(s)] \in Seq(T)
  BY <1>1, <1>2, KeepsAgree
<1>4. QED  BY <1>1, <1>3

\* Nothing is left of nothing.
LEMMA FilterNone == ASSUME NEW S PROVE Filter(<<>>, S) = <<>>
<1>1. <<>> \in Seq({})
  OBVIOUS
<1>2. Filter(<<>>, S) \in Seq({})
  BY <1>1, FilterType
<1>3. QED  BY <1>2

\* A set of sequences with the empty one in it and, with every sequence, those
\* one element longer has all of them.
LEMMA SeqInduction ==
  ASSUME NEW T, NEW G, <<>> \in G,
         \A s \in Seq(T), x \in T : s \in G => Append(s, x) \in G
  PROVE  Seq(T) \subseteq G
<1> DEFINE H == {n \in Nat : \A s \in Seq(T) : Len(s) = n => s \in G}
<1>1. 0 \in H
  OBVIOUS
<1>2. ASSUME NEW n \in Nat, n \in H PROVE n + 1 \in H
  <2> SUFFICES ASSUME NEW s \in Seq(T), Len(s) = n + 1 PROVE s \in G
    OBVIOUS
  <2>1. n \in 0..Len(s) /\ 0 \in 0..Len(s) /\ n + 1 <= Len(s) /\ s[n + 1] \in T
    <3>1. Len(s) = n + 1 /\ n + 1 \in 1..Len(s)
      OBVIOUS
    <3>2. QED  BY <3>1, LenProperties
  <2>2. SubSeq(s, 0 + 1, n) \in Seq(T) /\ Len(SubSeq(s, 0 + 1, n)) = n - 0
    BY <2>1, Part
  <2>3. SubSeq(s, 0 + 1, n + 1) = Append(SubSeq(s, 0 + 1, n), s[n + 1])
    BY <2>1, PartMore
  <2>4. SubSeq(s, 0 + 1, n + 1) = s
    <3>1. SubSeq(s, 1, Len(s)) = s
      BY WholeSeq
    <3>2. 0 + 1 = 1
      OBVIOUS
    <3>3. QED  BY <3>1, <3>2
  <2>5. SubSeq(s, 0 + 1, n) \in G
    <3>1. n - 0 = n
      OBVIOUS
    <3>2. QED  BY <1>2, <2>2, <3>1
  <2>6. QED  BY <2>1, <2>2, <2>3, <2>4, <2>5
<1>3. Nat \subseteq H
  <2> HIDE DEF H
  <2>1. QED  BY <1>1, <1>2, Induction
<1>4. \A s \in Seq(T) : Len(s) \in H
  BY <1>3
<1>5. QED  BY <1>4

\* A filter leaves the elements in the set, and each as often as it was there.
LEMMA FilterKeeps ==
  ASSUME NEW T, NEW s \in Seq(T), NEW S
  PROVE  /\ Len(Filter(s, S)) <= Len(s)
         /\ Range(Filter(s, S)) = Range(s) \cap S
         /\ IsInjective(s) => IsInjective(Filter(s, S))
<1> DEFINE Good(q) == /\ Len(Filter(q, S)) <= Len(q)
                      /\ Range(Filter(q, S)) = Range(q) \cap S
                      /\ IsInjective(q) => IsInjective(Filter(q, S))
           G == {q \in Seq(T) : Good(q)}
<1>1. <<>> \in G
  <2>1. <<>> \in Seq(T) /\ Len(<<>>) = 0 /\ DOMAIN <<>> = {}
    OBVIOUS
  <2>2. Good(<<>>)
    BY <2>1, FilterNone DEF Range, IsInjective
  <2>3. QED  BY <2>1, <2>2
<1>2. ASSUME NEW q \in Seq(T), NEW x \in T, q \in G PROVE Append(q, x) \in G
  <2> DEFINE u == Append(q, x)
             p == Filter(q, S)
  <2>1. /\ u \in Seq(T) /\ Len(u) = Len(q) + 1 /\ Len(q) \in Nat
        /\ Range(u) = Range(q) \cup {x}
        /\ IsInjective(u) <=> IsInjective(q) /\ x \notin Range(q)
    BY AppendOne
  <2>2. p \in Seq(T) /\ Filter(u, S) = IF x \in S THEN Append(p, x) ELSE p
    BY FilterMore
  <2>3. /\ Append(p, x) \in Seq(T) /\ Len(Append(p, x)) = Len(p) + 1 /\ Len(p) \in Nat
        /\ Range(Append(p, x)) = Range(p) \cup {x}
        /\ IsInjective(Append(p, x)) <=> IsInjective(p) /\ x \notin Range(p)
    <3> HIDE DEF p
    <3>1. QED  BY <2>2, AppendOne
  <2>4. /\ Len(p) <= Len(q) /\ Range(p) = Range(q) \cap S
        /\ IsInjective(q) => IsInjective(p)
    BY <1>2
  <2> HIDE DEF u, p
  <2>5. Good(u)
    <3>1. CASE x \in S
      <4>1. Filter(u, S) = Append(p, x)
        BY <2>2, <3>1
      <4>2. Len(Append(p, x)) <= Len(u)
        BY <2>1, <2>3, <2>4
      <4>3. Range(Append(p, x)) = Range(u) \cap S
        BY <2>1, <2>3, <2>4, <3>1
      <4>4. IsInjective(u) => IsInjective(Append(p, x))
        BY <2>1, <2>3, <2>4
      <4>5. QED  BY <4>1, <4>2, <4>3, <4>4
    <3>2. CASE x \notin S
      <4>1. Filter(u, S) = p
        BY <2>2, <3>2
      <4>2. Len(p) <= Len(u)
        BY <2>1, <2>3, <2>4
      <4>3. Range(p) = Range(u) \cap S
        BY <2>1, <2>4, <3>2
      <4>4. IsInjective(u) => IsInjective(p)
        BY <2>1, <2>4
      <4>5. QED  BY <4>1, <4>2, <4>3, <4>4
    <3>3. QED  BY <3>1, <3>2
  <2> HIDE DEF Good
  <2>6. QED  BY <2>1, <2>5 DEF u
<1> HIDE DEF Good
<1>3. Seq(T) \subseteq G
  <2> HIDE DEF G
  <2>1. QED  BY <1>1, <1>2, SeqInduction
<1>4. Good(s)
  BY <1>3
<1>5. QED  BY <1>4 DEF Good

---------------------------------------------------------------------------
(* Lists laid flat                                                         *)

\* f lays the first n elements of s flat.
Flat(f, s, n) == f = [i \in 1..n |-> IF i = 1 THEN s[i] ELSE f[i - 1] \o s[i]]

LEMMA FlatExists ==
  ASSUME NEW s, NEW n \in Nat
  PROVE  \E f : Flat(f, s, n)
<1> DEFINE N == {k \in Nat : \E f : Flat(f, s, k)}
<1>1. 0 \in N
  <2>1. Flat([i \in 1..0 |-> {}], s, 0)
    BY DEF Flat
  <2>2. QED  BY <2>1
<1>2. ASSUME NEW k \in Nat, k \in N PROVE k + 1 \in N
  <2>1. PICK f : Flat(f, s, k)
    BY <1>2
  <2> DEFINE next == IF k = 0 THEN s[k + 1] ELSE f[k] \o s[k + 1]
             g == [i \in 1..(k + 1) |-> IF i = k + 1 THEN next ELSE f[i]]
  <2>2. ASSUME NEW i \in 1..(k + 1) PROVE g[i] = IF i = 1 THEN s[i] ELSE g[i - 1] \o s[i]
    <3>1. CASE i = k + 1
      <4>1. g[i] = next /\ (i # 1 => i - 1 = k /\ g[i - 1] = f[k]) /\ (i = 1 <=> k = 0)
        BY <3>1
      <4>2. QED  BY <3>1, <4>1
    <3>2. CASE i # k + 1
      <4>1. i \in 1..k /\ g[i] = f[i] /\ (i # 1 => g[i - 1] = f[i - 1])
        BY <3>2
      <4>2. f[i] = IF i = 1 THEN s[i] ELSE f[i - 1] \o s[i]
        BY <2>1, <4>1 DEF Flat
      <4>3. QED  BY <4>1, <4>2
    <3>3. QED  BY <3>1, <3>2
  <2>3. Flat(g, s, k + 1)
    <3> HIDE DEF next
    <3>1. g = [i \in 1..(k + 1) |-> g[i]]
      OBVIOUS
    <3> HIDE DEF g
    <3>2. QED  BY <2>2, <3>1 DEF Flat
  <2> HIDE DEF g
  <2>4. QED  BY <2>3
<1>3. Nat \subseteq N
  <2> HIDE DEF N
  <2>1. QED  BY <1>1, <1>2, Induction
<1>4. QED  BY <1>3

LEMMA FlatAt ==
  ASSUME NEW f, NEW s, NEW n \in Nat, Flat(f, s, n), NEW i \in 1..n
  PROVE  f[i] = IF i = 1 THEN s[i] ELSE f[i - 1] \o s[i]
BY DEF Flat

\* Sequences with the same first n elements.
Alike(s, t, n) == \A i \in 1..n : s[i] = t[i]

\* Sequences that begin alike are laid flat alike.
LEMMA FlatAgree ==
  ASSUME NEW f, NEW s, NEW n \in Nat, Flat(f, s, n),
         NEW g, NEW t, NEW k \in Nat, Flat(g, t, k), n <= k,
         Alike(s, t, n)
  PROVE  Alike(f, g, n)
<1> USE DEF Alike
<1> DEFINE N == {i \in Nat : i \in 1..n => f[i] = g[i]}
<1>1. \A i \in 1..n : f[i] = (IF i = 1 THEN s[i] ELSE f[i - 1] \o s[i])
  BY FlatAt
<1>2. \A i \in 1..n : g[i] = (IF i = 1 THEN t[i] ELSE g[i - 1] \o t[i])
  <2>1. \A i \in 1..n : i \in 1..k
    OBVIOUS
  <2>2. QED  BY <2>1, FlatAt
<1>3. 0 \in N
  OBVIOUS
<1>4. ASSUME NEW i \in Nat, i \in N PROVE i + 1 \in N
  <2> SUFFICES ASSUME i + 1 \in 1..n PROVE f[i + 1] = g[i + 1]
    OBVIOUS
  <2>1. (i + 1) - 1 = i /\ (i + 1 # 1 => f[i] = g[i])
    BY <1>4
  <2>2. s[i + 1] = t[i + 1]
    OBVIOUS
  <2>3. QED  BY <1>1, <1>2, <2>1, <2>2
<1>5. Nat \subseteq N
  <2> HIDE DEF N
  <2>1. QED  BY <1>3, <1>4, Induction
<1>6. QED  BY <1>5

\* FlattenSeq is that.
LEMMA FlattenIs ==
  ASSUME NEW s, Len(s) \in Nat \ {0}
  PROVE  \E f : Flat(f, s, Len(s)) /\ FlattenSeq(s) = f[Len(s)]
<1> DEFINE F == CHOOSE f : Flat(f, s, Len(s))
<1>1. Flat(F, s, Len(s))
  BY FlatExists
<1>2. FlattenSeq(s) = F[Len(s)]
  BY DEF FlattenSeq, Flat
<1> HIDE DEF F
<1>3. QED  BY <1>1, <1>2

LEMMA FlattenNone ==
  ASSUME NEW S
  PROVE  <<>> \in Seq(S) /\ FlattenSeq(<<>>) = <<>>
BY DEF FlattenSeq

\* One more element goes behind the others.
LEMMA FlattenMore ==
  ASSUME NEW S, NEW s \in Seq(Seq(S)), NEW x \in Seq(S)
  PROVE  FlattenSeq(Append(s, x)) = FlattenSeq(s) \o x
<1> DEFINE t == Append(s, x)
<1>1. /\ t \in Seq(Seq(S)) /\ Len(t) = Len(s) + 1 /\ Len(s) \in Nat
      /\ t[Len(s) + 1] = x /\ \A i \in 1..Len(s) : t[i] = s[i]
  BY AppendIs
<1> HIDE DEF t
<1>2. PICK f : Flat(f, t, Len(t)) /\ FlattenSeq(t) = f[Len(t)]
  BY <1>1, FlattenIs
<1>3. Len(t) \in 1..Len(t)
  BY <1>1
<1>4. f[Len(t)] = IF Len(t) = 1 THEN t[Len(t)] ELSE f[Len(t) - 1] \o t[Len(t)]
  BY <1>2, <1>3 DEF Flat
<1>5. CASE Len(s) = 0
  <2>1. s = <<>> /\ <<>> \o x = x
    BY <1>5
  <2>2. FlattenSeq(s) = <<>>
    BY <2>1, FlattenNone
  <2>3. FlattenSeq(t) = x
    BY <1>1, <1>2, <1>4, <1>5
  <2>4. QED  BY <2>1, <2>2, <2>3 DEF t
<1>6. CASE Len(s) # 0
  <2>1. PICK g : Flat(g, s, Len(s)) /\ FlattenSeq(s) = g[Len(s)]
    BY <1>1, <1>6, FlattenIs
  <2>2. \A i \in 1..Len(s) : g[i] = f[i]
    <3>1. Len(t) \in Nat /\ Len(s) <= Len(t) /\ \A i \in 1..Len(s) : s[i] = t[i]
      BY <1>1
    <3>2. PICK n \in Nat, k \in Nat : n = Len(s) /\ k = Len(t)
      BY <1>1, <3>1
    <3>3. Flat(g, s, n) /\ Flat(f, t, k) /\ n <= k /\ Alike(s, t, n)
      BY <1>2, <2>1, <3>1, <3>2 DEF Alike
    <3>4. Alike(g, f, n)
      BY <3>2, <3>3, FlatAgree
    <3>5. QED  BY <3>2, <3>4 DEF Alike
  <2>3. g[Len(s)] = f[Len(s)]
    <3>1. Len(s) \in 1..Len(s)
      BY <1>1, <1>6
    <3>2. QED  BY <2>2, <3>1
  <2>4. Len(t) - 1 = Len(s) /\ Len(t) # 1
    BY <1>1, <1>6
  <2>5. QED  BY <1>1, <1>2, <1>4, <2>1, <2>3, <2>4 DEF t
<1>7. QED  BY <1>5, <1>6

\* A list laid flat up to b is the list up to a, then the rest of it.
LEMMA FlattenParts ==
  ASSUME NEW S, NEW s \in Seq(Seq(S)), NEW a \in 0..Len(s), NEW b \in a..Len(s)
  PROVE  /\ FlattenSeq(SubSeq(s, a + 1, b)) \in Seq(S)
         /\ FlattenSeq(SubSeq(s, 1, a)) \in Seq(S)
         /\ FlattenSeq(SubSeq(s, 1, b)) = FlattenSeq(SubSeq(s, 1, a)) \o FlattenSeq(SubSeq(s, a + 1, b))
<1>1. Len(s) \in Nat /\ a \in Nat /\ b \in Nat /\ a <= b /\ b <= Len(s)
  BY LenProperties
<1> DEFINE Typed(c) == {n \in Nat : c + n <= Len(s) => FlattenSeq(SubSeq(s, c + 1, c + n)) \in Seq(S)}
<1>2. ASSUME NEW c \in 0..Len(s) PROVE Nat \subseteq Typed(c)
  <2>1. 0 \in Typed(c)
    <3>1. c + 0 = c /\ c \in c..Len(s) /\ c - c = 0
      BY <1>1
    <3>2. SubSeq(s, c + 1, c) = <<>>
      <4>1. SubSeq(s, c + 1, c) \in Seq(Seq(S)) /\ Len(SubSeq(s, c + 1, c)) = 0
        BY <3>1, Part
      <4>2. QED  BY <4>1
    <3>3. QED  BY <3>1, <3>2, FlattenNone
  <2>2. ASSUME NEW n \in Nat, n \in Typed(c) PROVE n + 1 \in Typed(c)
    <3> SUFFICES ASSUME c + (n + 1) <= Len(s) PROVE FlattenSeq(SubSeq(s, c + 1, c + (n + 1))) \in Seq(S)
      OBVIOUS
    <3>1. PICK d \in Nat : d = c + n
      BY <1>1
    <3>2. d \in c..Len(s) /\ d + 1 <= Len(s) /\ c + (n + 1) = d + 1 /\ s[d + 1] \in Seq(S)
      BY <1>1, <3>1
    <3>3. FlattenSeq(SubSeq(s, c + 1, d)) \in Seq(S) /\ SubSeq(s, c + 1, d) \in Seq(Seq(S))
      BY <1>1, <2>2, <3>1, <3>2, Part
    <3>4. SubSeq(s, c + 1, d + 1) = Append(SubSeq(s, c + 1, d), s[d + 1])
      BY <3>2, PartMore
    <3>5. FlattenSeq(SubSeq(s, c + 1, d + 1)) = FlattenSeq(SubSeq(s, c + 1, d)) \o s[d + 1]
      BY <3>2, <3>3, <3>4, FlattenMore
    <3>6. FlattenSeq(SubSeq(s, c + 1, d)) \o s[d + 1] \in Seq(S)
      BY <3>2, <3>3
    <3>7. QED  BY <3>2, <3>5, <3>6
  <2> HIDE DEF Typed
  <2>3. QED  BY <2>1, <2>2, Induction
<1>3. \A c \in 0..Len(s), d \in 0..Len(s) : c <= d => FlattenSeq(SubSeq(s, c + 1, d)) \in Seq(S)
  <2> SUFFICES ASSUME NEW c \in 0..Len(s), NEW d \in 0..Len(s), c <= d
               PROVE  FlattenSeq(SubSeq(s, c + 1, d)) \in Seq(S)
    OBVIOUS
  <2>1. d - c \in Nat /\ c + (d - c) = d /\ d <= Len(s)
    BY <1>1
  <2>2. d - c \in Typed(c)
    BY <1>2, <2>1
  <2>3. QED  BY <2>1, <2>2
<1> HIDE DEF Typed
<1> DEFINE Whole == {n \in Nat : a + n <= Len(s) =>
                       FlattenSeq(SubSeq(s, 1, a + n))
                         = FlattenSeq(SubSeq(s, 1, a)) \o FlattenSeq(SubSeq(s, a + 1, a + n))}
<1>4. FlattenSeq(SubSeq(s, 1, a)) \in Seq(S)
  <2>1. 0 \in 0..Len(s) /\ 0 <= a /\ 0 + 1 = 1
    BY <1>1
  <2>2. QED  BY <1>1, <1>3, <2>1
<1>5. 0 \in Whole
  <2>1. a + 0 = a /\ a \in a..Len(s) /\ a - a = 0
    BY <1>1
  <2>2. SubSeq(s, a + 1, a) = <<>>
    <3>1. SubSeq(s, a + 1, a) \in Seq(Seq(S)) /\ Len(SubSeq(s, a + 1, a)) = 0
      BY <2>1, Part
    <3>2. QED  BY <3>1
  <2>3. FlattenSeq(SubSeq(s, 1, a)) \o <<>> = FlattenSeq(SubSeq(s, 1, a))
    BY <1>4, ConcatEmptySeq
  <2>4. QED  BY <2>1, <2>2, <2>3, FlattenNone
<1>6. ASSUME NEW n \in Nat, n \in Whole PROVE n + 1 \in Whole
  <2> SUFFICES ASSUME a + (n + 1) <= Len(s)
               PROVE  FlattenSeq(SubSeq(s, 1, a + (n + 1)))
                        = FlattenSeq(SubSeq(s, 1, a)) \o FlattenSeq(SubSeq(s, a + 1, a + (n + 1)))
    OBVIOUS
  <2>1. PICK d \in Nat : d = a + n
    BY <1>1
  <2>2. /\ d \in a..Len(s) /\ d \in 0..Len(s) /\ 0 \in 0..Len(s) /\ a \in 0..Len(s) /\ 0 + 1 = 1
        /\ d + 1 <= Len(s) /\ a + (n + 1) = d + 1 /\ s[d + 1] \in Seq(S) /\ 0 <= d /\ a <= d
    BY <1>1, <2>1
  <2> DEFINE A == FlattenSeq(SubSeq(s, 1, a))
             B == FlattenSeq(SubSeq(s, a + 1, d))
  <2>3. FlattenSeq(SubSeq(s, 1, d)) = A \o B
    BY <1>6, <2>1, <2>2
  <2>4. A \in Seq(S) /\ B \in Seq(S)
    BY <1>3, <1>4, <2>2
  <2>5. SubSeq(s, a + 1, d + 1) = Append(SubSeq(s, a + 1, d), s[d + 1])
    BY <2>2, PartMore
  <2>6. SubSeq(s, 1, d + 1) = Append(SubSeq(s, 1, d), s[d + 1])
    <3>1. d \in 0..Len(s)
      BY <2>2
    <3>2. SubSeq(s, 0 + 1, d + 1) = Append(SubSeq(s, 0 + 1, d), s[d + 1])
      BY <2>2, <3>1, PartMore
    <3>3. QED  BY <2>2, <3>2
  <2>7. SubSeq(s, a + 1, d) \in Seq(Seq(S)) /\ SubSeq(s, 1, d) \in Seq(Seq(S))
    <3>1. SubSeq(s, a + 1, d) \in Seq(Seq(S)) /\ SubSeq(s, 0 + 1, d) \in Seq(Seq(S))
      BY <2>2, Part
    <3>2. QED  BY <2>2, <3>1
  <2>8. FlattenSeq(SubSeq(s, a + 1, d + 1)) = B \o s[d + 1]
    BY <2>2, <2>5, <2>7, FlattenMore
  <2>9. FlattenSeq(SubSeq(s, 1, d + 1)) = (A \o B) \o s[d + 1]
    BY <2>2, <2>3, <2>6, <2>7, FlattenMore
  <2> HIDE DEF A, B, Whole
  <2>10. (A \o B) \o s[d + 1] = A \o (B \o s[d + 1])
    <3>1. PICK p \in Seq(S), q \in Seq(S), x \in Seq(S) : p = A /\ q = B /\ x = s[d + 1]
      BY <2>2, <2>4
    <3>2. (p \o q) \o x = p \o (q \o x)
      OBVIOUS
    <3>3. QED  BY <3>1, <3>2
  <2>11. QED  BY <2>2, <2>8, <2>9, <2>10 DEF A
<1>7. Nat \subseteq Whole
  <2> HIDE DEF Whole
  <2>1. QED  BY <1>5, <1>6, Induction
<1>8. b - a \in Nat /\ a + (b - a) = b /\ b \in 0..Len(s) /\ a \in 0..Len(s)
  BY <1>1
<1>9. QED
  <2>1. b - a \in Whole
    BY <1>7, <1>8
  <2>2. QED  BY <1>1, <1>3, <1>4, <1>8, <2>1

---------------------------------------------------------------------------
(* Sums over finite sets                                                   *)

\* The element a sum takes next, and what a sum over each set of P is.
Chosen(s) == CHOOSE x \in s : TRUE

Adds(g, f, P) ==
  g = [s \in P |-> IF s = {} THEN 0 ELSE f[Chosen(s)] + g[s \ {Chosen(s)}]]

UpTo(D, n) == {s \in SUBSET D : Cardinality(s) <= n}

\* The next element is one of them.
LEMMA ChosenIsIn == ASSUME NEW s, s # {} PROVE Chosen(s) \in s
BY DEF Chosen

\* Such a sum at one set.
LEMMA AddsAt ==
  ASSUME NEW g, NEW f, NEW P, Adds(g, f, P), NEW s \in P
  PROVE  g[s] = IF s = {} THEN 0 ELSE f[Chosen(s)] + g[s \ {Chosen(s)}]
BY DEF Adds

\* A finite set less its next element is finite and smaller.
LEMMA Rest ==
  ASSUME NEW s, IsFiniteSet(s), NEW x \in s
  PROVE  IsFiniteSet(s \ {x}) /\ Cardinality(s \ {x}) = Cardinality(s) - 1
         /\ Cardinality(s) \in Nat \ {0} /\ Cardinality(s \ {x}) \in Nat
BY FS_RemoveElement, FS_CardinalityType, FS_EmptySet

\* There is such a sum over the sets of at most n elements.
LEMMA AddsExists ==
  ASSUME NEW f, NEW D, IsFiniteSet(D), NEW n \in Nat
  PROVE  \E g : Adds(g, f, UpTo(D, n))
<1> DEFINE H == {k \in Nat : \E g : Adds(g, f, UpTo(D, k))}
<1>0. \A s \in SUBSET D : IsFiniteSet(s) /\ Cardinality(s) \in Nat
  BY FS_Subset, FS_CardinalityType
<1>1. 0 \in H
  <2> DEFINE g == [s \in UpTo(D, 0) |-> 0]
  <2>1. \A s \in UpTo(D, 0) : s = {}
    BY <1>0, FS_EmptySet DEF UpTo
  <2>2. Adds(g, f, UpTo(D, 0))
    BY <2>1 DEF Adds
  <2>3. QED  BY <2>2
<1>2. ASSUME NEW k \in Nat, k \in H PROVE k + 1 \in H
  <2>1. PICK g : Adds(g, f, UpTo(D, k))
    BY <1>2
  <2> DEFINE h == [s \in UpTo(D, k + 1) |-> IF s = {} THEN 0 ELSE f[Chosen(s)] + g[s \ {Chosen(s)}]]
  <2>2. ASSUME NEW s \in UpTo(D, k + 1), s # {} PROVE h[s \ {Chosen(s)}] = g[s \ {Chosen(s)}]
    <3> DEFINE r == s \ {Chosen(s)}
    <3>1. r \in UpTo(D, k) /\ r \in UpTo(D, k + 1)
      <4>1. s \in SUBSET D /\ Cardinality(s) <= k + 1 /\ Chosen(s) \in s
        BY <2>2, ChosenIsIn DEF UpTo
      <4>2. Cardinality(r) = Cardinality(s) - 1 /\ Cardinality(s) \in Nat
        BY <1>0, <4>1, Rest
      <4>3. QED  BY <4>1, <4>2 DEF UpTo
    <3> HIDE DEF r
    <3>2. g[r] = IF r = {} THEN 0 ELSE f[Chosen(r)] + g[r \ {Chosen(r)}]
      BY <2>1, <3>1, AddsAt
    <3>3. h[r] = IF r = {} THEN 0 ELSE f[Chosen(r)] + g[r \ {Chosen(r)}]
      BY <3>1
    <3>4. QED  BY <3>2, <3>3 DEF r
  <2>3. \A s \in UpTo(D, k + 1) : h[s] = IF s = {} THEN 0 ELSE f[Chosen(s)] + h[s \ {Chosen(s)}]
    BY <2>2
  <2>4. h = [s \in UpTo(D, k + 1) |-> h[s]]
    OBVIOUS
  <2> HIDE DEF h
  <2>5. Adds(h, f, UpTo(D, k + 1))
    BY <2>3, <2>4 DEF Adds
  <2>6. QED  BY <2>5
<1>3. Nat \subseteq H
  <2> HIDE DEF H
  <2>1. QED  BY <1>1, <1>2, Induction
<1>4. QED  BY <1>3

\* What SumFunctionOnSet computes.
LEMMA SumIs ==
  ASSUME NEW f, NEW D, IsFiniteSet(D)
  PROVE  \E g : Adds(g, f, SUBSET D) /\ SumFunctionOnSet(f, D) = g[D]
<1>1. UpTo(D, Cardinality(D)) = SUBSET D /\ Cardinality(D) \in Nat
  <2>1. \A s \in SUBSET D : Cardinality(s) <= Cardinality(D)
    BY FS_Subset
  <2>2. QED  BY <2>1, FS_CardinalityType DEF UpTo
<1> DEFINE G == CHOOSE g : Adds(g, f, SUBSET D)
<1>2. \E g : Adds(g, f, SUBSET D)
  <2>1. \E g : Adds(g, f, UpTo(D, Cardinality(D)))
    BY <1>1, AddsExists
  <2>2. QED  BY <1>1, <2>1
<1>3. Adds(G, f, SUBSET D)
  BY <1>2
<1>4. SumFunctionOnSet(f, D) = G[D]
  BY DEF SumFunctionOnSet, FoldFunctionOnSet, MapThenFoldSet, Adds, Chosen
<1> HIDE DEF G
<1>5. QED  BY <1>3, <1>4

\* Sums of functions that agree are equal.
LEMMA AddsAgree ==
  ASSUME NEW D, IsFiniteSet(D), NEW f, NEW e, \A x \in D : f[x] = e[x],
         NEW g, NEW P, Adds(g, f, P), SUBSET D \subseteq P,
         NEW h, NEW Q, Adds(h, e, Q), SUBSET D \subseteq Q
  PROVE  g[D] = h[D]
<1> DEFINE H == {k \in Nat : \A s \in SUBSET D : Cardinality(s) <= k => g[s] = h[s]}
<1>0. \A s \in SUBSET D : IsFiniteSet(s) /\ Cardinality(s) \in Nat
  BY FS_Subset, FS_CardinalityType
<1>1. ASSUME NEW s \in SUBSET D
      PROVE  /\ g[s] = (IF s = {} THEN 0 ELSE f[Chosen(s)] + g[s \ {Chosen(s)}])
             /\ h[s] = (IF s = {} THEN 0 ELSE e[Chosen(s)] + h[s \ {Chosen(s)}])
  <2>1. s \in P /\ s \in Q
    OBVIOUS
  <2>2. g[s] = (IF s = {} THEN 0 ELSE f[Chosen(s)] + g[s \ {Chosen(s)}])
    BY <2>1, AddsAt
  <2>3. h[s] = (IF s = {} THEN 0 ELSE e[Chosen(s)] + h[s \ {Chosen(s)}])
    BY <2>1, AddsAt
  <2>4. QED  BY <2>2, <2>3
<1>2. 0 \in H
  <2>1. \A s \in SUBSET D : Cardinality(s) <= 0 => s = {}
    BY <1>0, FS_EmptySet
  <2>2. QED  BY <1>1, <2>1
<1>3. ASSUME NEW k \in Nat, k \in H PROVE k + 1 \in H
  <2> SUFFICES ASSUME NEW s \in SUBSET D, Cardinality(s) <= k + 1 PROVE g[s] = h[s]
    OBVIOUS
  <2>1. CASE s = {}
    BY <1>1, <2>1
  <2>2. CASE s # {}
    <3>1. Chosen(s) \in s
      BY <2>2, ChosenIsIn
    <3> DEFINE r == s \ {Chosen(s)}
    <3>2. r \in SUBSET D /\ Cardinality(r) <= k
      <4>1. Cardinality(r) = Cardinality(s) - 1 /\ Cardinality(s) \in Nat
        BY <1>0, <3>1, Rest
      <4>2. QED  BY <4>1
    <3>3. g[r] = h[r]
      BY <1>3, <3>2
    <3>4. f[Chosen(s)] = e[Chosen(s)]
      BY <3>1
    <3> HIDE DEF r
    <3>5. g[s] = f[Chosen(s)] + g[r] /\ h[s] = e[Chosen(s)] + h[r]
      BY <1>1, <2>2 DEF r
    <3>6. QED  BY <3>3, <3>4, <3>5
  <2>3. QED  BY <2>1, <2>2
<1>4. Nat \subseteq H
  <2> HIDE DEF H
  <2>1. QED  BY <1>2, <1>3, Induction
<1>5. Cardinality(D) \in H /\ D \in SUBSET D /\ Cardinality(D) \in Nat
  BY <1>0, <1>4
<1>6. Cardinality(D) <= Cardinality(D)
  BY <1>5
<1>7. QED  BY <1>5, <1>6

\* Functions that agree have the same sum.
LEMMA SumEqual ==
  ASSUME NEW D, IsFiniteSet(D), NEW f, NEW e, \A x \in D : f[x] = e[x]
  PROVE  SumFunctionOnSet(f, D) = SumFunctionOnSet(e, D)
<1>1. PICK g : Adds(g, f, SUBSET D) /\ SumFunctionOnSet(f, D) = g[D]
  BY SumIs
<1>2. PICK h : Adds(h, e, SUBSET D) /\ SumFunctionOnSet(e, D) = h[D]
  BY SumIs
<1>3. SUBSET D \subseteq SUBSET D
  OBVIOUS
<1>4. g[D] = h[D]
  BY <1>1, <1>2, <1>3, AddsAgree
<1>5. QED  BY <1>1, <1>2, <1>4

\* A sum over nothing, and the next element of one over something.
LEMMA SumNext ==
  ASSUME NEW D, IsFiniteSet(D), NEW f
  PROVE  SumFunctionOnSet(f, D) = IF D = {} THEN 0
                                  ELSE f[Chosen(D)] + SumFunctionOnSet(f, D \ {Chosen(D)})
<1>1. PICK g : Adds(g, f, SUBSET D) /\ SumFunctionOnSet(f, D) = g[D]
  BY SumIs
<1>2. g[D] = IF D = {} THEN 0 ELSE f[Chosen(D)] + g[D \ {Chosen(D)}]
  <2>1. D \in SUBSET D
    OBVIOUS
  <2>2. QED  BY <1>1, <2>1, AddsAt
<1> DEFINE R == D \ {Chosen(D)}
<1>3. IsFiniteSet(R) /\ SUBSET R \subseteq SUBSET D
  BY FS_Subset
<1> HIDE DEF R
<1>4. PICK h : Adds(h, f, SUBSET R) /\ SumFunctionOnSet(f, R) = h[R]
  BY <1>3, SumIs
<1>5. g[R] = h[R]
  <2>1. SUBSET R \subseteq SUBSET R
    OBVIOUS
  <2>2. \A x \in R : f[x] = f[x]
    OBVIOUS
  <2>3. QED  BY <1>1, <1>3, <1>4, <2>1, <2>2, AddsAgree
<1>6. QED  BY <1>1, <1>2, <1>4, <1>5 DEF R

\* A sum is a number, and may begin with any of its elements.
LEMMA SumAny ==
  ASSUME NEW D, IsFiniteSet(D), NEW f, \A x \in D : f[x] \in Nat
  PROVE  /\ SumFunctionOnSet(f, D) \in Nat
         /\ \A x \in D : SumFunctionOnSet(f, D) = f[x] + SumFunctionOnSet(f, D \ {x})
<1> DEFINE S(s) == SumFunctionOnSet(f, s)
           Good(s) == S(s) \in Nat /\ \A x \in s : S(s) = f[x] + S(s \ {x})
           H == {k \in Nat : \A s \in SUBSET D : Cardinality(s) <= k => Good(s)}
<1>0. \A s \in SUBSET D : IsFiniteSet(s) /\ Cardinality(s) \in Nat
  BY FS_Subset, FS_CardinalityType
<1>1. \A s \in SUBSET D : S(s) = IF s = {} THEN 0 ELSE f[Chosen(s)] + S(s \ {Chosen(s)})
  BY <1>0, SumNext
<1> HIDE DEF S
<1>2. 0 \in H
  <2>1. \A s \in SUBSET D : Cardinality(s) <= 0 => s = {}
    BY <1>0, FS_EmptySet
  <2>2. QED  BY <1>1, <2>1
<1>3. ASSUME NEW k \in Nat, k \in H PROVE k + 1 \in H
  <2> SUFFICES ASSUME NEW s \in SUBSET D, Cardinality(s) <= k + 1 PROVE Good(s)
    OBVIOUS
  <2>1. CASE s = {}
    <3>1. S(s) = 0
      BY <1>1, <2>1
    <3>2. QED  BY <2>1, <3>1
  <2>2. CASE s # {}
    <3> DEFINE c == Chosen(s)
    <3>1. c \in s
      BY <2>2, ChosenIsIn
    <3>2. S(s) = f[c] + S(s \ {c})
      BY <1>1, <2>2
    <3> HIDE DEF c
    <3>3. ASSUME NEW x \in s PROVE Cardinality(s \ {x}) <= k /\ Good(s \ {x})
      <4>1. Cardinality(s \ {x}) = Cardinality(s) - 1 /\ Cardinality(s) \in Nat
        BY <1>0, Rest
      <4>2. Cardinality(s \ {x}) <= k /\ s \ {x} \in SUBSET D
        BY <4>1
      <4> HIDE DEF Good
      <4>3. QED  BY <1>3, <4>2
    <3>4. S(s) \in Nat
      BY <3>1, <3>2, <3>3
    <3>5. ASSUME NEW x \in s PROVE S(s) = f[x] + S(s \ {x})
      <4>1. CASE x = c
        BY <3>2, <4>1
      <4>2. CASE x # c
        <5>1. S(s \ {c}) = f[x] + S((s \ {c}) \ {x})
          BY <3>1, <3>3, <4>2
        <5>2. S(s \ {x}) = f[c] + S((s \ {x}) \ {c})
          BY <3>1, <3>3, <4>2
        <5>3. (s \ {c}) \ {x} = (s \ {x}) \ {c}
          OBVIOUS
        <5>4. S((s \ {c}) \ {x}) \in Nat /\ f[x] \in Nat /\ f[c] \in Nat
          <6>1. Cardinality((s \ {c}) \ {x}) <= k /\ (s \ {c}) \ {x} \in SUBSET D
            <7>1. Cardinality((s \ {c}) \ {x}) = Cardinality(s \ {c}) - 1 /\ Cardinality(s \ {c}) \in Nat
              BY <1>0, <3>1, <4>2, Rest
            <7>2. Cardinality(s \ {c}) <= k
              BY <3>1, <3>3
            <7>3. Cardinality((s \ {c}) \ {x}) <= k
              BY <7>1, <7>2
            <7>4. QED  BY <7>3
          <6>2. Good((s \ {c}) \ {x})
            <7> HIDE DEF Good
            <7>1. QED  BY <1>3, <6>1
          <6>3. QED  BY <3>1, <6>2
        <5>5. PICK t \in Nat : t = S((s \ {c}) \ {x}) /\ t = S((s \ {x}) \ {c})
          BY <5>3, <5>4
        <5>6. S(s \ {c}) = f[x] + t /\ S(s \ {x}) = f[c] + t
          BY <5>1, <5>2, <5>5
        <5>7. S(s) = f[c] + (f[x] + t) /\ f[c] + (f[x] + t) = f[x] + (f[c] + t)
          BY <3>2, <5>4, <5>6
        <5>8. QED  BY <5>6, <5>7
      <4>3. QED  BY <4>1, <4>2
    <3>6. QED  BY <3>4, <3>5
  <2>3. QED  BY <2>1, <2>2
<1>4. Nat \subseteq H
  <2> HIDE DEF H
  <2>1. QED  BY <1>2, <1>3, Induction
<1>5. Cardinality(D) \in H /\ D \in SUBSET D /\ Cardinality(D) \in Nat
  BY <1>0, <1>4
<1>6. Good(D)
  <2> HIDE DEF Good
  <2>1. Cardinality(D) <= Cardinality(D)
    BY <1>5
  <2>2. QED  BY <1>5, <2>1
<1>7. QED  BY <1>6 DEF S

\* One more element.
LEMMA SumMore ==
  ASSUME NEW D, IsFiniteSet(D), NEW f, NEW x, x \notin D, \A y \in D \cup {x} : f[y] \in Nat
  PROVE  SumFunctionOnSet(f, D \cup {x}) = f[x] + SumFunctionOnSet(f, D)
<1>1. IsFiniteSet(D \cup {x})
  BY FS_AddElement
<1>2. SumFunctionOnSet(f, D \cup {x}) = f[x] + SumFunctionOnSet(f, (D \cup {x}) \ {x})
  BY <1>1, SumAny
<1>3. (D \cup {x}) \ {x} = D
  OBVIOUS
<1>4. QED  BY <1>2, <1>3

\* A sum over nothing.
LEMMA SumNone == ASSUME NEW f PROVE SumFunctionOnSet(f, {}) = 0
BY SumNext, FS_EmptySet

\* An induction over the finite subsets of a finite set.
LEMMA Subsets ==
  ASSUME NEW D, IsFiniteSet(D), NEW G, {} \in G,
         \A s \in SUBSET D : \A x \in D \ s : s \in G => s \cup {x} \in G
  PROVE  D \in G
<1> DEFINE H == {k \in Nat : \A s \in SUBSET D : Cardinality(s) <= k => s \in G}
<1>0. \A s \in SUBSET D : IsFiniteSet(s) /\ Cardinality(s) \in Nat
  BY FS_Subset, FS_CardinalityType
<1>1. 0 \in H
  <2>1. \A s \in SUBSET D : Cardinality(s) <= 0 => s = {}
    BY <1>0, FS_EmptySet
  <2>2. QED  BY <2>1
<1>2. ASSUME NEW k \in Nat, k \in H PROVE k + 1 \in H
  <2> SUFFICES ASSUME NEW s \in SUBSET D, Cardinality(s) <= k + 1, s # {} PROVE s \in G
    OBVIOUS
  <2>1. PICK x \in s : TRUE
    OBVIOUS
  <2>2. Cardinality(s \ {x}) = Cardinality(s) - 1 /\ Cardinality(s) \in Nat
    BY <1>0, Rest
  <2>3. Cardinality(s \ {x}) <= k
    BY <2>2
  <2>4. s \ {x} \in G
    BY <1>2, <2>3
  <2>5. (s \ {x}) \cup {x} \in G
    <3>1. s \ {x} \in SUBSET D /\ x \in D \ (s \ {x})
      OBVIOUS
    <3>2. QED  BY <2>4, <3>1
  <2>6. (s \ {x}) \cup {x} = s
    OBVIOUS
  <2>7. QED  BY <2>5, <2>6
<1>3. Nat \subseteq H
  <2> HIDE DEF H
  <2>1. QED  BY <1>1, <1>2, Induction
<1>4. Cardinality(D) \in H /\ Cardinality(D) \in Nat /\ D \in SUBSET D
  BY <1>0, <1>3
<1>5. Cardinality(D) <= Cardinality(D)
  BY <1>4
<1>6. QED  BY <1>4, <1>5

\* Sums of a function that is the sum of two.
LEMMA SumPlus ==
  ASSUME NEW D, IsFiniteSet(D), NEW f, NEW g, NEW h,
         \A x \in D : f[x] \in Nat /\ g[x] \in Nat /\ h[x] = f[x] + g[x]
  PROVE  SumFunctionOnSet(h, D) = SumFunctionOnSet(f, D) + SumFunctionOnSet(g, D)
<1> DEFINE S(e, s) == SumFunctionOnSet(e, s)
           G == {s \in SUBSET D : S(h, s) = S(f, s) + S(g, s)}
<1>0. \A s \in SUBSET D : IsFiniteSet(s)
  BY FS_Subset
<1>1. {} \in G
  BY SumNone
<1>2. ASSUME NEW s \in SUBSET D, NEW x \in D \ s, s \in G PROVE s \cup {x} \in G
  <2>1. \A y \in s \cup {x} : f[y] \in Nat /\ g[y] \in Nat /\ h[y] \in Nat
    OBVIOUS
  <2>2. S(f, s \cup {x}) = f[x] + S(f, s) /\ S(f, s) \in Nat
    BY <1>0, <2>1, SumMore, SumAny
  <2>3. S(g, s \cup {x}) = g[x] + S(g, s) /\ S(g, s) \in Nat
    BY <1>0, <2>1, SumMore, SumAny
  <2>4. S(h, s \cup {x}) = h[x] + S(h, s)
    BY <1>0, <2>1, SumMore
  <2>5. S(h, s) = S(f, s) + S(g, s) /\ h[x] = f[x] + g[x] /\ f[x] \in Nat /\ g[x] \in Nat
    BY <1>2
  <2> HIDE DEF S
  <2>6. S(h, s \cup {x}) = S(f, s \cup {x}) + S(g, s \cup {x})
    BY <2>2, <2>3, <2>4, <2>5
  <2>7. QED  BY <2>6
<1> HIDE DEF G
<1>3. D \in G
  BY <1>1, <1>2, Subsets
<1>4. QED  BY <1>3 DEF G

\* Elements that count for nothing may be left out.
LEMMA SumZeros ==
  ASSUME NEW D, IsFiniteSet(D), NEW E \in SUBSET D, NEW f,
         \A x \in D : f[x] \in Nat, \A x \in D \ E : f[x] = 0
  PROVE  SumFunctionOnSet(f, D) = SumFunctionOnSet(f, E)
<1> DEFINE S(s) == SumFunctionOnSet(f, s)
           R == D \ E
           G == {s \in SUBSET R : S(E \cup s) = S(E)}
<1>0. IsFiniteSet(R) /\ \A s \in SUBSET R : IsFiniteSet(E \cup s)
  BY FS_Subset
<1>1. {} \in G
  <2>1. E \cup {} = E
    OBVIOUS
  <2>2. QED  BY <2>1
<1>2. ASSUME NEW s \in SUBSET R, NEW x \in R \ s, s \in G PROVE s \cup {x} \in G
  <2>1. x \notin E \cup s /\ f[x] = 0 /\ \A y \in (E \cup s) \cup {x} : f[y] \in Nat
    OBVIOUS
  <2>2. S((E \cup s) \cup {x}) = f[x] + S(E \cup s)
    BY <1>0, <2>1, SumMore
  <2>3. S(E \cup s) \in Nat
    BY <1>0, <2>1, SumAny
  <2>4. (E \cup s) \cup {x} = E \cup (s \cup {x}) /\ s \cup {x} \in SUBSET R
    OBVIOUS
  <2>5. S(E \cup s) = S(E)
    BY <1>2
  <2> HIDE DEF S
  <2>6. S((E \cup s) \cup {x}) = S(E \cup s)
    BY <2>1, <2>2, <2>3
  <2>7. S(E \cup (s \cup {x})) = S(E)
    BY <2>4, <2>5, <2>6
  <2>8. QED  BY <2>4, <2>7
<1> HIDE DEF G
<1>3. R \in G
  <2> HIDE DEF R
  <2>1. QED  BY <1>0, <1>1, <1>2, Subsets
<1>4. E \cup R = D
  OBVIOUS
<1>5. QED  BY <1>3, <1>4 DEF G

\* A sum may be taken over other names of the same elements.
LEMMA SumRenamed ==
  ASSUME NEW D, IsFiniteSet(D), NEW m, NEW f, NEW g,
         \A x \in D : f[x] \in Nat /\ g[m[x]] = f[x],
         \A x, y \in D : m[x] = m[y] => x = y
  PROVE  /\ IsFiniteSet({m[x] : x \in D})
         /\ SumFunctionOnSet(g, {m[x] : x \in D}) = SumFunctionOnSet(f, D)
<1> DEFINE S(e, s) == SumFunctionOnSet(e, s)
           Im(s) == {m[x] : x \in s}
           G == {s \in SUBSET D : IsFiniteSet(Im(s)) /\ S(g, Im(s)) = S(f, s)}
<1>0. \A s \in SUBSET D : IsFiniteSet(s)
  BY FS_Subset
<1>1. {} \in G
  <2>1. Im({}) = {}
    OBVIOUS
  <2>2. QED  BY <2>1, SumNone, FS_EmptySet
<1>2. ASSUME NEW s \in SUBSET D, NEW x \in D \ s, s \in G PROVE s \cup {x} \in G
  <2>1. Im(s \cup {x}) = Im(s) \cup {m[x]}
    OBVIOUS
  <2>2. m[x] \notin Im(s)
    OBVIOUS
  <2>3. IsFiniteSet(Im(s)) /\ S(g, Im(s)) = S(f, s)
    BY <1>2
  <2>4. IsFiniteSet(Im(s) \cup {m[x]})
    BY <2>3, FS_AddElement
  <2>5. \A y \in Im(s) \cup {m[x]} : g[y] \in Nat
    OBVIOUS
  <2>6. S(f, s \cup {x}) = f[x] + S(f, s)
    <3>1. \A y \in s \cup {x} : f[y] \in Nat
      OBVIOUS
    <3>2. QED  BY <1>0, <3>1, SumMore
  <2> HIDE DEF Im
  <2>7. S(g, Im(s) \cup {m[x]}) = g[m[x]] + S(g, Im(s))
    BY <2>2, <2>3, <2>5, SumMore
  <2> HIDE DEF S
  <2>8. S(g, Im(s \cup {x})) = S(f, s \cup {x})
    BY <2>1, <2>3, <2>6, <2>7
  <2>9. QED  BY <2>1, <2>4, <2>8
<1> HIDE DEF G
<1>3. D \in G
  BY <1>1, <1>2, Subsets
<1>4. QED  BY <1>3 DEF G

\* A sum over the indices of a sequence, with one more.
LEMMA SumLonger ==
  ASSUME NEW n \in Nat, NEW f, NEW g, \A i \in 1..n : f[i] \in Nat /\ g[i] = f[i], g[n + 1] \in Nat
  PROVE  /\ SumFunctionOnSet(f, 1..n) \in Nat
         /\ SumFunctionOnSet(g, 1..(n + 1)) = SumFunctionOnSet(f, 1..n) + g[n + 1]
<1>1. IsFiniteSet(1..n) /\ 1..(n + 1) = (1..n) \cup {n + 1} /\ n + 1 \notin 1..n
  <2>1. 1 \in Int /\ n \in Int
    OBVIOUS
  <2>2. IsFiniteSet(1..n)
    BY <2>1, FS_Interval
  <2>3. 1..(n + 1) = (1..n) \cup {n + 1} /\ n + 1 \notin 1..n
    OBVIOUS
  <2>4. QED  BY <2>2, <2>3
<1>2. SumFunctionOnSet(f, 1..n) \in Nat /\ SumFunctionOnSet(f, 1..n) = SumFunctionOnSet(g, 1..n)
  BY <1>1, SumAny, SumEqual
<1>3. \A i \in (1..n) \cup {n + 1} : g[i] \in Nat
  OBVIOUS
<1>4. SumFunctionOnSet(g, (1..n) \cup {n + 1}) = g[n + 1] + SumFunctionOnSet(g, 1..n)
  BY <1>1, <1>3, SumMore
<1>5. PICK x \in Nat, y \in Nat : x = SumFunctionOnSet(f, 1..n) /\ y = g[n + 1]
  BY <1>2
<1>6. SumFunctionOnSet(g, 1..(n + 1)) = y + x
  BY <1>1, <1>2, <1>4, <1>5
<1>7. QED  BY <1>5, <1>6

---------------------------------------------------------------------------
(* Finite sets                                                             *)

\* A number in a finite set of numbers that is not empty is at most its maximum.
LEMMA MaxIsMost ==
  ASSUME NEW S \in SUBSET Nat, IsFiniteSet(S), S # {}
  PROVE  Max(S) \in S /\ \A y \in S : y <= Max(S)
<1> DEFINE Top(s) == s = {} \/ \E x \in s : \A y \in s : x >= y
           G == {s \in SUBSET S : Top(s)}
<1>1. {} \in G
  OBVIOUS
<1>2. ASSUME NEW s \in SUBSET S, NEW x \in S \ s, s \in G PROVE s \cup {x} \in G
  <2>0. x \in Nat /\ \A y \in s : y \in Nat
    OBVIOUS
  <2>1. CASE s = {}
    <3>1. \A y \in s \cup {x} : x >= y
      BY <2>0, <2>1
    <3>2. QED  BY <3>1
  <2>2. CASE s # {}
    <3>1. PICK m \in s : \A y \in s : m >= y
      BY <1>2, <2>2
    <3>2. CASE m >= x
      <4>1. \A y \in s \cup {x} : m >= y
        BY <3>1, <3>2
      <4>2. QED  BY <4>1
    <3>3. CASE ~(m >= x)
      <4>1. \A y \in s \cup {x} : x >= y
        BY <2>0, <3>1, <3>3
      <4>2. QED  BY <4>1
    <3>4. QED  BY <3>2, <3>3
  <2>3. QED  BY <2>1, <2>2
<1> HIDE DEF G
<1>3. S \in G
  BY <1>1, <1>2, Subsets
<1>4. \E x \in S : \A y \in S : x >= y
  BY <1>3 DEF G
<1>5. Max(S) \in S /\ \A y \in S : Max(S) >= y
  BY <1>4 DEF Max
<1>6. QED  BY <1>5

\* The greatest and the least of a set are the bounds in it.
LEMMA BoundIs ==
  ASSUME NEW S \in SUBSET Nat, NEW m \in S
  PROVE  /\ (\A y \in S : y <= m) => Max(S) = m
         /\ (\A y \in S : m <= y) => Min(S) = m
<1>1. ASSUME \A y \in S : y <= m PROVE Max(S) = m
  <2>1. \E x \in S : \A y \in S : x >= y
    <3>1. \A y \in S : m >= y
      BY <1>1
    <3>2. QED  BY <3>1
  <2>2. Max(S) \in S /\ \A y \in S : Max(S) >= y
    BY <2>1 DEF Max
  <2>3. Max(S) >= m /\ Max(S) <= m /\ Max(S) \in Nat /\ m \in Nat
    BY <1>1, <2>2
  <2>4. QED  BY <2>3
<1>2. ASSUME \A y \in S : m <= y PROVE Min(S) = m
  <2>1. \E x \in S : \A y \in S : x =< y
    BY <1>2
  <2>2. Min(S) \in S /\ \A y \in S : Min(S) =< y
    BY <2>1 DEF Min
  <2>3. Min(S) =< m /\ m <= Min(S) /\ Min(S) \in Nat /\ m \in Nat
    BY <1>2, <2>2
  <2>4. QED  BY <2>3
<1>3. QED  BY <1>1, <1>2

\* The image of a finite set is finite.
LEMMA ImageIsFinite ==
  ASSUME NEW D, IsFiniteSet(D), NEW m
  PROVE  IsFiniteSet({m[x] : x \in D})
<1> DEFINE Im(s) == {m[x] : x \in s}
           G == {s \in SUBSET D : IsFiniteSet(Im(s))}
<1>1. {} \in G
  <2>1. Im({}) = {}
    OBVIOUS
  <2>2. QED  BY <2>1, FS_EmptySet
<1>2. ASSUME NEW s \in SUBSET D, NEW x \in D \ s, s \in G PROVE s \cup {x} \in G
  <2>1. Im(s \cup {x}) = Im(s) \cup {m[x]}
    OBVIOUS
  <2>2. IsFiniteSet(Im(s))
    BY <1>2
  <2>3. IsFiniteSet(Im(s) \cup {m[x]})
    <3> HIDE DEF Im
    <3>1. QED  BY <2>2, FS_AddElement
  <2>4. QED  BY <2>1, <2>3
<1> HIDE DEF G
<1>3. D \in G
  BY <1>1, <1>2, Subsets
<1>4. QED  BY <1>3 DEF G

===========================================================================
