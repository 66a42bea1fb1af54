---------------------------- MODULE Socket_proofs ----------------------------
(* That the socket neither loses, repeats nor reorders a packet, that one    *)
(* handler writes at a time, and what a delayed close delivers, for any      *)
(* packets, sizes and capacities.                                            *)
EXTENDS Socket, FiniteSetTheorems, SequenceTheorems, TLAPS

-----------------------------------------------------------------------------
(* Induction.  A set of numbers stands for the predicate, and the induction  *)
(* rests on its least counterexample: < is well founded.                     *)

\* Every set of natural numbers that is not empty has a least element.
LEMMA Least ==
    ASSUME NEW T \in SUBSET Nat, T # {}
    PROVE  \E n \in T : \A m \in T : n <= m
<1> DEFINE R == OpToRel(<, Nat)
<1>1. IsWellFoundedOn(R, Nat) BY NatLessThanWellFounded
<1>2. \A m, n \in Nat : m < n => <<m, n>> \in R BY DEF OpToRel
<1> HIDE DEF R
<1>3. PICK n \in T : \A m \in T : ~ (<<m, n>> \in R) BY <1>1, WFMin
<1>4. ASSUME NEW m \in T PROVE n <= m
  <2>1. m \in Nat /\ n \in Nat OBVIOUS
  <2>2. ~(m < n) BY <1>2, <1>3, <2>1
  <2> QED BY <2>1, <2>2
<1> QED BY <1>4

\* A set that holds 0 and the successor, up to N, of what it holds, holds 0..N.
LEMMA Induct ==
    ASSUME NEW N \in Nat, NEW T, 0 \in T,
           \A n \in 0..N : n \in T /\ n < N => n + 1 \in T
    PROVE  \A n \in 0..N : n \in T
<1> SUFFICES ASSUME NEW k \in 0..N, k \notin T PROVE FALSE OBVIOUS
<1> DEFINE Bad == {n \in 0..N : n \notin T}
<1>1. Bad \in SUBSET Nat /\ Bad # {} OBVIOUS
<1>2. PICK n \in Bad : \A m \in Bad : n <= m BY <1>1, Least
<1>3. n # 0 /\ n - 1 \in 0..N /\ n - 1 < N BY <1>2
<1>4. n - 1 \notin Bad BY <1>2, <1>3
<1>5. (n - 1) + 1 \in T BY <1>3, <1>4
<1> QED BY <1>2, <1>5

-----------------------------------------------------------------------------
(* FlattenSeq.                                                               *)

LEMMA Assoc == \A S : \A s, t, u \in Seq(S) : s \o (t \o u) = (s \o t) \o u
  BY ConcatAssociative

\* f[i] is what the first i sequences of q make together, up to n.
Joins(f, q, n, S) ==
    /\ f \in [0..n -> Seq(S)]
    /\ f[0] = <<>>
    /\ \A i \in 1..n : f[i] = f[i - 1] \o q[i]

LEMMA JoinsStep ==
    ASSUME NEW S, NEW q \in Seq(Seq(S)), NEW n \in Nat, n < Len(q),
           NEW f, Joins(f, q, n, S)
    PROVE  \E g : Joins(g, q, n + 1, S)
<1> DEFINE g == [i \in 0..n + 1 |-> IF i <= n THEN f[i] ELSE f[n] \o q[n + 1]]
<1>1. n + 1 \in 1..Len(q) /\ q[n + 1] \in Seq(S) OBVIOUS
<1>2. /\ \A i \in 0..n : f[i] \in Seq(S)
      /\ f[0] = <<>>
      /\ \A i \in 1..n : f[i] = f[i - 1] \o q[i]
  BY DEF Joins
<1>3. f[n] \o q[n + 1] \in Seq(S) BY <1>1, <1>2
<1>4. /\ g \in [0..n + 1 -> Seq(S)]
      /\ \A i \in 0..n : g[i] = f[i]
      /\ g[n + 1] = f[n] \o q[n + 1]

  <2>1. g \in [0..n + 1 -> Seq(S)]
    <3>1. ASSUME NEW i \in 0..n + 1 PROVE g[i] \in Seq(S)
      <4>1. CASE i <= n
        <5>1. i \in 0..n /\ g[i] = f[i] BY <4>1
        <5> QED BY <1>2, <5>1
      <4>2. CASE ~(i <= n)
        <5>1. g[i] = f[n] \o q[n + 1] BY <4>2
        <5> QED BY <1>3, <5>1
      <4> QED BY <4>1, <4>2
    <3>2. g = [i \in 0..n + 1 |-> g[i]] OBVIOUS
    <3> HIDE DEF g
    <3> QED BY <3>1, <3>2
  <2>2. ASSUME NEW i \in 0..n PROVE g[i] = f[i]
    <3>1. i \in 0..n + 1 /\ i <= n OBVIOUS
    <3> QED BY <3>1
  <2>3. g[n + 1] = f[n] \o q[n + 1]
    <3>1. n + 1 \in 0..n + 1 /\ ~(n + 1 <= n) OBVIOUS
    <3> QED BY <3>1
  <2> QED BY <2>1, <2>2, <2>3
<1> HIDE DEF g
<1>5. g[0] = <<>> BY <1>2, <1>4
<1>6. ASSUME NEW i \in 1..n + 1 PROVE g[i] = g[i - 1] \o q[i]
  <2>1. CASE i <= n
    <3>1. i \in 1..n /\ i \in 0..n /\ i - 1 \in 0..n BY <2>1
    <3> QED BY <1>2, <1>4, <3>1
  <2>2. CASE i = n + 1
    <3>1. i - 1 = n /\ n \in 0..n BY <2>2
    <3> QED BY <1>4, <2>2, <3>1
  <2>3. i <= n \/ i = n + 1 OBVIOUS
  <2> QED BY <2>1, <2>2, <2>3
<1>7. Joins(g, q, n + 1, S) BY <1>4, <1>5, <1>6 DEF Joins
<1> QED BY <1>7

LEMMA JoinsExist ==
    ASSUME NEW S, NEW q \in Seq(Seq(S))
    PROVE  \E f : Joins(f, q, Len(q), S)
<1> DEFINE T == {n \in 0..Len(q) : \E f : Joins(f, q, n, S)}
<1>0. Len(q) \in Nat OBVIOUS
<1>1. Joins([i \in 0..0 |-> <<>>], q, 0, S) BY DEF Joins
<1>2. 0 \in T BY <1>0, <1>1
<1>3. ASSUME NEW n \in 0..Len(q), n \in T, n < Len(q) PROVE n + 1 \in T
  <2>1. n \in Nat /\ n + 1 \in 0..Len(q) BY <1>0, <1>3
  <2>2. \E g : Joins(g, q, n + 1, S) BY <1>3, <2>1, JoinsStep
  <2> QED BY <2>1, <2>2
<1> HIDE DEF T
<1>4. \A n \in 0..Len(q) : n \in T BY <1>0, <1>2, <1>3, Induct
<1>5. Len(q) \in T BY <1>0, <1>4
<1> QED BY <1>5 DEF T

\* The definition of FlattenSeq starts with the first sequence, not with <<>>.
FlattenBody(q, g) == [i \in 1..Len(q) |-> IF i = 1 THEN q[i] ELSE g[i - 1] \o q[i]]

\* Whatever satisfies it says what Joins says.
LEMMA FlattenUnique ==
    ASSUME NEW S, NEW q \in Seq(Seq(S)), NEW f, Joins(f, q, Len(q), S),
           NEW h, h = FlattenBody(q, h)
    PROVE  \A n \in 1..Len(q) : h[n] = f[n]
<1> DEFINE T == {n \in 0..Len(q) : n > 0 => h[n] = f[n]}
<1>0. Len(q) \in Nat OBVIOUS
<1>1. 0 \in T BY <1>0
<1>2. ASSUME NEW n \in 0..Len(q), n \in T, n < Len(q) PROVE n + 1 \in T
  <2>1. n + 1 \in 1..Len(q) /\ (n + 1) - 1 = n BY <1>0, <1>2
  <2>2. f[n + 1] = f[n] \o q[n + 1] /\ f[0] = <<>> BY <2>1 DEF Joins
  <2>3. h[n + 1] = IF n + 1 = 1 THEN q[n + 1] ELSE h[n] \o q[n + 1]
    BY <2>1 DEF FlattenBody
  <2>4. CASE n = 0
    <3>1. q[1] \in Seq(S) BY <1>0, <2>1, <2>4
    <3>2. <<>> \o q[1] = q[1] BY <3>1
    <3>3. n + 1 = 1 BY <2>4
    <3>4. h[1] = q[1] BY <2>3, <3>3
    <3>5. f[1] = f[0] \o q[1] BY <2>2, <2>4, <3>3
    <3>6. f[1] = <<>> \o q[1] BY <2>2, <3>5
    <3> QED BY <2>1, <3>2, <3>3, <3>4, <3>6
  <2>5. CASE n # 0
    <3>1. h[n] = f[n] BY <1>2, <2>5
    <3>2. n + 1 # 1 BY <1>0, <2>5
    <3>3. h[n + 1] = h[n] \o q[n + 1] BY <2>3, <3>2
    <3>4. h[n + 1] = f[n + 1] BY <2>2, <3>1, <3>3
    <3> QED BY <1>0, <2>1, <3>4
  <2> QED BY <2>4, <2>5
<1> HIDE DEF T
<1>3. \A n \in 0..Len(q) : n \in T BY <1>0, <1>1, <1>2, Induct
<1> QED BY <1>0, <1>3 DEF T

LEMMA FlattenIs ==
    ASSUME NEW S, NEW q \in Seq(Seq(S)), NEW f, Joins(f, q, Len(q), S)
    PROVE  FlattenSeq(q) = f[Len(q)]
<1>0. Len(q) \in Nat OBVIOUS
<1>1. CASE q = <<>> BY <1>1 DEF FlattenSeq, Joins
<1>2. CASE q # <<>>
  <2> DEFINE h == CHOOSE g : g = FlattenBody(q, g)
             e == [i \in 1..Len(q) |-> f[i]]
  <2>1. FlattenSeq(q) = h[Len(q)] BY <1>2 DEF FlattenSeq, FlattenBody
  <2>2. e = FlattenBody(q, e)
    <3>1. ASSUME NEW i \in 1..Len(q)
          PROVE  e[i] = IF i = 1 THEN q[i] ELSE e[i - 1] \o q[i]
      <4>1. f[i] = f[i - 1] \o q[i] /\ f[0] = <<>> BY DEF Joins
      <4>2. CASE i = 1
        <5>1. q[i] \in Seq(S) /\ i - 1 = 0 BY <1>0, <4>2
        <5>2. <<>> \o q[i] = q[i] BY <5>1
        <5>3. f[i] = <<>> \o q[i] BY <4>1, <5>1
        <5> QED BY <4>2, <5>2, <5>3
      <4>3. CASE i # 1
        <5>1. i - 1 \in 1..Len(q) BY <1>0, <4>3
        <5>2. e[i - 1] = f[i - 1] /\ e[i] = f[i] BY <5>1
        <5> QED BY <4>1, <4>3, <5>2
      <4> QED BY <4>2, <4>3
    <3>2. e = [i \in 1..Len(q) |-> e[i]] OBVIOUS
    <3> HIDE DEF e
    <3> QED BY <3>1, <3>2 DEF FlattenBody
  <2>3. h = FlattenBody(q, h) BY <2>2
  <2> HIDE DEF h, e
  <2>4. \A n \in 1..Len(q) : h[n] = f[n] BY <2>3, FlattenUnique
  <2>5. Len(q) \in 1..Len(q) BY <1>0, <1>2
  <2> QED BY <2>1, <2>4, <2>5
<1> QED BY <1>1, <1>2

LEMMA FlattenType ==
    ASSUME NEW S, NEW q \in Seq(Seq(S))
    PROVE  FlattenSeq(q) \in Seq(S)
<1>1. PICK f : Joins(f, q, Len(q), S) BY JoinsExist
<1>2. f[Len(q)] \in Seq(S) BY <1>1 DEF Joins
<1> QED BY <1>1, <1>2, FlattenIs

LEMMA FlattenConcat ==
    ASSUME NEW S, NEW q \in Seq(Seq(S)), NEW r \in Seq(Seq(S))
    PROVE  FlattenSeq(q \o r) = FlattenSeq(q) \o FlattenSeq(r)
<1> DEFINE m == Len(q)  n == Len(r)
<1>1. PICK f : Joins(f, q, Len(q), S) BY JoinsExist
<1>2. PICK g : Joins(g, r, Len(r), S) BY JoinsExist
<1>3. /\ q \o r \in Seq(Seq(S)) /\ Len(q \o r) = m + n
      /\ \A i \in 1..m : (q \o r)[i] = q[i]
      /\ \A i \in m + 1..m + n : (q \o r)[i] = r[i - m]
  OBVIOUS
<1> DEFINE h == [i \in 0..m + n |-> IF i <= m THEN f[i] ELSE f[m] \o g[i - m]]
<1>4. m \in Nat /\ n \in Nat OBVIOUS
<1>5. /\ \A i \in 0..m : f[i] \in Seq(S)
      /\ \A i \in 0..n : g[i] \in Seq(S)
      /\ f[0] = <<>> /\ g[0] = <<>>
      /\ \A i \in 1..m : f[i] = f[i - 1] \o q[i]
      /\ \A i \in 1..n : g[i] = g[i - 1] \o r[i]
  BY <1>1, <1>2 DEF Joins
<1> HIDE DEF m, n
<1>6. /\ \A i \in 0..m : h[i] = f[i]
      /\ \A i \in 1..n : h[m + i] = f[m] \o g[i]
      /\ h = [i \in 0..m + n |-> h[i]]
  <2>1. ASSUME NEW i \in 0..m PROVE h[i] = f[i]
    <3>1. i \in 0..m + n /\ i <= m BY <1>4
    <3> QED BY <3>1
  <2>2. ASSUME NEW i \in 1..n PROVE h[m + i] = f[m] \o g[i]
    <3>1. m + i \in 0..m + n /\ ~(m + i <= m) /\ (m + i) - m = i BY <1>4
    <3> QED BY <3>1
  <2> QED BY <2>1, <2>2
<1> HIDE DEF h
<1>7. /\ m \in 0..m /\ f[m] \in Seq(S) /\ f[m] \o <<>> = f[m]
      /\ h[m] = f[m] \o g[0]
  <2>1. m \in 0..m BY <1>4
  <2>2. f[m] \in Seq(S) BY <1>5, <2>1
  <2>3. f[m] \o <<>> = f[m] BY <2>2
  <2> QED BY <1>5, <1>6, <2>1, <2>2, <2>3
<1>8. \A i \in 0..n : h[m + i] = f[m] \o g[i]
  <2> SUFFICES ASSUME NEW i \in 0..n PROVE h[m + i] = f[m] \o g[i] OBVIOUS
  <2>1. CASE i = 0 
    <3>1. m + i = m BY <1>4, <2>1
    <3> QED BY <1>7, <2>1, <3>1
  <2>2. CASE i # 0
    <3>1. i \in 1..n BY <1>4, <2>2
    <3> QED BY <1>6, <3>1
  <2> QED BY <2>1, <2>2
<1>13. \A i \in 0..m + n : i \in 0..m \/ \E j \in 1..n : i = m + j
  <2> SUFFICES ASSUME NEW i \in 0..m + n, ~(i \in 0..m) PROVE i - m \in 1..n /\ i = m + (i - m)
    OBVIOUS
  <2> QED BY <1>4
<1>14. h \in [0..m + n -> Seq(S)]
  <2>1. ASSUME NEW i \in 0..m + n PROVE h[i] \in Seq(S)
    <3>1. CASE i \in 0..m BY <1>5, <1>6, <3>1
    <3>2. ASSUME NEW j \in 1..n, i = m + j PROVE h[i] \in Seq(S)
      <4>1. j \in 0..n BY <1>4
      <4>2. g[j] \in Seq(S) /\ h[i] = f[m] \o g[j] BY <1>5, <1>6, <3>2, <4>1
      <4> QED BY <1>7, <4>2
    <3> QED BY <1>13, <3>1, <3>2
  <2> QED BY <1>6, <2>1
<1>15. h[0] = <<>>
  <2>1. 0 \in 0..m BY <1>4
  <2> QED BY <1>5, <1>6, <2>1
<1>16. ASSUME NEW i \in 1..m + n PROVE h[i] = h[i - 1] \o (q \o r)[i]
  <2>1. CASE i \in 0..m
    <3>1. i \in 1..m /\ i - 1 \in 0..m BY <1>4, <2>1
    <3>2. h[i] = f[i] /\ h[i - 1] = f[i - 1] /\ f[i] = f[i - 1] \o q[i]
      BY <1>5, <1>6, <2>1, <3>1
    <3> QED BY <1>3, <3>1, <3>2
  <2>2. ASSUME NEW j \in 1..n, i = m + j PROVE h[i] = h[i - 1] \o (q \o r)[i]
    <3>1. j - 1 \in 0..n /\ i - 1 = m + (j - 1) BY <1>4, <2>2
    <3>2. h[i - 1] = f[m] \o g[j - 1] BY <1>8, <3>1
    <3>3. h[i] = f[m] \o g[j] /\ g[j] = g[j - 1] \o r[j] BY <1>5, <1>6, <2>2
    <3>4. i \in m + 1..m + n /\ i - m = j BY <1>4, <2>2
    <3>5. (q \o r)[i] = r[j] BY <1>3, <3>4
    <3>6. g[j - 1] \in Seq(S) /\ r[j] \in Seq(S) BY <1>5, <3>1 DEF n
    <3> DEFINE x == g[j - 1]  y == r[j]  z == f[m]
    <3>7. x \in Seq(S) /\ y \in Seq(S) /\ z \in Seq(S) BY <1>7, <3>6
    <3>8. h[i - 1] = z \o x /\ h[i] = z \o (x \o y) /\ (q \o r)[i] = y
      BY <3>2, <3>3, <3>5
    <3> HIDE DEF x, y, z
    <3>9. z \o (x \o y) = (z \o x) \o y BY <3>7, Assoc
    <3> QED BY <3>8, <3>9
  <2>3. i \in 0..m + n BY <1>4
  <2> QED BY <1>13, <2>1, <2>2, <2>3
<1>9. Joins(h, q \o r, Len(q \o r), S) BY <1>3, <1>14, <1>15, <1>16 DEF Joins
<1>10. FlattenSeq(q \o r) = h[m + n] BY <1>3, <1>9, FlattenIs
<1>11. h[m + n] = f[m] \o g[n]
  <2>1. n \in 0..n BY <1>4
  <2> QED BY <1>8, <2>1
<1>12. FlattenSeq(q) = f[m] /\ FlattenSeq(r) = g[n] BY <1>1, <1>2, FlattenIs DEF m, n
<1> QED BY <1>10, <1>11, <1>12

LEMMA FlattenOne ==
    ASSUME NEW S, NEW b \in Seq(S)
    PROVE  FlattenSeq(<<b>>) = b /\ FlattenSeq(<<>>) = <<>>
<1> DEFINE f == [i \in 0..1 |-> IF i = 0 THEN <<>> ELSE b]
<1>1. <<b>> \in Seq(Seq(S)) /\ Len(<<b>>) = 1 /\ <<b>>[1] = b OBVIOUS
<1>2. Joins(f, <<b>>, Len(<<b>>), S) BY <1>1 DEF Joins
<1>3. FlattenSeq(<<b>>) = f[1] BY <1>1, <1>2, FlattenIs
<1> QED BY <1>3 DEF FlattenSeq

LEMMA FlattenAppend ==
    ASSUME NEW S, NEW q \in Seq(Seq(S)), NEW b \in Seq(S)
    PROVE  FlattenSeq(Append(q, b)) = FlattenSeq(q) \o b
<1>1. <<b>> \in Seq(Seq(S)) /\ Append(q, b) = q \o <<b>> OBVIOUS
<1>2. FlattenSeq(q \o <<b>>) = FlattenSeq(q) \o FlattenSeq(<<b>>) BY <1>1, FlattenConcat
<1> QED BY <1>1, <1>2, FlattenOne

LEMMA FlattenCons ==
    ASSUME NEW S, NEW b \in Seq(S), NEW r \in Seq(Seq(S))
    PROVE  FlattenSeq(<<b>> \o r) = b \o FlattenSeq(r)
<1>1. <<b>> \in Seq(Seq(S)) OBVIOUS
<1>2. FlattenSeq(<<b>> \o r) = FlattenSeq(<<b>>) \o FlattenSeq(r) BY <1>1, FlattenConcat
<1> QED BY <1>2, FlattenOne

-----------------------------------------------------------------------------
(* Batched: the fold that fills the buffers.                                 *)

Start == <<<<>>, <<>>, FirstCapacity>>
PackTo(s, p) == Pack(s[1], s[2], s[3], p)

\* One packet goes into the current buffer or into a later one, whatever the sizes.
LEMMA PackKeeps ==
    ASSUME NEW s, s[1] \in Seq(Seq(Packets)), s[2] \in Seq(Packets), NEW p \in Packets
    PROVE  /\ PackTo(s, p)[1] \in Seq(Seq(Packets)) /\ PackTo(s, p)[2] \in Seq(Packets)
           /\ FlattenSeq(Append(PackTo(s, p)[1], PackTo(s, p)[2]))
                = FlattenSeq(Append(s[1], s[2])) \o <<p>>
<1> DEFINE d == s[1]  b == s[2]  c == s[3]  r == PackTo(s, p)  F == FlattenSeq(d)
<1>1. d \in Seq(Seq(Packets)) /\ b \in Seq(Packets) OBVIOUS
<1>2. \/ r = <<d, Append(b, p), c>>
      \/ r = <<Append(d, b), <<p>>, Capacity>>
      \/ r = <<d \o <<b, <<p>>>>, <<>>, Capacity>>
  <2>1. CASE Space(b, c) >= Size[p] BY <2>1 DEF PackTo, Pack
  <2>2. CASE ~(Space(b, c) >= Size[p]) /\ Capacity >= Size[p] BY <2>2 DEF PackTo, Pack
  <2>3. CASE ~(Space(b, c) >= Size[p]) /\ ~(Capacity >= Size[p]) BY <2>3 DEF PackTo, Pack
  <2> QED BY <2>1, <2>2, <2>3
<1> HIDE DEF d, b, c, r
<1>3. <<p>> \in Seq(Packets) /\ <<>> \in Seq(Packets) /\ F \in Seq(Packets)
  BY <1>1, FlattenType
<1>4. FlattenSeq(Append(d, b)) = F \o b /\ FlattenSeq(Append(d, b)) \in Seq(Packets)
  <2>1. FlattenSeq(Append(d, b)) = F \o b BY <1>1, FlattenAppend
  <2>2. F \o b \in Seq(Packets) BY <1>1, <1>3
  <2> QED BY <2>1, <2>2
<1>5. CASE r = <<d, Append(b, p), c>>
  <2>1. r[1] = d /\ r[2] = Append(b, p) BY <1>5
  <2>2. Append(b, p) \in Seq(Packets) /\ Append(b, p) = b \o <<p>> BY <1>1, AppendIsConcat
  <2>3. FlattenSeq(Append(d, Append(b, p))) = F \o (b \o <<p>>)
    BY <1>1, <2>2, FlattenAppend
  <2>4. F \o (b \o <<p>>) = (F \o b) \o <<p>> BY <1>1, <1>3, Assoc
  <2> QED BY <1>1, <1>4, <2>1, <2>2, <2>3, <2>4 DEF r, d, b
<1>6. CASE r = <<Append(d, b), <<p>>, Capacity>>
  <2>1. r[1] = Append(d, b) /\ r[2] = <<p>> BY <1>6
  <2>2. Append(d, b) \in Seq(Seq(Packets)) BY <1>1
  <2>3. FlattenSeq(Append(Append(d, b), <<p>>)) = FlattenSeq(Append(d, b)) \o <<p>>
    BY <1>3, <2>2, FlattenAppend
  <2> QED BY <1>3, <2>1, <2>2, <2>3 DEF r, d, b
<1>7. CASE r = <<d \o <<b, <<p>>>>, <<>>, Capacity>>
  <2>1. r[1] = d \o <<b, <<p>>>> /\ r[2] = <<>> BY <1>7
  <2>2. d \o <<b, <<p>>>> = Append(Append(d, b), <<p>>) BY <1>1, <1>3
  <2>3. Append(d, b) \in Seq(Seq(Packets)) BY <1>1
  <2>4. Append(Append(d, b), <<p>>) \in Seq(Seq(Packets)) BY <1>3, <2>3
  <2>5. FlattenSeq(Append(Append(d, b), <<p>>)) = FlattenSeq(Append(d, b)) \o <<p>>
    BY <1>3, <2>3, FlattenAppend
  <2>6. FlattenSeq(Append(Append(Append(d, b), <<p>>), <<>>))
          = (FlattenSeq(Append(d, b)) \o <<p>>) \o <<>>
    BY <1>3, <2>4, <2>5, FlattenAppend
  <2>7. (FlattenSeq(Append(d, b)) \o <<p>>) \o <<>> = FlattenSeq(Append(d, b)) \o <<p>>
    BY <1>3, <1>4
  <2> QED BY <1>3, <2>1, <2>2, <2>4, <2>6, <2>7 DEF r, d, b
<1> QED BY <1>2, <1>5, <1>6, <1>7

\* What the fold does for the sets of positions up to k.
PackBody(packets, k, g) ==
    [s \in SUBSET (1..k) |->
        IF s = {} THEN Start ELSE PackTo(g[s \ {Max(s)}], packets[Max(s)])]

LEMMA MaxIsLast ==
    ASSUME NEW k \in Nat, NEW s \in SUBSET (1..k + 1), k + 1 \in s
    PROVE  Max(s) = k + 1
<1>1. \A y \in s : k + 1 >= y OBVIOUS
<1>2. ASSUME NEW x \in s, \A y \in s : x >= y PROVE x = k + 1
  <2>1. x >= k + 1 /\ x <= k + 1 /\ x \in Nat BY <1>2
  <2> QED BY <2>1
<1> QED BY <1>1, <1>2 DEF Max

LEMMA PackBodyStep ==
    ASSUME NEW packets, NEW k \in Nat, NEW g, g = PackBody(packets, k, g)
    PROVE  \E h : h = PackBody(packets, k + 1, h)
<1> DEFINE h == [s \in SUBSET (1..k + 1) |->
                    IF k + 1 \in s THEN PackTo(g[s \ {k + 1}], packets[k + 1]) ELSE g[s]]
           value(s) == IF s = {} THEN Start ELSE PackTo(h[s \ {Max(s)}], packets[Max(s)])
<1>1. /\ \A s \in SUBSET (1..k + 1) : k + 1 \in s =>
            h[s] = PackTo(g[s \ {k + 1}], packets[k + 1])
      /\ \A s \in SUBSET (1..k + 1) : k + 1 \notin s => h[s] = g[s]
      /\ h = [s \in SUBSET (1..k + 1) |-> h[s]]
  OBVIOUS
<1>2. \A s \in SUBSET (1..k) :
        g[s] = IF s = {} THEN Start ELSE PackTo(g[s \ {Max(s)}], packets[Max(s)])
  BY DEF PackBody
<1>3. \A s \in SUBSET (1..k + 1) : s \ {k + 1} \in SUBSET (1..k) OBVIOUS
<1>4. \A s \in SUBSET (1..k) : s \in SUBSET (1..k + 1) /\ k + 1 \notin s OBVIOUS
<1> HIDE DEF h
<1>5. ASSUME NEW s \in SUBSET (1..k + 1) PROVE h[s] = value(s)
  <2>1. CASE k + 1 \in s
    <3>1. Max(s) = k + 1 /\ s # {} BY <2>1, MaxIsLast
    <3>2. h[s \ {k + 1}] = g[s \ {k + 1}] BY <1>1, <1>3, <1>4
    <3> QED BY <1>1, <2>1, <3>1, <3>2
  <2>2. CASE k + 1 \notin s
    <3>1. s \in SUBSET (1..k) /\ h[s] = g[s] BY <1>1, <1>3, <2>2
    <3>2. s \ {Max(s)} \in SUBSET (1..k) BY <3>1
    <3>3. h[s \ {Max(s)}] = g[s \ {Max(s)}] BY <1>1, <1>4, <3>2
    <3> QED BY <1>2, <3>1, <3>3
  <2> QED BY <2>1, <2>2
<1>6. h = [s \in SUBSET (1..k + 1) |-> value(s)] BY <1>1, <1>5
<1> QED BY <1>6 DEF PackBody

LEMMA PackBodyExists ==
    ASSUME NEW packets, NEW n \in Nat
    PROVE  \E g : g = PackBody(packets, n, g)
<1> DEFINE T == {k \in 0..n : \E g : g = PackBody(packets, k, g)}
<1>1. 0 \in T
  <2> DEFINE g == [s \in SUBSET (1..0) |-> Start]
  <2>1. \A s \in SUBSET (1..0) : s = {} OBVIOUS
  <2>2. g = PackBody(packets, 0, g) BY <2>1 DEF PackBody
  <2> HIDE DEF g
  <2> QED BY <2>2
<1>2. ASSUME NEW k \in 0..n, k \in T, k < n PROVE k + 1 \in T
  <2>1. k \in Nat /\ k + 1 \in 0..n BY <1>2
  <2>2. \E h : h = PackBody(packets, k + 1, h) BY <1>2, <2>1, PackBodyStep
  <2> QED BY <2>1, <2>2
<1> HIDE DEF T
<1>3. \A k \in 0..n : k \in T BY <1>1, <1>2, Induct
<1>4. n \in T BY <1>3
<1> QED BY <1>4 DEF T

\* What is in the buffers after n packets.
Packed(s, packets, n) ==
    /\ s[1] \in Seq(Seq(Packets)) /\ s[2] \in Seq(Packets)
    /\ FlattenSeq(Append(s[1], s[2])) = SubSeq(packets, 1, n)

LEMMA FoldPacks ==
    ASSUME NEW packets \in Seq(Packets), NEW g, g = PackBody(packets, Len(packets), g)
    PROVE  Packed(g[1..Len(packets)], packets, Len(packets))
<1> DEFINE N == Len(packets)
           T == {n \in 0..N : Packed(g[1..n], packets, n)}
<1>0. N \in Nat OBVIOUS
<1>1. \A s \in SUBSET (1..N) :
        g[s] = IF s = {} THEN Start ELSE PackTo(g[s \ {Max(s)}], packets[Max(s)])
  BY DEF PackBody
<1>2. 0 \in T
  <2>1. 1..0 = {} /\ {} \in SUBSET (1..N) OBVIOUS
  <2>2. g[1..0] = Start BY <1>1, <2>1
  <2>3. Start[1] = <<>> /\ Start[2] = <<>> BY DEF Start
  <2>4. <<>> \in Seq(Seq(Packets)) /\ <<>> \in Seq(Packets) OBVIOUS
  <2>5. Append(<<>>, <<>>) = <<<<>>>> /\ SubSeq(packets, 1, 0) = <<>> OBVIOUS
  <2>6. FlattenSeq(<<<<>>>>) = <<>> BY <2>4, FlattenOne
  <2>7. Packed(g[1..0], packets, 0) BY <2>2, <2>3, <2>4, <2>5, <2>6 DEF Packed
  <2> QED BY <1>0, <2>7
<1>3. ASSUME NEW n \in 0..N, n \in T, n < N PROVE n + 1 \in T
  <2>1. n \in Nat /\ n + 1 \in 1..N /\ n + 1 \in 0..N BY <1>0, <1>3
  <2>2. /\ 1..n + 1 \in SUBSET (1..N) /\ 1..n + 1 \in SUBSET (1..n + 1)
        /\ n + 1 \in 1..n + 1 /\ 1..n + 1 # {}
        /\ (1..n + 1) \ {n + 1} = 1..n
    <3> HIDE DEF N
    <3>1. 1..n + 1 \in SUBSET (1..N) /\ n + 1 \in 1..n + 1 BY <1>0, <2>1
    <3>2. (1..n + 1) \ {n + 1} = 1..n BY <2>1
    <3> QED BY <3>1, <3>2
  <2>3. Max(1..n + 1) = n + 1 BY <2>1, <2>2, MaxIsLast
  <2>4. g[1..n + 1] = PackTo(g[1..n], packets[n + 1]) BY <1>1, <2>2, <2>3
  <2>5. Packed(g[1..n], packets, n) BY <1>3
  <2>6. packets[n + 1] \in Packets BY <2>1
  <2> DEFINE s == g[1..n]  p == packets[n + 1]
  <2>7. /\ PackTo(s, p)[1] \in Seq(Seq(Packets)) /\ PackTo(s, p)[2] \in Seq(Packets)
        /\ FlattenSeq(Append(PackTo(s, p)[1], PackTo(s, p)[2])) = SubSeq(packets, 1, n) \o <<p>>
    <3>1. /\ s[1] \in Seq(Seq(Packets)) /\ s[2] \in Seq(Packets) /\ p \in Packets
          /\ FlattenSeq(Append(s[1], s[2])) = SubSeq(packets, 1, n)
      BY <2>5, <2>6 DEF Packed
    <3> HIDE DEF s, p
    <3> QED BY <3>1, PackKeeps
  <2>8. SubSeq(packets, 1, n) \o <<p>> = SubSeq(packets, 1, n + 1) BY <1>0, <2>1
  <2>9. Packed(g[1..n + 1], packets, n + 1)
    <3> HIDE DEF s, p
    <3>1. g[1..n + 1] = PackTo(s, p) BY <2>4 DEF s, p
    <3> QED BY <2>7, <2>8, <3>1 DEF Packed
  <2> QED BY <2>1, <2>9
<1> HIDE DEF T
<1>4. \A n \in 0..N : n \in T BY <1>0, <1>2, <1>3, Induct
<1>5. N \in T BY <1>0, <1>4
<1> QED BY <1>5 DEF T

\* The buffers hold exactly the packets, in their order.
LEMMA BatchedKeeps ==
    ASSUME NEW packets \in Seq(Packets)
    PROVE  /\ Batched(packets) \in Seq(Seq(Packets))
           /\ FlattenSeq(Batched(packets)) = packets
<1> DEFINE N == Len(packets)
           g == CHOOSE f : f = PackBody(packets, N, f)
           r == g[1..N]
<1>1. N \in Nat /\ DOMAIN packets = 1..N OBVIOUS
<1>2. g = PackBody(packets, N, g) BY <1>1, PackBodyExists
<1>3. Batched(packets) = IF r[2] = <<>> THEN r[1] ELSE Append(r[1], r[2])
  BY <1>1 DEF Batched, FoldLeft, MapThenFoldSet, PackBody, PackTo, Start
<1> HIDE DEF g
<1>4. Packed(g[1..N], packets, N) BY <1>2, FoldPacks
<1> HIDE DEF r
<1>5. r[1] \in Seq(Seq(Packets)) /\ r[2] \in Seq(Packets)
  BY <1>4 DEF r, Packed
<1>6. FlattenSeq(Append(r[1], r[2])) = packets
  <2>1. SubSeq(packets, 1, N) = packets OBVIOUS
  <2> QED BY <1>4, <2>1 DEF r, Packed
<1>7. CASE r[2] = <<>>
  <2>1. FlattenSeq(Append(r[1], r[2])) = FlattenSeq(r[1]) \o r[2] BY <1>5, FlattenAppend
  <2>2. FlattenSeq(r[1]) \in Seq(Packets) BY <1>5, FlattenType
  <2>3. FlattenSeq(r[1]) \o <<>> = FlattenSeq(r[1]) BY <2>2
  <2> QED BY <1>3, <1>5, <1>6, <1>7, <2>1, <2>3
<1>8. CASE r[2] # <<>>
  <2>1. Append(r[1], r[2]) \in Seq(Seq(Packets)) BY <1>5
  <2> QED BY <1>3, <1>6, <1>8, <2>1
<1> QED BY <1>7, <1>8

-----------------------------------------------------------------------------
(* The inductive invariant.                                                  *)

Types ==
    /\ sending \subseteq Packets /\ lost \subseteq Packets
    /\ bufferQueue \in Seq(Packets) /\ writeQueue \in Seq(Seq(Packets))
    /\ wire \in Seq(Packets) /\ accepted \in Seq(Packets) /\ promised \in Seq(Packets)
    /\ pc \in {"idle", "base", "handle", "removed"}
    /\ isWriting \in BOOLEAN /\ reading \in BOOLEAN /\ closing \in BOOLEAN
    /\ closed \in BOOLEAN /\ broken \in BOOLEAN

\* What has left _bufferQueue for the buffers or the kernel.
Taken == wire \o FlattenSeq(writeQueue)

Begins(s, t) == \E r \in Seq(Packets) : t = s \o r

\* What was promised has been taken already, or will be by the next Update, before
\* anything can be written.
PromiseTaken ==
    lost = {} => \/ Begins(promised, Taken)
                 \/ pc = "idle" /\ ~isWriting /\ Begins(promised, accepted)

IInv == Types /\ InOrder /\ OneWriter /\ PromiseTaken

LEMMA BeginsMore ==
    ASSUME NEW s \in Seq(Packets), NEW t \in Seq(Packets), NEW u \in Seq(Packets), Begins(s, t)
    PROVE  Begins(s, t \o u)
<1>1. PICK r \in Seq(Packets) : t = s \o r BY DEF Begins
<1>2. (s \o r) \o u = s \o (r \o u) /\ r \o u \in Seq(Packets) BY Assoc
<1> QED BY <1>1, <1>2 DEF Begins

LEMMA BeginsIsPrefix ==
    ASSUME NEW s \in Seq(Packets), NEW t \in Seq(Packets), Begins(s, t)
    PROVE  IsPrefix(s, t)
<1>1. PICK r \in Seq(Packets) : t = s \o r BY DEF Begins
<1>2. Len(s) \in Nat /\ Len(t) \in Nat /\ Len(s) <= Len(t) BY <1>1
<1>3. SubSeq(s, 1, Len(s)) = s OBVIOUS
<1>4. SubSeq(s \o r, 1, Len(s)) = s BY SubSeqOfConcat1
<1> QED BY <1>1, <1>2, <1>3, <1>4 DEF IsPrefix

\* The queue is its first buffer and the others.
LEMMA HeadAndTail ==
    ASSUME NEW q \in Seq(Seq(Packets)), q # <<>>
    PROVE  /\ Head(q) \in Seq(Packets) /\ Tail(q) \in Seq(Seq(Packets))
           /\ q = <<Head(q)>> \o Tail(q)
           /\ FlattenSeq(q) = Head(q) \o FlattenSeq(Tail(q))
           /\ \A b \in Seq(Packets) : [q EXCEPT ![1] = b] = <<b>> \o Tail(q)
<1>1. Head(q) \in Seq(Packets) /\ Tail(q) \in Seq(Seq(Packets)) OBVIOUS
<1>2. q = <<Head(q)>> \o Tail(q) OBVIOUS
<1>3. FlattenSeq(q) = Head(q) \o FlattenSeq(Tail(q)) BY <1>1, <1>2, FlattenCons
<1>4. ASSUME NEW b \in Seq(Packets) PROVE [q EXCEPT ![1] = b] = <<b>> \o Tail(q)
  <2> DEFINE e == [q EXCEPT ![1] = b]  c == <<b>> \o Tail(q)
  <2>1. e \in Seq(Seq(Packets)) /\ Len(e) = Len(q) /\ Len(q) \in Nat BY ExceptSeq
  <2>2. c \in Seq(Seq(Packets)) /\ Len(c) = Len(q) BY <1>1
  <2>3. ASSUME NEW i \in 1..Len(q) PROVE e[i] = c[i]
    <3>1. CASE i = 1 BY <3>1
    <3>2. CASE i # 1
      <4>1. e[i] = q[i] /\ c[i] = Tail(q)[i - 1] /\ Tail(q)[i - 1] = q[i] BY <2>1, <3>2
      <4> QED BY <4>1
    <3> QED BY <3>1, <3>2
  <2> HIDE DEF e, c
  <2>4. e = c BY <2>1, <2>2, <2>3, SeqEqual
  <2> QED BY <2>4 DEF e, c
<1> QED BY <1>1, <1>2, <1>3, <1>4

LEMMA EmptyToSet == ASSUME NEW s \in Seq(Packets), ToSet(s) = {} PROVE s = <<>>
<1>1. Len(s) \in Nat /\ DOMAIN s = 1..Len(s) OBVIOUS
<1>2. \A i \in DOMAIN s : s[i] \in ToSet(s) BY DEF ToSet
<1>3. 1 \notin DOMAIN s BY <1>2
<1>4. Len(s) = 0 BY <1>1, <1>3
<1> QED BY <1>4

\* What is written of a buffer and what is left of it.
LEMMA SplitAt ==
    ASSUME NEW h \in Seq(Packets), NEW n \in Nat, n < Len(h)
    PROVE  /\ SubSeq(h, 1, n) \in Seq(Packets) /\ SubSeq(h, n + 1, Len(h)) \in Seq(Packets)
           /\ SubSeq(h, 1, n) \o SubSeq(h, n + 1, Len(h)) = h
<1>1. Len(h) \in Nat OBVIOUS
<1>2. SubSeq(h, 1, n) \in Seq(Packets) /\ SubSeq(h, n + 1, Len(h)) \in Seq(Packets)
  BY <1>1
<1>3. SubSeq(h, 1, n) \o SubSeq(h, n + 1, Len(h)) = SubSeq(h, 1, Len(h))
  <2> DEFINE a == SubSeq(h, 1, n)  b == SubSeq(h, n + 1, Len(h))
  <2>0. /\ a \in Seq(Packets) /\ Len(a) = n /\ b \in Seq(Packets) /\ Len(b) = Len(h) - n
        /\ \A i \in 1..n : a[i] = h[i]
        /\ \A i \in 1..(Len(h) - n) : b[i] = h[n + i]
    BY <1>1, <1>2
  <2>4. SubSeq(h, 1, Len(h)) = h OBVIOUS
  <2> HIDE DEF a, b
  <2>1. a \o b \in Seq(Packets) BY <2>0
  <2>2. Len(a \o b) = Len(h)
    <3>0. a \in Seq(Packets) /\ b \in Seq(Packets) BY <2>0
    <3>1. Len(a \o b) = Len(a) + Len(b) BY <3>0
    <3>2. n + (Len(h) - n) = Len(h) BY <1>1
    <3> QED BY <2>0, <3>1, <3>2
  <2>3. ASSUME NEW i \in 1..Len(h) PROVE (a \o b)[i] = h[i]
    <3>0. i \in Nat /\ (i <= n \/ i > n) BY <1>1
    <3>1. CASE i <= n
      <4>1. (a \o b)[i] = a[i] BY <1>1, <2>0, <3>0, <3>1
      <4> QED BY <2>0, <3>0, <3>1, <4>1
    <3>2. CASE i > n
      <4>1. (a \o b)[i] = b[i - n] BY <1>1, <2>0, <3>0, <3>2
      <4>2. i - n \in 1..(Len(h) - n) /\ n + (i - n) = i BY <1>1, <3>0, <3>2
      <4> QED BY <2>0, <4>1, <4>2
    <3> QED BY <3>0, <3>1, <3>2
  <2>5. a \o b = h BY <2>1, <2>2, <2>3, SeqEqual
  <2> QED BY <2>4, <2>5 DEF a, b
<1>4. SubSeq(h, 1, Len(h)) = h OBVIOUS
<1> QED BY <1>2, <1>3, <1>4

\* Every call of write_some moves what it takes from the buffers to the wire, or drops
\* it, and a write stays pending only while there is a buffer.
LEMMA WritesKeep ==
    ASSUME Types, NothingToWrite \/ WriteAll \/ WriteFails \/ \E n \in Nat : WriteSome(n)
    PROVE  /\ wire' \in Seq(Packets) /\ writeQueue' \in Seq(Seq(Packets))
           /\ lost' \subseteq Packets /\ isWriting' \in BOOLEAN /\ closed' \in BOOLEAN
           /\ isWriting' => writeQueue' # <<>>
           /\ lost' = {} => lost = {} /\ Taken' = Taken
           /\ ~closed /\ closed' => writeQueue' = <<>>
<1>1. wire \in Seq(Packets) /\ writeQueue \in Seq(Seq(Packets)) /\ lost \subseteq Packets
  BY DEF Types
<1> DEFINE h == Head(writeQueue)  t == Tail(writeQueue)
<1>2. ASSUME writeQueue # <<>>
      PROVE  /\ h \in Seq(Packets) /\ t \in Seq(Seq(Packets)) /\ FlattenSeq(t) \in Seq(Packets)
             /\ FlattenSeq(writeQueue) = h \o FlattenSeq(t)
             /\ \A b \in Seq(Packets) : [writeQueue EXCEPT ![1] = b] = <<b>> \o t
  BY <1>1, <1>2, HeadAndTail, FlattenType
<1>3. CASE NothingToWrite
  BY <1>1, <1>3 DEF NothingToWrite, Taken, Types
<1>4. CASE WriteAll
  <2>1. /\ writeQueue # <<>> /\ wire' = wire \o h /\ writeQueue' = t
        /\ closed' = (closed \/ (closing /\ t = <<>>)) /\ ~isWriting' /\ lost' = lost
    BY <1>4 DEF WriteAll, PopBuffer, Writable
  <2>2. wire \o (h \o FlattenSeq(t)) = (wire \o h) \o FlattenSeq(t)
    <3> DEFINE f == FlattenSeq(t)
    <3>1. h \in Seq(Packets) /\ f \in Seq(Packets) BY <1>2, <2>1
    <3> HIDE DEF h, f
    <3> QED BY <1>1, <3>1, Assoc DEF f
  <2>3. wire \o h \in Seq(Packets) BY <1>1, <1>2, <2>1
  <2> HIDE DEF h, t
  <2>4. Taken' = Taken BY <1>2, <2>1, <2>2 DEF Taken
  <2>5. isWriting' \in BOOLEAN BY <1>4 DEF WriteAll
  <2> QED BY <1>1, <1>2, <2>1, <2>3, <2>4, <2>5
<1>5. CASE WriteFails
  <2>1. /\ writeQueue # <<>> /\ wire' = wire /\ writeQueue' = t /\ lost' = lost \cup ToSet(h)
        /\ closed' = (closed \/ (closing /\ t = <<>>)) /\ ~isWriting'
    BY <1>5 DEF WriteFails, PopBuffer
  <2>2. ToSet(h) \subseteq Packets BY <1>2, <2>1 DEF ToSet
  <2>3. ASSUME lost' = {} PROVE lost = {} /\ Taken' = Taken
    <3>1. lost = {} /\ ToSet(h) = {} BY <2>1, <2>3
    <3>2. h = <<>> BY <1>2, <2>1, <3>1, EmptyToSet
    <3>3. <<>> \o FlattenSeq(t) = FlattenSeq(t) BY <1>2, <2>1
    <3> HIDE DEF h, t
    <3> QED BY <1>2, <2>1, <3>1, <3>2, <3>3 DEF Taken
  <2>4. isWriting' \in BOOLEAN BY <1>5 DEF WriteFails
  <2> HIDE DEF h, t
  <2> QED BY <1>1, <1>2, <2>1, <2>2, <2>3, <2>4
<1>6. ASSUME NEW n \in Nat, WriteSome(n)
      PROVE  /\ wire' \in Seq(Packets) /\ writeQueue' \in Seq(Seq(Packets))
             /\ writeQueue' # <<>> /\ Taken' = Taken
             /\ isWriting' = TRUE /\ lost' = lost /\ closed' = closed
  <2> DEFINE a == SubSeq(h, 1, n)  b == SubSeq(h, n + 1, Len(h))
  <2>1. /\ writeQueue # <<>> /\ n < Len(h) /\ wire' = wire \o a
        /\ writeQueue' = [writeQueue EXCEPT ![1] = b]
        /\ isWriting' = TRUE /\ lost' = lost /\ closed' = closed
    BY <1>1, <1>6 DEF WriteSome, Writable
  <2>2. a \in Seq(Packets) /\ b \in Seq(Packets) /\ a \o b = h
    <3>1. h \in Seq(Packets) BY <1>2, <2>1
    <3> HIDE DEF h
    <3> QED BY <2>1, <3>1, SplitAt DEF a, b
  <2> HIDE DEF h, t, a, b
  <2>3. writeQueue' = <<b>> \o t BY <1>2, <2>1, <2>2
  <2>4. <<b>> \o t \in Seq(Seq(Packets)) /\ <<b>> \o t # <<>> BY <1>2, <2>1, <2>2
  <2>5. FlattenSeq(<<b>> \o t) = b \o FlattenSeq(t)
    <3>1. b \in Seq(Packets) /\ t \in Seq(Seq(Packets)) BY <1>2, <2>1, <2>2
    <3> QED BY <3>1, FlattenCons
  <2> DEFINE F == FlattenSeq(t)
  <2>6. F \in Seq(Packets) /\ FlattenSeq(writeQueue) = h \o F BY <1>2, <2>1
  <2>7. (wire \o a) \o (b \o F) = wire \o ((a \o b) \o F)
    <3>1. a \in Seq(Packets) /\ b \in Seq(Packets) /\ F \in Seq(Packets) BY <2>2, <2>6
    <3> HIDE DEF F
    <3> DEFINE w == wire
    <3>2. w \in Seq(Packets) BY <1>1
    <3> HIDE DEF w
    <3> DEFINE x == b \o F
    <3>3. x \in Seq(Packets) BY <3>1
    <3>4. a \o x = (a \o b) \o F BY <3>1, Assoc
    <3> HIDE DEF x
    <3>5. w \o (a \o x) = (w \o a) \o x BY <3>1, <3>2, <3>3, SMT
    <3>6. (w \o a) \o (b \o F) = w \o ((a \o b) \o F) BY <3>4, <3>5 DEF x
    <3> QED BY <3>6 DEF w
  <2>8. Taken' = Taken BY <2>1, <2>2, <2>3, <2>5, <2>6, <2>7 DEF Taken
  <2>9. wire \o a \in Seq(Packets) BY <1>1, <2>2
  <2> QED BY <2>1, <2>3, <2>4, <2>8, <2>9
<1>7. ASSUME \E n \in Nat : WriteSome(n)
      PROVE  /\ wire' \in Seq(Packets) /\ writeQueue' \in Seq(Seq(Packets))
             /\ writeQueue' # <<>> /\ Taken' = Taken
             /\ isWriting' = TRUE /\ lost' = lost /\ closed' = closed
  BY <1>6, <1>7
<1>8. ASSUME \E n \in Nat : WriteSome(n)
      PROVE  /\ wire' \in Seq(Packets) /\ writeQueue' \in Seq(Seq(Packets))
             /\ lost' \subseteq Packets /\ isWriting' \in BOOLEAN /\ closed' \in BOOLEAN
             /\ isWriting' => writeQueue' # <<>>
             /\ lost' = {} => lost = {} /\ Taken' = Taken
             /\ ~closed /\ closed' => writeQueue' = <<>>
  <2>1. closed \in BOOLEAN BY DEF Types
  <2>2. closed' \in BOOLEAN /\ isWriting' \in BOOLEAN BY <1>7, <1>8, <2>1
  <2> QED BY <1>1, <1>7, <1>8, <2>2
<1> QED BY <1>3, <1>4, <1>5, <1>8

-----------------------------------------------------------------------------
(* Every step keeps it.                                                      *)

\* The handlers of the network thread write under the same conditions.
LEMMA HandlersWrite ==
    ASSUME Types, UpdateHandle \/ WriteHandler
    PROVE  /\ NothingToWrite \/ WriteAll \/ WriteFails \/ \E n \in Nat : WriteSome(n)
           /\ pc = "handle" \/ isWriting
           /\ UNCHANGED <<sending, bufferQueue, reading, closing, broken, accepted, promised>>
           /\ pc' \in {"idle", "base", "handle", "removed"}
           /\ pc' = "handle" => pc = "handle" /\ ~isWriting'
<1>1. 0..Len(accepted) \subseteq Nat /\ 1..Len(accepted) \subseteq Nat OBVIOUS
<1>2. CASE UpdateHandle BY <1>1, <1>2 DEF UpdateHandle, WriteAll
<1>3. CASE WriteHandler BY <1>1, <1>3 DEF WriteHandler, BetweenUpdates, Types
<1> QED BY <1>2, <1>3

LEMMA HandlersKeep ==
    ASSUME IInv, UpdateHandle \/ WriteHandler
    PROVE  IInv'
<1> USE DEF IInv
<1>1. /\ wire' \in Seq(Packets) /\ writeQueue' \in Seq(Seq(Packets))
      /\ lost' \subseteq Packets /\ isWriting' \in BOOLEAN /\ closed' \in BOOLEAN
      /\ isWriting' => writeQueue' # <<>>
      /\ lost' = {} => lost = {} /\ Taken' = Taken
  BY HandlersWrite, WritesKeep
<1>2. /\ pc = "handle" \/ isWriting
      /\ UNCHANGED <<sending, bufferQueue, reading, closing, broken, accepted, promised>>
      /\ pc' \in {"idle", "base", "handle", "removed"}
      /\ pc' = "handle" => pc = "handle" /\ ~isWriting'
  BY HandlersWrite
<1>3. Types' BY <1>1, <1>2 DEF Types
<1>4. InOrder' BY <1>1, <1>2 DEF InOrder, Taken
<1>5. OneWriter' BY <1>1, <1>2 DEF OneWriter
<1>6. PromiseTaken'
  <2> SUFFICES ASSUME lost' = {} PROVE Begins(promised, Taken)'
    BY DEF PromiseTaken
  <2>1. lost = {} /\ Taken' = Taken /\ promised' = promised BY <1>1, <1>2
  <2>2. Begins(promised, Taken) BY <1>2, <2>1 DEF PromiseTaken
  <2> QED BY <2>1, <2>2 DEF Begins
<1> QED BY <1>3, <1>4, <1>5, <1>6

LEMMA UpdateKeeps ==
    ASSUME IInv, Update
    PROVE  IInv'
<1> DEFINE B == Batched(bufferQueue)
<1>1. Types BY DEF IInv
<1>2. B \in Seq(Seq(Packets)) /\ FlattenSeq(B) = bufferQueue
  BY <1>1, BatchedKeeps DEF Types
<1>3. /\ pc = "idle" /\ pc' = "base" /\ writeQueue' = writeQueue \o B /\ bufferQueue' = <<>>
      /\ UNCHANGED <<sending, wire, lost, isWriting, reading, closing, closed, broken,
                     accepted, promised>>
  BY DEF Update, flagVars
<1> HIDE DEF B
<1>4. writeQueue \o B \in Seq(Seq(Packets)) BY <1>1, <1>2 DEF Types
<1>5. Types' BY <1>1, <1>3, <1>4 DEF Types
<1>6. FlattenSeq(writeQueue \o B) = FlattenSeq(writeQueue) \o bufferQueue
  BY <1>1, <1>2, FlattenConcat DEF Types
<1>7. FlattenSeq(writeQueue) \in Seq(Packets) BY <1>1, FlattenType DEF Types
<1>8. Taken' = Taken \o bufferQueue
  <2> DEFINE F == FlattenSeq(writeQueue)
  <2>1. Taken' = wire \o (F \o bufferQueue) BY <1>3, <1>6 DEF Taken
  <2>2. F \in Seq(Packets) BY <1>7
  <2>3. Taken = wire \o F BY DEF Taken
  <2> HIDE DEF F
  <2>4. wire \o (F \o bufferQueue) = (wire \o F) \o bufferQueue BY <1>1, <2>2, Assoc DEF Types
  <2> QED BY <2>1, <2>3, <2>4
<1>9. Taken \in Seq(Packets) /\ Taken \o bufferQueue \in Seq(Packets)
  BY <1>1, <1>7 DEF Taken, Types
<1>10. InOrder'
  <2> SUFFICES ASSUME lost' = {} PROVE (Taken \o bufferQueue = accepted)'
    BY DEF InOrder, Taken
  <2>1. Taken \o bufferQueue = accepted BY <1>3 DEF IInv, InOrder, Taken
  <2>2. (Taken \o bufferQueue) \o <<>> = Taken \o bufferQueue BY <1>9
  <2> QED BY <1>3, <1>8, <2>1, <2>2
<1>11. OneWriter'
  <2>1. isWriting => writeQueue # <<>> BY DEF IInv, OneWriter
  <2>2. writeQueue # <<>> => writeQueue \o B # <<>> BY <1>1, <1>2 DEF Types
  <2> QED BY <1>3, <2>1, <2>2 DEF OneWriter
<1>12. PromiseTaken'
  <2> SUFFICES ASSUME lost' = {} PROVE Begins(promised, Taken)'
    BY DEF PromiseTaken
  <2>1. lost = {} BY <1>3
  <2>2. Taken \o bufferQueue = accepted BY <2>1 DEF IInv, InOrder, Taken
  <2>3. CASE Begins(promised, Taken)
    <3>1. Begins(promised, Taken \o bufferQueue) BY <1>1, <1>9, <2>3, BeginsMore DEF Types
    <3> QED BY <1>3, <1>8, <3>1 DEF Begins
  <2>4. CASE Begins(promised, accepted) BY <1>3, <1>8, <2>2, <2>4 DEF Begins
  <2> QED BY <2>1, <2>3, <2>4 DEF IInv, PromiseTaken
<1> QED BY <1>5, <1>10, <1>11, <1>12 DEF IInv

LEMMA SendStoreKeeps ==
    ASSUME IInv, NEW p \in Packets, SendStore(p)
    PROVE  IInv'
<1>1. Types BY DEF IInv
<1>2. /\ sending' = sending \ {p} /\ bufferQueue' = Append(bufferQueue, p)
      /\ accepted' = Append(accepted, p)
      /\ UNCHANGED <<writeQueue, wire, lost, isWriting, reading, closing, closed, pc, broken,
                     promised>>
  BY DEF SendStore, flagVars
<1>3. Append(bufferQueue, p) \in Seq(Packets) /\ Append(accepted, p) \in Seq(Packets)
  BY <1>1 DEF Types
<1>4. Types' BY <1>1, <1>2, <1>3 DEF Types
<1>5. FlattenSeq(writeQueue) \in Seq(Packets) BY <1>1, FlattenType DEF Types
<1>6. Taken \in Seq(Packets) BY <1>1, <1>5 DEF Taken, Types
<1>7. Taken' = Taken BY <1>2 DEF Taken
<1>8. InOrder'
  <2> SUFFICES ASSUME lost' = {} PROVE Taken' \o bufferQueue' = accepted'
    BY DEF InOrder, Taken
  <2>1. Taken \o bufferQueue = accepted BY <1>2 DEF IInv, InOrder, Taken
  <2>2. <<p>> \in Seq(Packets) OBVIOUS
  <2>3. /\ Append(bufferQueue, p) = bufferQueue \o <<p>>
        /\ Append(accepted, p) = accepted \o <<p>>
    BY <1>1, AppendIsConcat DEF Types
  <2>4. Taken \o (bufferQueue \o <<p>>) = (Taken \o bufferQueue) \o <<p>>
    BY <1>1, <1>6, <2>2, Assoc DEF Types
  <2> QED BY <1>2, <1>7, <2>1, <2>3, <2>4
<1>9. OneWriter' BY <1>2 DEF IInv, OneWriter
<1>10. PromiseTaken'
  <2>1. CASE lost = {} /\ Begins(promised, Taken)
    BY <1>2, <1>7, <2>1 DEF PromiseTaken, Begins
  <2>2. CASE lost = {} /\ pc = "idle" /\ ~isWriting /\ Begins(promised, accepted)
    <3>1. <<p>> \in Seq(Packets) /\ Append(accepted, p) = accepted \o <<p>>
      BY <1>1, AppendIsConcat DEF Types
    <3>2. Begins(promised, accepted \o <<p>>) BY <1>1, <2>2, <3>1, BeginsMore DEF Types
    <3> QED BY <1>2, <2>2, <3>1, <3>2 DEF PromiseTaken, Begins
  <2>3. CASE lost # {} BY <1>2, <2>3 DEF PromiseTaken
  <2> QED BY <2>1, <2>2, <2>3 DEF IInv, PromiseTaken
<1> QED BY <1>4, <1>8, <1>9, <1>10 DEF IInv

\* The steps that move no packet and start no write.
LEMMA QuietKeeps ==
    ASSUME IInv, UNCHANGED <<queueVars, isWriting, accepted, promised>>,
           sending' \subseteq Packets, pc' \in {"idle", "base", "handle", "removed"},
           reading' \in BOOLEAN, closing' \in BOOLEAN, closed' \in BOOLEAN, broken' \in BOOLEAN,
           pc' = "handle" => ~isWriting, pc = "idle" => pc' = "idle"
    PROVE  IInv'
<1>1. Types' BY DEF IInv, Types, queueVars
<1>2. Taken' = Taken BY DEF Taken, queueVars
<1>3. InOrder' BY DEF IInv, InOrder, queueVars
<1>4. OneWriter' BY DEF IInv, OneWriter, queueVars
<1>5. PromiseTaken' BY <1>2 DEF IInv, PromiseTaken, Begins, queueVars
<1> QED BY <1>1, <1>3, <1>4, <1>5 DEF IInv

LEMMA RejectKeeps ==
    ASSUME IInv, Reject
    PROVE  IInv'
<1>1. /\ pc = "idle" /\ ~isWriting /\ closing' = TRUE /\ promised' = accepted
      /\ UNCHANGED <<sending, bufferQueue, writeQueue, wire, lost, isWriting, reading, closed,
                     pc, broken, accepted>>
  BY DEF Reject, queueVars
<1>2. Types' BY <1>1 DEF IInv, Types
<1>3. InOrder' /\ OneWriter' BY <1>1 DEF IInv, InOrder, OneWriter
<1>4. accepted \in Seq(Packets) /\ <<>> \in Seq(Packets) BY DEF IInv, Types
<1>5. accepted \o <<>> = accepted BY <1>4
<1>6. PromiseTaken' BY <1>1, <1>4, <1>5 DEF PromiseTaken, Begins
<1> QED BY <1>2, <1>3, <1>6 DEF IInv

LEMMA InitHolds == ASSUME Init PROVE IInv
<1>1. Types
  <2>1. <<>> \in Seq(Packets) /\ <<>> \in Seq(Seq(Packets)) OBVIOUS
  <2> QED BY <2>1 DEF Init, Types
<1>2. FlattenSeq(<<>>) = <<>> /\ <<>> \o <<>> = <<>> /\ <<>> \in Seq(Packets)
  BY DEF FlattenSeq
<1>3. Taken = <<>> BY <1>2 DEF Init, Taken
<1>4. InOrder BY <1>2, <1>3 DEF Init, InOrder, Taken
<1>5. OneWriter BY DEF Init, OneWriter
<1>6. PromiseTaken BY <1>2, <1>3 DEF Init, PromiseTaken, Begins
<1> QED BY <1>1, <1>4, <1>5, <1>6 DEF IInv

LEMMA NextKeeps == ASSUME IInv, [Next]_vars PROVE IInv'
<1>1. Types BY DEF IInv
<1>2. ASSUME NEW p \in Packets, SendCheck(p) PROVE IInv'
  BY <1>1, <1>2, QuietKeeps DEF SendCheck, flagVars, Types, IInv, OneWriter
<1>3. ASSUME NEW p \in Packets, SendStore(p) PROVE IInv' BY <1>3, SendStoreKeeps
<1>4. CASE DelayedCloseSocket
  BY <1>1, <1>4, QuietKeeps DEF DelayedCloseSocket, Types, IInv, OneWriter
<1>5. CASE CloseSocket
  BY <1>1, <1>5, QuietKeeps DEF CloseSocket, Types, IInv, OneWriter
<1>6. CASE Break
  BY <1>1, <1>6, QuietKeeps DEF Break, flagVars, Types, IInv, OneWriter
<1>7. CASE Update BY <1>7, UpdateKeeps
<1>8. CASE BaseUpdate
  <2>1. pc = "base" /\ pc' \in {"removed", "idle", "handle"} /\ (pc' = "handle" => ~isWriting)
    BY <1>8 DEF BaseUpdate
  <2> QED BY <1>1, <1>8, <2>1, QuietKeeps DEF BaseUpdate, flagVars, Types
<1>9. CASE UpdateHandle \/ WriteHandler BY <1>9, HandlersKeep
<1>10. CASE ReadHandler
  BY <1>1, <1>10, QuietKeeps DEF ReadHandler, Types, IInv, OneWriter
<1>11. CASE AsyncRead
  BY <1>1, <1>11, QuietKeeps DEF AsyncRead, Types, IInv, OneWriter
<1>12. CASE ReadFails
  BY <1>1, <1>12, QuietKeeps DEF ReadFails, Types, IInv, OneWriter
<1>13. CASE Reject BY <1>13, RejectKeeps
<1>14. CASE UNCHANGED vars
  BY <1>1, <1>14, QuietKeeps DEF vars, flagVars, Types, IInv, OneWriter
<1> QED
  BY <1>2, <1>3, <1>4, <1>5, <1>6, <1>7, <1>8, <1>9, <1>10, <1>11, <1>12, <1>13, <1>14
  DEF Next, Tick

LEMMA InvariantHolds == Spec => []IInv
<1>1. Init => IInv BY InitHolds
<1>2. IInv /\ [Next]_vars => IInv' BY NextKeeps
<1> QED BY <1>1, <1>2, PTL DEF Spec

\* The queues hold packets and buffers of packets, and the flags and the state of the
\* network thread are what the code can set, whatever the interleaving.
THEOREM SocketTypeCorrect == Spec => []Types
<1>1. IInv => Types BY DEF IInv
<1> QED BY <1>1, InvariantHolds, PTL

\* Until a write fails, the packets stored by SendPacket are once and in their order on
\* the wire, in a buffer of _writeQueue or in _bufferQueue: whatever their sizes, no
\* split into buffers and no partial write loses, repeats or reorders one.
THEOREM PacketsStayInOrder == Spec => []InOrder
<1>1. IInv => InOrder BY DEF IInv
<1> QED BY <1>1, InvariantHolds, PTL

\* A pending write always has a buffer to go on with, and the loop of Update does not
\* run meanwhile.
THEOREM OneHandlerWrites == Spec => []OneWriter
<1>1. IInv => OneWriter BY DEF IInv
<1> QED BY <1>1, InvariantHolds, PTL

\* When the queue closes the socket, everything stored before the handler asked for the
\* delayed close is on the wire.
THEOREM DelayedCloseSendsAll == Spec => DelayedCloseDelivers
<1>1. ASSUME IInv, [Next]_vars, writeQueue' # writeQueue, ~closed, closed', lost' = {}
      PROVE  IsPrefix(promised, wire')
  <2>1. Types BY <1>1 DEF IInv
  <2>2. CASE UpdateHandle \/ WriteHandler
    <3>1. /\ wire' \in Seq(Packets) /\ writeQueue' = <<>> /\ lost = {} /\ Taken' = Taken
      BY <1>1, <2>1, <2>2, HandlersWrite, WritesKeep
    <3>2. pc = "handle" \/ isWriting BY <2>1, <2>2, HandlersWrite
    <3>3. Begins(promised, Taken) BY <1>1, <3>1, <3>2 DEF IInv, PromiseTaken
    <3>4. wire' \o <<>> = wire' /\ FlattenSeq(<<>>) = <<>> BY <3>1 DEF FlattenSeq
    <3>5. Taken' = wire' BY <3>1, <3>4 DEF Taken
    <3>6. Begins(promised, wire') BY <3>1, <3>3, <3>5
    <3>7. promised \in Seq(Packets) BY <2>1 DEF Types
    <3> QED BY <3>1, <3>6, <3>7, BeginsIsPrefix
  <2>3. CASE ~(UpdateHandle \/ WriteHandler)
    <3>1. CASE Update BY <1>1, <3>1 DEF Update, flagVars
    <3>2. CASE ~Update
      <4>1. writeQueue' = writeQueue
        BY <1>1, <2>3, <3>2 DEF Next, vars, queueVars, SendCheck, SendStore,
           DelayedCloseSocket, CloseSocket, Break, Tick, BaseUpdate, ReadHandler, AsyncRead,
           ReadFails, Reject
      <4> QED BY <1>1, <4>1
    <3> QED BY <3>1, <3>2
  <2> QED BY <2>2, <2>3
<1>2. IInv /\ [Next]_vars =>
        [writeQueue' # writeQueue /\ ~closed /\ closed' /\ lost' = {} => IsPrefix(promised, wire')]_vars
  BY <1>1
<1> QED BY <1>2, InvariantHolds, PTL DEF Spec, DelayedCloseDelivers
=============================================================================
