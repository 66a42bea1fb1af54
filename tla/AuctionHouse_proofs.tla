------------------------- MODULE AuctionHouse_proofs -------------------------
(***************************************************************************)
(* Types, what the memory shares with the database, the one place of every *)
(* item and the sum of all money, for any players, items, prices and width *)
(* of a word, any lag of the database and any number of crashes.  One      *)
(* invariant carries all of it: every book of the queue is good, and memory *)
(* never knows anything that the last one does not say, but for amounts    *)
(* once one has been cut to 32 bits.                                       *)
(***************************************************************************)
EXTENDS AuctionHouse, SequenceTheorems, NaturalsInduction, WellFoundedInduction,
        FiniteSetTheorems, TLAPS

-----------------------------------------------------------------------------
(* What a database must be like whenever the server may stop.              *)

\* No two mails share an id, and only a player's letter is paid on delivery.
MailsGood(mails, next) ==
    /\ \A m \in mails : m.id < next /\ (m.cod > 0 => m.from \in Players)
    /\ \A m, n \in mails : m.id = n.id => m = n

AuctionsGood(entries, next) ==
    /\ \A a \in entries : a.id < next
    /\ \A a, c \in entries : a.id = c.id => a = c

\* No item is in two places, and what is gone is nowhere.
Alone(bags, mails, entries, gone) ==
    /\ \A p, q \in Players : \A i \in bags[p] : i \in bags[q] => p = q
    /\ \A m, n \in mails : m.item = n.item /\ m.item # None => m = n
    /\ \A a, c \in entries : a.item = c.item => a = c
    /\ \A p \in Players, m \in mails : m.item \notin bags[p]
    /\ \A p \in Players, a \in entries : a.item \notin bags[p]
    /\ \A m \in mails, a \in entries : m.item # a.item
    /\ \A p \in Players : \A i \in bags[p] : i \notin gone
    /\ \A m \in mails : m.item \notin gone
    /\ \A a \in entries : a.item \notin gone

\* Every item is somewhere, or gone.
Somewhere(bags, mails, entries, gone) ==
    \A i \in Items : \/ \E p \in Players : i \in bags[p]
                     \/ \E m \in mails : m.item = i
                     \/ \E a \in entries : a.item = i
                     \/ i \in gone

\* The bids are those of bidders, and no money has come or gone.
BidsGood(entries) == \A a \in entries : a.bidder # a.owner /\ (a.bidder = None => a.bid = 0)

Balanced(money, mails, entries, sunk) ==
    /\ IsFiniteSet(mails) /\ IsFiniteSet(entries) /\ BidsGood(entries)
    /\ Total(money) + Posted(mails) + Staked(entries) + sunk = Gold * Cardinality(Players)

BookGood(b, mailNext, auctionNext) ==
    /\ MailsGood(b.mails, mailNext)
    /\ AuctionsGood(b.auctions, auctionNext)
    /\ Alone(b.bag, b.mails, b.auctions, b.discarded)
    /\ LogTrade => Somewhere(b.bag, b.mails, b.auctions, b.discarded)

BooksGood == \A i \in DOMAIN durable : BookGood(durable[i], nextMail, nextAuction)

BookBalanced(b) == Balanced(b.gold, b.mails, b.auctions, b.sunk)

\* An amount that was cut unbalances every book after it.
BooksBalanced == ~truncated => \A i \in DOMAIN durable : BookBalanced(durable[i])

-----------------------------------------------------------------------------
(* What the memory has in common with the database that will be.           *)

MailsOf(b, p) == {m \in b.mails : m.to = p}

\* x is m, or m but for its amounts.
SameMail(x, m) == x.id = m.id /\ x.to = m.to /\ x.from = m.from /\ x.item = m.item
SameSale(c, a) ==
    /\ c.id = a.id /\ c.item = a.item /\ c.owner = a.owner /\ c.bidder = a.bidder
    /\ c.buyout = a.buyout

\* A mail in memory is one of those of the database.
Shown(m, mails, exact) == \E x \in mails : SameMail(x, m) /\ (exact => x = m)

\* The auctions in memory are those of the database.
Agree(mem, entries, exact) ==
    /\ \A a \in mem : \E c \in entries : SameSale(c, a) /\ (exact => c = a)
    /\ \A c \in entries : \E a \in mem : SameSale(c, a) /\ (exact => c = a)
    /\ \A a, c \in mem : a.id = c.id => a = c

OnlineSaved ==
    \A p \in online : bag[p] = Last.bag[p] /\ (~truncated => gold[p] = Last.gold[p])

\* A player in the world who has not loaded the mails yet: whatever has been
\* taken from them is in the database already.
UnloadedCurrent ==
    \A p \in online \ loaded : \A i \in DOMAIN durable :
        MailsOf(durable[i], p) \subseteq Last.mails

\* A player who logs in: nothing behind the query concerns him.
WaitingCurrent ==
    \A p \in waiting :
        /\ p \notin online /\ ahead[p] < Len(durable)
        /\ \A i \in DOMAIN durable : i > ahead[p] =>
            /\ durable[i].gold[p] = Last.gold[p] /\ durable[i].bag[p] = Last.bag[p]
            /\ MailsOf(durable[i], p) \subseteq Last.mails

BoxSaved ==
    \A p \in Players :
        /\ \A m \in box[p] : /\ m.to = p /\ (m.cod > 0 => m.from \in Players)
                             /\ Shown(m, Last.mails, ~truncated)
        /\ p \notin loaded => box[p] = {}

HouseSaved ==
    /\ Agree(auctions, Last.auctions, ~truncated)
    /\ \A a \in auctions : a.item \in aitems

IInv ==
    /\ TypeOK /\ BooksGood /\ BooksBalanced /\ OnlineSaved /\ UnloadedCurrent
    /\ WaitingCurrent /\ BoxSaved /\ HouseSaved

-----------------------------------------------------------------------------
(* Sums over finite sets.  The induction over the sizes of the subsets is  *)
(* by the least counterexample: < is well founded.                         *)

\* A set of natural numbers that is not empty has a least element.
LEMMA Least ==
  ASSUME NEW T \in SUBSET Nat, T # {}
  PROVE  \E n \in T : \A m \in T : n <= m
<1> DEFINE R == OpToRel(<, Nat)
<1>1. IsWellFoundedOn(R, Nat)
  BY NatLessThanWellFounded
<1>2. \A m, n \in Nat : m < n => <<m, n>> \in R
  BY DEF OpToRel
<1> HIDE DEF R
<1>3. PICK n \in T : \A m \in T : ~ (<<m, n>> \in R)
  BY <1>1, WFMin
<1>4. ASSUME NEW m \in T PROVE n <= m
  <2>1. m \in Nat /\ n \in Nat
    OBVIOUS
  <2>2. ~(m < n)
    BY <1>2, <1>3, <2>1
  <2> QED BY <2>1, <2>2
<1> QED BY <1>4

\* A set that holds 0 and the successor, up to N, of what it holds, holds 0..N.
LEMMA Induct ==
  ASSUME NEW N \in Nat, NEW T, 0 \in T,
         \A n \in 0..N : n \in T /\ n < N => n + 1 \in T
  PROVE  \A n \in 0..N : n \in T
<1> SUFFICES ASSUME NEW k \in 0..N, k \notin T PROVE FALSE
  OBVIOUS
<1> DEFINE Bad == {n \in 0..N : n \notin T}
<1>1. Bad \in SUBSET Nat /\ Bad # {}
  OBVIOUS
<1>2. PICK n \in Bad : \A m \in Bad : n <= m
  BY <1>1, Least
<1>3. n # 0 /\ n - 1 \in 0..N /\ n - 1 < N
  BY <1>2
<1>4. n - 1 \notin Bad
  BY <1>2, <1>3
<1>5. (n - 1) + 1 \in T
  BY <1>3, <1>4
<1> QED BY <1>2, <1>5

\* g[s] is the sum of f over s, for the subsets s of S.
SumBody(f, S, g) ==
  [s \in SUBSET S |-> IF s = {} THEN 0
                      ELSE LET x == CHOOSE y \in s : TRUE IN f[x] + g[s \ {x}]]

\* The sizes of the subsets of a finite set.
LEMMA Sizes ==
  ASSUME NEW S, IsFiniteSet(S)
  PROVE  /\ Cardinality(S) \in Nat
         /\ \A s \in SUBSET S : /\ IsFiniteSet(s) /\ Cardinality(s) \in 0..Cardinality(S)
                                /\ (Cardinality(s) = 0 <=> s = {})
                                /\ \A x \in s : /\ s \ {x} \in SUBSET S
                                                /\ Cardinality(s \ {x}) = Cardinality(s) - 1
<1>1. Cardinality(S) \in Nat
  BY FS_CardinalityType
<1>2. ASSUME NEW s \in SUBSET S
      PROVE  /\ IsFiniteSet(s) /\ Cardinality(s) \in 0..Cardinality(S)
             /\ (Cardinality(s) = 0 <=> s = {})
  <2>1. IsFiniteSet(s) /\ Cardinality(s) <= Cardinality(S)
    BY FS_Subset
  <2>2. Cardinality(s) \in Nat
    BY <2>1, FS_CardinalityType
  <2>3. Cardinality(s) = 0 <=> s = {}
    BY <2>1, FS_EmptySet
  <2> QED BY <1>1, <2>1, <2>2, <2>3
<1>3. ASSUME NEW s \in SUBSET S, NEW x \in s
      PROVE  s \ {x} \in SUBSET S /\ Cardinality(s \ {x}) = Cardinality(s) - 1
  BY <1>2, FS_RemoveElement
<1> QED BY <1>1, <1>2, <1>3

\* The recursion has a solution,
LEMMA SumExists ==
  ASSUME NEW S, IsFiniteSet(S), NEW f \in [S -> Int]
  PROVE  \E g \in [SUBSET S -> Int] : g = SumBody(f, S, g)
<1> DEFINE N == Cardinality(S)
           Right(g, n) == \A s \in SUBSET S : Cardinality(s) <= n =>
               g[s] = IF s = {} THEN 0
                      ELSE LET x == CHOOSE y \in s : TRUE IN f[x] + g[s \ {x}]
           T == {n \in 0..N : \E g \in [SUBSET S -> Int] : Right(g, n)}
<1>1. N \in Nat
  BY Sizes
<1>2. \A s \in SUBSET S : Cardinality(s) \in 0..N /\ (Cardinality(s) = 0 <=> s = {})
  BY Sizes
<1>3. \A s \in SUBSET S : \A x \in s : s \ {x} \in SUBSET S /\ Cardinality(s \ {x}) = Cardinality(s) - 1
  BY Sizes
<1> HIDE DEF N
<1>4. 0 \in T
  <2> DEFINE g == [s \in SUBSET S |-> 0]
  <2>1. g \in [SUBSET S -> Int]
    OBVIOUS
  <2>2. \A s \in SUBSET S : Cardinality(s) <= 0 => s = {}
    BY <1>1, <1>2
  <2>3. Right(g, 0)
    BY <2>2
  <2>4. 0 \in 0..N
    BY <1>1
  <2> HIDE DEF g, Right
  <2> QED BY <2>1, <2>3, <2>4
<1>5. ASSUME NEW n \in 0..N, n \in T, n < N PROVE n + 1 \in T
  <2>1. PICK g \in [SUBSET S -> Int] : Right(g, n)
    BY <1>5
  <2> DEFINE h == [s \in SUBSET S |->
                     IF s = {} THEN 0
                     ELSE LET x == CHOOSE y \in s : TRUE IN f[x] + g[s \ {x}]]
  <2>2. h \in [SUBSET S -> Int]
    <3> SUFFICES ASSUME NEW s \in SUBSET S
                 PROVE  (IF s = {} THEN 0
                         ELSE LET x == CHOOSE y \in s : TRUE IN f[x] + g[s \ {x}]) \in Int
      OBVIOUS
    <3>1. CASE s = {}
      BY <3>1
    <3>2. CASE s # {}
      <4> DEFINE x == CHOOSE y \in s : TRUE
      <4>1. x \in s
        BY <3>2
      <4> HIDE DEF x
      <4>2. f[x] \in Int /\ g[s \ {x}] \in Int
        BY <4>1, <2>1
      <4>3. f[x] + g[s \ {x}] \in Int
        BY <4>2
      <4> QED BY <3>2, <4>3 DEF x
    <3> QED BY <3>1, <3>2
  <2>3. \A s \in SUBSET S : Cardinality(s) <= n => h[s] = g[s]
    BY <2>1
  <2>4. ASSUME NEW s \in SUBSET S, Cardinality(s) <= n + 1, s # {}, NEW x \in s
        PROVE  h[s \ {x}] = g[s \ {x}]
    <3>1. s \ {x} \in SUBSET S /\ Cardinality(s \ {x}) = Cardinality(s) - 1
      BY <1>3, <2>4
    <3>2. Cardinality(s \ {x}) <= n
      BY <1>1, <1>2, <2>4, <3>1
    <3> QED BY <2>3, <3>1, <3>2
  <2>5. \A s \in SUBSET S : h[s] = IF s = {} THEN 0
                      ELSE LET x == CHOOSE y \in s : TRUE IN f[x] + g[s \ {x}]
    OBVIOUS
  <2> HIDE DEF h
  <2>6. ASSUME NEW s \in SUBSET S, Cardinality(s) <= n + 1
        PROVE  h[s] = IF s = {} THEN 0
                      ELSE LET x == CHOOSE y \in s : TRUE IN f[x] + h[s \ {x}]
    <3>1. CASE s = {}
      BY <2>5, <3>1
    <3>2. CASE s # {}
      <4> DEFINE x == CHOOSE y \in s : TRUE
      <4>1. x \in s
        BY <3>2
      <4>2. h[s] = f[x] + g[s \ {x}]
        BY <2>5, <3>2
      <4> HIDE DEF x
      <4>3. h[s \ {x}] = g[s \ {x}]
        BY <2>4, <2>6, <3>2, <4>1
      <4>4. h[s] = f[x] + h[s \ {x}]
        BY <4>2, <4>3
      <4> QED BY <3>2, <4>4 DEF x
    <3> QED BY <3>1, <3>2
  <2>7. Right(h, n + 1)
    BY <2>6
  <2>8. n + 1 \in 0..N
    BY <1>1, <1>5
  <2> HIDE DEF Right
  <2> QED BY <2>2, <2>7, <2>8
<1> HIDE DEF T
<1>6. N \in 0..N /\ \A n \in 0..N : n \in T
  BY <1>1, <1>4, <1>5, Induct
<1>7. N \in T
  BY <1>6
<1>8. PICK g \in [SUBSET S -> Int] : Right(g, N)
  BY <1>7 DEF T
<1>9. \A s \in SUBSET S : Cardinality(s) <= N
  BY <1>1, <1>2
<1>10. \A s \in SUBSET S : g[s] = IF s = {} THEN 0
                      ELSE LET x == CHOOSE y \in s : TRUE IN f[x] + g[s \ {x}]
  BY <1>8, <1>9
<1>11. g = SumBody(f, S, g)
  BY <1>8, <1>10 DEF SumBody
<1> QED BY <1>8, <1>11

\* Everything that satisfies the recursion has integers, and any element can be taken
\* out first.
Sums(f, S, g) ==
  /\ g[{}] = 0
  /\ \A s \in SUBSET S : g[s] \in Int /\ \A x \in s : g[s] = f[x] + g[s \ {x}]

LEMMA SumAnyOrder ==
  ASSUME NEW S, IsFiniteSet(S), NEW f \in [S -> Int], NEW g, g = SumBody(f, S, g)
  PROVE  Sums(f, S, g)
<1> DEFINE N == Cardinality(S)
           Good(s) == g[s] \in Int /\ \A x \in s : g[s] = f[x] + g[s \ {x}]
           T == {n \in 0..N : \A s \in SUBSET S : Cardinality(s) <= n => Good(s)}
<1>1. N \in Nat /\ {} \in SUBSET S
  BY Sizes
<1>2. \A s \in SUBSET S : Cardinality(s) \in 0..N /\ (Cardinality(s) = 0 <=> s = {})
  BY Sizes
<1>3. \A s \in SUBSET S : \A x \in s : s \ {x} \in SUBSET S /\ Cardinality(s \ {x}) = Cardinality(s) - 1
  BY Sizes
<1> HIDE DEF N
<1>4. \A s \in SUBSET S : g[s] = IF s = {} THEN 0
                      ELSE LET x == CHOOSE y \in s : TRUE IN f[x] + g[s \ {x}]
  BY DEF SumBody
<1>5. g[{}] = 0
  BY <1>1, <1>4
<1>6. 0 \in T
  <2>1. \A s \in SUBSET S : Cardinality(s) <= 0 => s = {}
    BY <1>1, <1>2
  <2>2. Good({})
    BY <1>5
  <2>3. 0 \in 0..N
    BY <1>1
  <2> HIDE DEF Good
  <2> QED BY <2>1, <2>2, <2>3
<1>7. ASSUME NEW n \in 0..N, n \in T, n < N PROVE n + 1 \in T
  <2>1. \A s \in SUBSET S : Cardinality(s) <= n => Good(s)
    BY <1>7
  <2>2. ASSUME NEW s \in SUBSET S, Cardinality(s) <= n + 1
        PROVE  Good(s)
    <3>1. CASE s = {}
      BY <3>1, <1>5
    <3>2. CASE s # {}
      <4> DEFINE y == CHOOSE z \in s : TRUE
      <4>1. y \in s
        BY <3>2
      <4>2. g[s] = f[y] + g[s \ {y}]
        BY <1>4, <3>2
      <4> HIDE DEF y
      <4>3. ASSUME NEW x \in s
            PROVE  s \ {x} \in SUBSET S /\ Cardinality(s \ {x}) <= n /\ Good(s \ {x})
        <5>1. s \ {x} \in SUBSET S /\ Cardinality(s \ {x}) = Cardinality(s) - 1
          BY <1>3
        <5>2. Cardinality(s) \in Nat
          BY <1>1, <1>2
        <5>3. Cardinality(s \ {x}) <= n
          BY <2>2, <5>1, <5>2
        <5> HIDE DEF Good
        <5> QED BY <2>1, <5>1, <5>3
      <4>4. f[y] \in Int /\ g[s \ {y}] \in Int
        BY <4>1, <4>3
      <4>5. g[s] \in Int
        BY <4>2, <4>4
      <4>6. ASSUME NEW x \in s PROVE g[s] = f[x] + g[s \ {x}]
        <5>1. CASE x = y
          BY <4>2, <5>1
        <5>2. CASE x # y
          <6> DEFINE sx == s \ {x}  sy == s \ {y}  r == sx \ {y}
          <6>1. x \in sy /\ y \in sx /\ sy \ {x} = r
            BY <4>1, <5>2
          <6>2. g[sy] = f[x] + g[sy \ {x}] /\ g[sx] = f[y] + g[r]
            BY <4>1, <4>3, <6>1
          <6>3. r \in SUBSET S /\ Cardinality(r) <= n
            <7>1. sx \in SUBSET S /\ Cardinality(sx) <= n
              BY <4>3
            <7>2. r \in SUBSET S /\ Cardinality(r) = Cardinality(sx) - 1
              BY <7>1, <6>1, <1>3
            <7>3. Cardinality(sx) \in Nat
              BY <7>1, <1>1, <1>2
            <7> HIDE DEF r, sx
            <7> QED BY <7>1, <7>2, <7>3
          <6>4. g[r] \in Int
            BY <2>1, <6>3
          <6>5. f[x] \in Int /\ f[y] \in Int
            BY <4>1
          <6> HIDE DEF r, sx, sy
          <6>6. g[s] = f[y] + (f[x] + g[r])
            BY <4>2, <6>1, <6>2 DEF sy
          <6>7. g[s] = f[x] + (f[y] + g[r])
            BY <6>4, <6>5, <6>6
          <6> QED BY <6>2, <6>7 DEF sx
        <5> QED BY <5>1, <5>2
      <4> QED BY <4>5, <4>6
    <3> QED BY <3>1, <3>2
  <2>3. n + 1 \in 0..N
    BY <1>1, <1>7
  <2> HIDE DEF Good
  <2> QED BY <2>2, <2>3
<1> HIDE DEF T
<1>8. N \in 0..N /\ \A n \in 0..N : n \in T
  BY <1>1, <1>6, <1>7, Induct
<1>9. N \in T
  BY <1>8
<1>10. \A s \in SUBSET S : Cardinality(s) <= N
  BY <1>1, <1>2
<1>11. \A s \in SUBSET S : Good(s)
  BY <1>9, <1>10 DEF T
<1> QED BY <1>5, <1>11 DEF Sums

\* Total is the last of those sums.
LEMMA TotalIs ==
  ASSUME NEW S, IsFiniteSet(S), NEW f \in [S -> Int]
  PROVE  \E g : Sums(f, S, g) /\ Total(f) = g[S]
<1> DEFINE h == CHOOSE g : g = SumBody(f, S, g)
<1>1. \E g : g = SumBody(f, S, g)
  BY SumExists
<1>2. h = SumBody(f, S, h)
  BY <1>1
<1>3. Total(f) = h[S]
  <2>1. DOMAIN f = S
    OBVIOUS
  <2> QED BY <2>1 DEF Total, MapThenSumSet, MapThenFoldSet, SumBody
<1> HIDE DEF h
<1>4. Sums(f, S, h)
  BY <1>2, SumAnyOrder
<1> QED BY <1>3, <1>4

\* The sum over a subset does not depend on the set it is a subset of.
LEMMA SumsAgree ==
  ASSUME NEW S, IsFiniteSet(S), NEW T \in SUBSET S, NEW f, NEW e, NEW g, NEW h,
         Sums(f, S, g), Sums(e, T, h), \A x \in T : e[x] = f[x]
  PROVE  g[T] = h[T]
<1> DEFINE N == Cardinality(T)
           A == {n \in 0..N : \A s \in SUBSET T : Cardinality(s) <= n => g[s] = h[s]}
<1>1. IsFiniteSet(T) /\ \A s \in SUBSET T : s \in SUBSET S
  BY FS_Subset
<1>2. N \in Nat
  BY <1>1, Sizes
<1>3. \A s \in SUBSET T : Cardinality(s) \in 0..N /\ (Cardinality(s) = 0 <=> s = {})
  BY <1>1, Sizes
<1>4. \A s \in SUBSET T : \A x \in s : s \ {x} \in SUBSET T /\ Cardinality(s \ {x}) = Cardinality(s) - 1
  BY <1>1, Sizes
<1> HIDE DEF N
<1>5. 0 \in A
  <2>1. \A s \in SUBSET T : Cardinality(s) <= 0 => s = {}
    BY <1>2, <1>3
  <2>2. g[{}] = h[{}]
    BY DEF Sums
  <2>3. 0 \in 0..N
    BY <1>2
  <2> QED BY <2>1, <2>2, <2>3
<1>6. ASSUME NEW n \in 0..N, n \in A, n < N PROVE n + 1 \in A
  <2>1. ASSUME NEW s \in SUBSET T, Cardinality(s) <= n + 1 PROVE g[s] = h[s]
    <3>1. CASE s = {}
      BY <3>1 DEF Sums
    <3>2. CASE s # {}
      <4>1. PICK x \in s : TRUE
        BY <3>2
      <4> DEFINE r == s \ {x}
      <4>2. g[s] = f[x] + g[r] /\ h[s] = e[x] + h[r]
        BY <1>1 DEF Sums
      <4>3. r \in SUBSET T /\ Cardinality(r) = Cardinality(s) - 1
        BY <1>4
      <4>4. Cardinality(s) \in Nat
        BY <1>2, <1>3
      <4> HIDE DEF r
      <4>5. Cardinality(r) <= n
        BY <2>1, <4>3, <4>4
      <4>6. g[r] = h[r]
        BY <1>6, <4>3, <4>5
      <4>7. e[x] = f[x]
        OBVIOUS
      <4> QED BY <4>2, <4>6, <4>7
    <3> QED BY <3>1, <3>2
  <2>2. n + 1 \in 0..N
    BY <1>2, <1>6
  <2> QED BY <2>1, <2>2
<1> HIDE DEF A
<1>7. N \in 0..N /\ \A n \in 0..N : n \in A
  BY <1>2, <1>5, <1>6, Induct
<1>8. N \in A
  BY <1>7
<1>9. T \in SUBSET T /\ Cardinality(T) <= N
  BY <1>2, <1>3
<1> QED BY <1>8, <1>9 DEF A

\* What a reader needs to know of Total: nothing is 0, and one element can be
\* taken out.
LEMMA TotalOfNothing == ASSUME NEW f, DOMAIN f = {} PROVE Total(f) = 0
<1>1. f = [x \in {} |-> 0] \/ TRUE
  OBVIOUS
<1> DEFINE h == CHOOSE g : g = SumBody(f, {}, g)
<1>2. h = SumBody(f, {}, h)
  <2> DEFINE g == [s \in SUBSET {} |-> 0]
  <2>1. g = SumBody(f, {}, g)
    BY DEF SumBody
  <2> QED BY <2>1
<1>3. Total(f) = h[{}]
  BY DEF Total, MapThenSumSet, MapThenFoldSet, SumBody
<1> HIDE DEF h
<1>4. h[{}] = 0
  BY <1>2 DEF SumBody
<1> QED BY <1>3, <1>4

Rest(f, x) == [y \in DOMAIN f \ {x} |-> f[y]]

LEMMA TotalTakes ==
  ASSUME NEW S, IsFiniteSet(S), NEW f \in [S -> Int], NEW x \in S
  PROVE  /\ Total(f) \in Int /\ Total(Rest(f, x)) \in Int
         /\ Total(f) = f[x] + Total(Rest(f, x))
<1> DEFINE T == S \ {x}
           e == [y \in T |-> f[y]]
<1>1. PICK g : Sums(f, S, g) /\ Total(f) = g[S]
  BY TotalIs
<1>2. T \in SUBSET S /\ S \in SUBSET S /\ e \in [T -> Int] /\ \A y \in T : e[y] = f[y]
  OBVIOUS
<1>3. IsFiniteSet(T)
  BY <1>2, FS_Subset
<1>4. g[S] \in Int /\ g[T] \in Int /\ g[S] = f[x] + g[T]
  BY <1>1, <1>2 DEF Sums
<1> HIDE DEF e, T
<1>5. PICK h : Sums(e, T, h) /\ Total(e) = h[T]
  BY <1>2, <1>3, TotalIs
<1>6. g[T] = h[T]
  BY <1>1, <1>2, <1>5, SumsAgree
<1>7. Total(f) \in Int /\ Total(e) \in Int /\ Total(f) = f[x] + Total(e)
  BY <1>1, <1>4, <1>5, <1>6
<1>8. Rest(f, x) = e
  BY DEF e, T, Rest
<1> QED BY <1>7, <1>8

LEMMA TotalType ==
  ASSUME NEW S, IsFiniteSet(S), NEW f \in [S -> Int]
  PROVE  Total(f) \in Int
<1>1. CASE S = {}
  <2>1. Total(f) = 0
    BY <1>1, TotalOfNothing
  <2> QED BY <2>1
<1>2. CASE S # {}
  <2>1. PICK x \in S : TRUE
    BY <1>2
  <2> QED BY <2>1, TotalTakes
<1> QED BY <1>1, <1>2

\* One value is replaced.
LEMMA TotalPut ==
  ASSUME NEW S, IsFiniteSet(S), NEW f \in [S -> Int], NEW x \in S, NEW v \in Int,
         NEW e \in [S -> Int], e[x] = v, \A y \in S \ {x} : e[y] = f[y]
  PROVE  Total(e) = (Total(f) - f[x]) + v
<1>1. Rest(e, x) = Rest(f, x)
  BY DEF Rest
<1>2. Total(f) = f[x] + Total(Rest(f, x)) /\ Total(Rest(f, x)) \in Int
  BY TotalTakes
<1>3. Total(e) = e[x] + Total(Rest(e, x))
  BY TotalTakes
<1>4. f[x] \in Int
  OBVIOUS
<1> QED BY <1>1, <1>2, <1>3, <1>4

\* Everybody has the same.
LEMMA TotalConst ==
  ASSUME NEW S, IsFiniteSet(S), NEW c \in Nat
  PROVE  Total([x \in S |-> c]) = c * Cardinality(S)
<1> DEFINE f == [x \in S |-> c]
           N == Cardinality(S)
<1>1. f \in [S -> Int]
  OBVIOUS
<1>2. PICK g : Sums(f, S, g) /\ Total(f) = g[S]
  BY <1>1, TotalIs
<1> DEFINE A == {n \in 0..N : \A s \in SUBSET S : Cardinality(s) = n => g[s] = c * n}
<1>3. N \in Nat
  BY Sizes
<1>4. \A s \in SUBSET S : Cardinality(s) \in 0..N /\ (Cardinality(s) = 0 <=> s = {})
  BY Sizes
<1>5. \A s \in SUBSET S : \A x \in s : s \ {x} \in SUBSET S /\ Cardinality(s \ {x}) = Cardinality(s) - 1
  BY Sizes
<1>6. \A x \in S : f[x] = c
  OBVIOUS
<1>12. S \in SUBSET S /\ Cardinality(S) = N
  OBVIOUS
<1> HIDE DEF N, f
<1>7. 0 \in A
  <2>1. g[{}] = c * 0 /\ 0 \in 0..N
    BY <1>2, <1>3 DEF Sums
  <2> QED BY <1>4, <2>1
<1>8. ASSUME NEW n \in 0..N, n \in A, n < N PROVE n + 1 \in A
  <2>1. ASSUME NEW s \in SUBSET S, Cardinality(s) = n + 1 PROVE g[s] = c * (n + 1)
    <3>1. s # {}
      BY <1>4, <2>1
    <3>2. PICK x \in s : TRUE
      BY <3>1
    <3>3. g[s] = f[x] + g[s \ {x}] /\ f[x] = c
      BY <1>2, <1>6 DEF Sums
    <3>4. s \ {x} \in SUBSET S /\ Cardinality(s \ {x}) = n
      BY <1>5, <2>1
    <3>5. g[s \ {x}] = c * n
      BY <1>8, <3>4
    <3>6. g[s] = c + c * n
      BY <3>3, <3>5
    <3>7. c + c * n = c * (n + 1)
      OBVIOUS
    <3> QED BY <3>6, <3>7
  <2>2. n + 1 \in 0..N
    BY <1>3, <1>8
  <2> QED BY <2>1, <2>2
<1> HIDE DEF A
<1>9. N \in 0..N /\ \A n \in 0..N : n \in A
  BY <1>3, <1>7, <1>8, Induct
<1>10. N \in A
  BY <1>9
<1>11. g[S] = c * N
  BY <1>10, <1>12 DEF A
<1> QED BY <1>2, <1>11 DEF f, N

-----------------------------------------------------------------------------
(* Money in mails and auctions.                                            *)

LEMMA PostedTakes ==
  ASSUME NEW mails \in SUBSET Mails, IsFiniteSet(mails), NEW m \in mails
  PROVE  /\ Posted(mails) \in Int /\ Posted(mails \ {m}) \in Int
         /\ Posted(mails) = m.money + Posted(mails \ {m})
<1> DEFINE f == [x \in mails |-> x.money]
<1>1. f \in [mails -> Int] /\ f[m] = m.money
  BY DEF Mails
<1>2. Rest(f, m) = [x \in mails \ {m} |-> x.money]
  BY DEF Rest
<1> HIDE DEF f
<1>3. Total(f) \in Int /\ Total(Rest(f, m)) \in Int /\ Total(f) = f[m] + Total(Rest(f, m))
  BY <1>1, TotalTakes
<1>4. Posted(mails) = Total(f) /\ Posted(mails \ {m}) = Total(Rest(f, m))
  BY <1>2 DEF Posted, f
<1> QED BY <1>1, <1>3, <1>4

LEMMA PostedType ==
  ASSUME NEW mails \in SUBSET Mails, IsFiniteSet(mails)
  PROVE  Posted(mails) \in Int /\ Posted({}) = 0
<1>1. Posted({}) = 0
  BY TotalOfNothing DEF Posted
<1>2. CASE mails = {}
  BY <1>1, <1>2
<1>3. CASE mails # {}
  BY <1>1, <1>3, PostedTakes
<1> QED BY <1>2, <1>3

\* One mail comes.
LEMMA PostedAdds ==
  ASSUME NEW mails \in SUBSET Mails, IsFiniteSet(mails), NEW m \in Mails, m \notin mails
  PROVE  /\ IsFiniteSet(mails \cup {m})
         /\ Posted(mails \cup {m}) = Posted(mails) + m.money
<1> DEFINE more == mails \cup {m}
<1>1. IsFiniteSet(more) /\ more \in SUBSET Mails /\ m \in more /\ more \ {m} = mails
  BY FS_AddElement
<1>2. m.money \in Int
  BY DEF Mails
<1> HIDE DEF more
<1>3. Posted(more) = m.money + Posted(mails) /\ Posted(mails) \in Int
  BY <1>1, PostedTakes
<1> QED BY <1>1, <1>2, <1>3 DEF more

LEMMA StakedTakes ==
  ASSUME NEW entries \in SUBSET Auctions, IsFiniteSet(entries), NEW a \in entries
  PROVE  /\ Staked(entries) \in Int /\ Staked(entries \ {a}) \in Int
         /\ Staked(entries) = (a.bid + Deposit) + Staked(entries \ {a})
<1> DEFINE f == [x \in entries |-> x.bid + Deposit]
<1>1. f \in [entries -> Int] /\ f[a] = a.bid + Deposit
  BY HouseAssumption DEF Auctions
<1>2. Rest(f, a) = [x \in entries \ {a} |-> x.bid + Deposit]
  BY DEF Rest
<1> HIDE DEF f
<1>3. Total(f) \in Int /\ Total(Rest(f, a)) \in Int /\ Total(f) = f[a] + Total(Rest(f, a))
  BY <1>1, TotalTakes
<1>4. Staked(entries) = Total(f) /\ Staked(entries \ {a}) = Total(Rest(f, a))
  BY <1>2 DEF Staked, f
<1> QED BY <1>1, <1>3, <1>4

LEMMA StakedType ==
  ASSUME NEW entries \in SUBSET Auctions, IsFiniteSet(entries)
  PROVE  Staked(entries) \in Int /\ Staked({}) = 0
<1>1. Staked({}) = 0
  BY TotalOfNothing DEF Staked
<1>2. CASE entries = {}
  BY <1>1, <1>2
<1>3. CASE entries # {}
  BY <1>1, <1>3, StakedTakes
<1> QED BY <1>2, <1>3

LEMMA StakedAdds ==
  ASSUME NEW entries \in SUBSET Auctions, IsFiniteSet(entries),
         NEW a \in Auctions, a \notin entries
  PROVE  /\ IsFiniteSet(entries \cup {a})
         /\ Staked(entries \cup {a}) = Staked(entries) + (a.bid + Deposit)
<1> DEFINE more == entries \cup {a}
<1>1. IsFiniteSet(more) /\ more \in SUBSET Auctions /\ a \in more /\ more \ {a} = entries
  BY FS_AddElement
<1>2. a.bid + Deposit \in Int
  BY HouseAssumption DEF Auctions
<1> HIDE DEF more
<1>3. Staked(more) = (a.bid + Deposit) + Staked(entries) /\ Staked(entries) \in Int
  BY <1>1, StakedTakes
<1> QED BY <1>1, <1>2, <1>3 DEF more

\* A step moves money between the players, the mails, the auctions and the house.
LEMMA BalanceMoves ==
  ASSUME NEW g \in [Players -> Nat], NEW mails \in SUBSET Mails, NEW entries \in SUBSET Auctions,
         NEW sunk \in Nat, Balanced(g, mails, entries, sunk),
         NEW g2, NEW mails2, NEW entries2, NEW sunk2 \in Nat,
         IsFiniteSet(mails2), IsFiniteSet(entries2), BidsGood(entries2),
         NEW x \in Int, NEW y \in Int, NEW z \in Int,
         Total(g2) = Total(g) + x, Posted(mails2) = Posted(mails) + y,
         Staked(entries2) = Staked(entries) + z, x + y + z + sunk2 = sunk
  PROVE  Balanced(g2, mails2, entries2, sunk2)
<1>1. IsFiniteSet(mails) /\ IsFiniteSet(entries) /\ IsFiniteSet(Players)
  BY PlayersAssumption DEF Balanced
<1>2. Total(g) \in Int /\ Posted(mails) \in Int /\ Staked(entries) \in Int
  BY <1>1, TotalType, PostedType, StakedType
<1> DEFINE w == Gold * Cardinality(Players)
<1>3. Total(g) + Posted(mails) + Staked(entries) + sunk = w
  BY DEF Balanced
<1> HIDE DEF w
<1>4. Total(g2) + Posted(mails2) + Staked(entries2) + sunk2 = w
  BY <1>2, <1>3
<1> QED BY <1>4 DEF Balanced, w

-----------------------------------------------------------------------------
(* Sets of mails and auctions, sequences of books.                         *)

\* Replacing what has the id of e, which may not be e itself.
LEMMA RewriteIs ==
  ASSUME NEW entries, NEW c \in entries, NEW e, c.id = e.id, NEW new,
         \A x, y \in entries : x.id = y.id => x = y
  PROVE  /\ {x \in entries : x.id # e.id} = entries \ {c}
         /\ Rewrite(entries, e, new) = (entries \ {c}) \cup {new}
BY DEF Rewrite

LEMMA LightenIs ==
  ASSUME NEW mails, NEW x \in mails, NEW m, x.id = m.id, NEW new, NEW row,
         \A y, z \in mails : y.id = z.id => y = z
  PROVE  Lighten(mails, m, new, row) =
           (mails \ {x}) \cup (IF new.item = None /\ new.money = 0 THEN {} ELSE {row})
BY RewriteIs DEF Lighten

\* What stays in a box.
LEMMA LightenHas ==
  ASSUME NEW mails, NEW m, NEW new, NEW row, NEW y \in Lighten(mails, m, new, row)
  PROVE  \/ y \in mails /\ y.id # m.id
         \/ y = row /\ ~(new.item = None /\ new.money = 0)
BY DEF Lighten, Rewrite

-----------------------------------------------------------------------------
(* Amounts.                                                                *)

LEMMA LowIs ==
  ASSUME NEW n \in Nat
  PROVE  Low(n) \in Nat /\ Low(0) = 0
<1>1. Word \in Nat \ {0}
  BY WordsAssumption DEF Word
<1>2. \A k \in Nat \ {0} : n % k \in Nat /\ 0 % k = 0
  OBVIOUS
<1> QED BY <1>1, <1>2 DEF Low

\* Who has enough pays what he is charged.
LEMMA ModifiedIs ==
  ASSUME NEW money \in Nat, NEW n \in Int
  PROVE  /\ Modified(money, n) \in Nat
         /\ 0 <= money + n /\ n <= 0 => Modified(money, n) = money + n
BY DEF Modified, Spent, Fits

LEMMA ChargesAre ==
  ASSUME NEW n, NEW k \in Charges(n)
  PROVE  k \in Int
BY WordsAssumption DEF Charges

LEMMA NarrowIs ==
  ASSUME NEW m \in Mails
  PROVE  /\ Narrow(m) \in Mails /\ SameMail(Narrow(m), m)
         /\ Narrow(m).cod > 0 => m.cod > 0
<1> DEFINE money == Low(m.money)
           cod == Low(m.cod)
           half == [m EXCEPT !.money = money]
           whole == [half EXCEPT !.cod = cod]
<1>1. money \in Nat /\ cod \in Nat /\ m.cod \in Nat /\ (m.cod = 0 => cod = 0)
  BY LowIs DEF Mails
<1>2. Narrow(m) = whole
  BY DEF Narrow
<1> HIDE DEF money, cod
<1>3. half \in Mails /\ SameMail(half, m) /\ half.cod = m.cod
  BY <1>1 DEF Mails, SameMail
<1> HIDE DEF half
<1>4. whole \in Mails /\ SameMail(whole, half) /\ whole.cod = cod
  BY <1>1, <1>3 DEF Mails, SameMail
<1> QED BY <1>1, <1>2, <1>3, <1>4 DEF SameMail

LEMMA LastType ==
  ASSUME TypeOK
  PROVE  /\ Len(durable) \in Nat \ {0} /\ DOMAIN durable = 1..Len(durable)
         /\ \A i \in DOMAIN durable : durable[i] \in Books
         /\ Len(durable) \in DOMAIN durable /\ 1 \in DOMAIN durable
         /\ Last \in Books /\ Now \in Books
<1>1. durable \in Seq(Books) /\ durable # <<>>
  BY DEF TypeOK
<1>2. Len(durable) \in Nat /\ durable \in [1..Len(durable) -> Books] /\ Len(durable) # 0
  BY <1>1, EmptySeq
<1> HIDE <1>1
<1> QED BY <1>2 DEF Last, Now

LEMMA CommitIs ==
  ASSUME TypeOK, NEW b \in Books, Commit(b)
  PROVE  /\ durable' \in Seq(Books) /\ durable' # <<>>
         /\ Len(durable') = Len(durable) + 1
         /\ DOMAIN durable' = 1..(Len(durable) + 1)
         /\ \A i \in DOMAIN durable : durable'[i] = durable[i]
         /\ durable'[Len(durable) + 1] = b /\ Last' = b
<1>1. durable \in Seq(Books) /\ durable' = Append(durable, b)
  BY DEF TypeOK, Commit
<1>2. /\ durable' \in Seq(Books) /\ Len(durable') = Len(durable) + 1
      /\ \A i \in 1..Len(durable) : durable'[i] = durable[i]
      /\ durable'[Len(durable) + 1] = b
  BY <1>1, AppendProperties
<1>3. Len(durable) \in Nat /\ DOMAIN durable = 1..Len(durable)
  BY LastType
<1>4. DOMAIN durable' = 1..Len(durable')
  BY <1>2
<1>5. Last' = b
  BY <1>2 DEF Last
<1>6. durable' # <<>>
  BY <1>2, <1>3
<1> QED BY <1>2, <1>3, <1>4, <1>5, <1>6

LEMMA MaxOfBounded ==
  ASSUME NEW S \in SUBSET Nat, S # {}, NEW n \in Nat, \A x \in S : x < n
  PROVE  Max(S) \in S /\ \A x \in S : x <= Max(S)
<1> DEFINE T == {k \in Nat : n - k \in S}
<1>1. T # {}
  <2>1. PICK x \in S : TRUE
    OBVIOUS
  <2>2. n - x \in Nat /\ n - (n - x) = x
    BY <2>1
  <2> QED BY <2>1, <2>2
<1>2. PICK k \in T : \A j \in T : <<j, k>> \notin OpToRel(<, Nat)
  BY <1>1, NatLessThanWellFounded, WFMin
<1>3. \A x \in S : x <= n - k
  <2> TAKE x \in S
  <2>1. n - x \in T
    OBVIOUS
  <2>2. ~(n - x < k)
    BY <1>2, <2>1 DEF OpToRel
  <2> QED BY <2>2
<1>4. n - k \in S
  OBVIOUS
<1> QED BY <1>3, <1>4 DEF Max

-----------------------------------------------------------------------------
(* A transaction of p, or of nobody.                                       *)

\* What every handler's transaction does to the books: it keeps them good,
\* leaves other players' money and bags alone, and takes no mail from anybody
\* but a player who has loaded them.
GoodCommit(p, b) ==
    /\ b \in Books /\ Commit(b)
    /\ BookGood(b, nextMail', nextAuction')
    /\ truncated => truncated'
    /\ ~truncated' => BookBalanced(b)
    /\ nextMail' \in Nat /\ nextMail <= nextMail'
    /\ nextAuction' \in Nat /\ nextAuction <= nextAuction'
    /\ p \notin waiting
    /\ \A q \in Players \ {p} : b.gold[q] = Last.gold[q] /\ b.bag[q] = Last.bag[q]
    /\ \A m \in Last.mails : m.to \notin loaded \/ m.to # p => m \in b.mails

LEMMA BookStaysGood ==
  ASSUME NEW b \in Books, NEW mn \in Nat, NEW an \in Nat, NEW mn2 \in Nat, NEW an2 \in Nat,
         BookGood(b, mn, an), mn <= mn2, an <= an2
  PROVE  BookGood(b, mn2, an2)
BY DEF BookGood, MailsGood, AuctionsGood, Books, Mails, Auctions

LEMMA CommitKeeps ==
  ASSUME IInv, NEW p, NEW b, GoodCommit(p, b), UNCHANGED <<waiting, ahead>>
  PROVE  /\ durable' \in Seq(Books) /\ durable' # <<>> /\ Last' = b
         /\ BooksGood' /\ BooksBalanced'
         /\ \A q \in online \ loaded : \A i \in DOMAIN durable' :
                MailsOf(durable'[i], q) \subseteq b.mails
         /\ online' \subseteq online => WaitingCurrent'
<1>1. b \in Books /\ Commit(b) /\ TypeOK
  BY DEF GoodCommit, IInv
<1>2. /\ durable' \in Seq(Books) /\ durable' # <<>> /\ Last' = b
      /\ Len(durable') = Len(durable) + 1
      /\ DOMAIN durable' = 1..(Len(durable) + 1)
      /\ \A i \in DOMAIN durable : durable'[i] = durable[i]
      /\ durable'[Len(durable) + 1] = b
  BY <1>1, CommitIs
<1>3. /\ Len(durable) \in Nat \ {0} /\ DOMAIN durable = 1..Len(durable)
      /\ \A i \in DOMAIN durable : durable[i] \in Books
      /\ Len(durable) \in DOMAIN durable /\ Last \in Books
  BY <1>1, LastType
<1>4. \A i \in DOMAIN durable' : i \in DOMAIN durable \/ durable'[i] = b
  BY <1>2, <1>3
<1>5. BooksGood'
  <2>1. nextMail \in Nat /\ nextAuction \in Nat
    BY <1>1 DEF TypeOK
  <2>2. \A i \in DOMAIN durable : BookGood(durable'[i], nextMail', nextAuction')
    BY <1>2, <1>3, <2>1, BookStaysGood DEF GoodCommit, IInv, BooksGood
  <2> QED BY <1>4, <2>2 DEF GoodCommit, BooksGood
<1>9. BooksBalanced'
  <2> SUFFICES ASSUME ~truncated', NEW i \in DOMAIN durable'
               PROVE  BookBalanced(durable'[i])
    BY DEF BooksBalanced, BookBalanced
  <2>1. ~truncated /\ BookBalanced(b)
    BY DEF GoodCommit
  <2>2. i \in DOMAIN durable => durable'[i] = durable[i] /\ BookBalanced(durable[i])
    BY <1>2, <2>1 DEF IInv, BooksBalanced
  <2> QED BY <1>4, <2>1, <2>2
<1>6. ASSUME NEW q \in (online \ loaded) \cup waiting
      PROVE  MailsOf(Last, q) \subseteq b.mails /\ (q \in waiting => q # p)
  BY DEF GoodCommit, MailsOf, IInv, WaitingCurrent, TypeOK
<1>7. ASSUME NEW q \in online \ loaded, NEW i \in DOMAIN durable'
      PROVE  MailsOf(durable'[i], q) \subseteq b.mails
  <2>1. CASE i \in DOMAIN durable
    <3>1. durable'[i] = durable[i] /\ MailsOf(durable[i], q) \subseteq MailsOf(Last, q)
      BY <1>2, <2>1 DEF IInv, UnloadedCurrent, MailsOf
    <3> QED BY <3>1, <1>6
  <2> QED BY <2>1, <1>4 DEF MailsOf
<1>8. ASSUME online' \subseteq online, NEW q \in waiting
      PROVE  /\ q \notin online' /\ ahead[q] < Len(durable')
             /\ \A i \in DOMAIN durable' : i > ahead[q] =>
                 /\ durable'[i].gold[q] = b.gold[q] /\ durable'[i].bag[q] = b.bag[q]
                 /\ MailsOf(durable'[i], q) \subseteq b.mails
  <2>1. q \in Players /\ q # p /\ ahead[q] \in Nat
    BY <1>1, <1>6 DEF TypeOK
  <2>2. b.gold[q] = Last.gold[q] /\ b.bag[q] = Last.bag[q]
    BY <2>1 DEF GoodCommit
  <2>3. q \notin online /\ ahead[q] < Len(durable)
    BY DEF IInv, WaitingCurrent
  <2>4. ASSUME NEW i \in DOMAIN durable', i > ahead[q]
        PROVE  /\ durable'[i].gold[q] = b.gold[q] /\ durable'[i].bag[q] = b.bag[q]
               /\ MailsOf(durable'[i], q) \subseteq b.mails
    <3>1. CASE i \in DOMAIN durable
      <4>1. /\ durable[i].gold[q] = Last.gold[q] /\ durable[i].bag[q] = Last.bag[q]
            /\ MailsOf(durable[i], q) \subseteq MailsOf(Last, q)
        BY <2>4, <3>1 DEF IInv, WaitingCurrent, MailsOf
      <4> QED BY <1>2, <1>6, <2>2, <3>1, <4>1
    <3> QED BY <3>1, <1>4 DEF MailsOf
  <2> QED BY <1>8, <1>2, <1>3, <2>1, <2>3, <2>4
<1> QED BY <1>2, <1>5, <1>7, <1>8, <1>9 DEF WaitingCurrent

-----------------------------------------------------------------------------
(* The steps that write nothing.                                           *)

USE DEF vars, mailVars, houseVars

LEMMA LoginQueryStep ==
  ASSUME IInv, NEW p \in Players, LoginQuery(p), UNCHANGED houseVars
  PROVE  IInv'
<1>1. /\ Len(durable) \in Nat \ {0} /\ DOMAIN durable = 1..Len(durable)
      /\ Last' = Last
  BY LastType DEF IInv, LoginQuery, Last
<1>2. TypeOK'
  BY <1>1 DEF IInv, TypeOK, LoginQuery
<1>3. BooksGood' /\ BooksBalanced' /\ OnlineSaved' /\ UnloadedCurrent' /\ BoxSaved' /\ HouseSaved'
  BY <1>1 DEF IInv, LoginQuery, BooksGood, BooksBalanced, BookBalanced, OnlineSaved,
              UnloadedCurrent, BoxSaved, HouseSaved
<1>4. ASSUME NEW q \in waiting'
      PROVE  /\ q \notin online' /\ ahead'[q] < Len(durable')
             /\ \A i \in DOMAIN durable' : i > ahead'[q] =>
                 /\ durable'[i].gold[q] = Last'.gold[q] /\ durable'[i].bag[q] = Last'.bag[q]
                 /\ MailsOf(durable'[i], q) \subseteq Last'.mails
  <2>1. CASE q = p
    <3>1. q \notin online' /\ ahead'[q] = Len(durable) - 1 /\ durable' = durable
      BY <2>1 DEF LoginQuery, IInv, TypeOK
    <3>2. \A i \in DOMAIN durable' : i > ahead'[q] => durable'[i] = Last'
      BY <1>1, <3>1 DEF Last
    <3> QED BY <1>1, <3>1, <3>2 DEF MailsOf
  <2>2. CASE q # p
    <3>1. q \in waiting /\ ahead'[q] = ahead[q] /\ UNCHANGED <<online, durable>>
      BY <2>2 DEF LoginQuery, IInv, TypeOK
    <3> QED BY <1>1, <3>1 DEF IInv, WaitingCurrent
  <2> QED BY <2>1, <2>2
<1> QED BY <1>2, <1>3, <1>4 DEF IInv, WaitingCurrent

LEMMA LoginStep ==
  ASSUME IInv, NEW p \in Players, Login(p), UNCHANGED houseVars
  PROVE  IInv'
<1>1. /\ 1 \in DOMAIN durable /\ Now \in Books /\ Last' = Last
      /\ \A i \in DOMAIN durable : i \in Nat /\ i > 0
  BY LastType DEF IInv, Login, Last
<1>2. p \in waiting /\ ahead[p] = 0 /\ p \notin online /\ p \notin loaded
  BY DEF Login, IInv, WaitingCurrent, TypeOK
<1>3. \A i \in DOMAIN durable :
        /\ durable[i].gold[p] = Last.gold[p] /\ durable[i].bag[p] = Last.bag[p]
        /\ MailsOf(durable[i], p) \subseteq Last.mails
  BY <1>1, <1>2 DEF IInv, WaitingCurrent
<1>4. TypeOK'
  BY <1>1, WordsAssumption DEF IInv, TypeOK, Login, Books
<1>5. /\ bag'[p] = Last.bag[p] /\ (~truncated' => gold'[p] = Last.gold[p])
      /\ truncated => truncated'
  BY <1>1, <1>3 DEF Login, Now, IInv, TypeOK
<1>6. /\ BooksGood' /\ BooksBalanced'
      /\ BoxSaved' /\ HouseSaved'
  <2>1. BooksGood' /\ BooksBalanced'
    BY <1>1, <1>5 DEF IInv, Login, BooksGood, BooksBalanced, BookBalanced
  <2>2. BoxSaved'
    BY <1>1, <1>5 DEF IInv, Login, BoxSaved, Shown
  <2>3. HouseSaved'
    BY <1>1, <1>5 DEF IInv, Login, HouseSaved, Agree
  <2> QED BY <2>1, <2>2, <2>3
<1>7. OnlineSaved'
  BY <1>1, <1>5 DEF IInv, TypeOK, Login, OnlineSaved
<1>8. UnloadedCurrent'
  BY <1>1, <1>3 DEF IInv, Login, UnloadedCurrent
<1>9. WaitingCurrent'
  BY <1>1, <1>2 DEF IInv, Login, WaitingCurrent
<1> QED BY <1>4, <1>6, <1>7, <1>8, <1>9 DEF IInv

LEMMA HandleGetMailListStep ==
  ASSUME IInv, NEW p \in Players, HandleGetMailList(p), UNCHANGED houseVars
  PROVE  IInv'
<1>1. /\ 1 \in DOMAIN durable /\ Now \in Books /\ Last' = Last
      /\ UNCHANGED <<durable, online, waiting, ahead>>
  BY LastType DEF IInv, HandleGetMailList, Last
<1>2. box' = [box EXCEPT ![p] = MailsOf(Now, p)]
  BY DEF HandleGetMailList, MailsOf
<1>3. MailsOf(Now, p) \subseteq MailsOf(Last, p) /\ MailsOf(Now, p) \in SUBSET Mails
  BY <1>1 DEF HandleGetMailList, IInv, UnloadedCurrent, Now, MailsOf, Books
<1>4. TypeOK'
  BY <1>1, <1>2, <1>3 DEF IInv, TypeOK, HandleGetMailList
<1>5. BoxSaved'
  <2>1. box'[p] = MailsOf(Now, p) /\ \A q \in Players \ {p} : box'[q] = box[q]
    BY <1>2 DEF IInv, TypeOK
  <2>2. \A m \in Now.mails : m.cod > 0 => m.from \in Players
    BY <1>1 DEF IInv, BooksGood, BookGood, MailsGood, Now
  <2>3. \A m \in MailsOf(Now, p) : m.to = p /\ m \in Now.mails /\ m \in Last.mails
    BY <1>3 DEF MailsOf
  <2>4. \A m \in MailsOf(Now, p) : Shown(m, Last.mails, ~truncated)
    BY <2>3 DEF Shown, SameMail
  <2>5. truncated' = truncated /\ loaded' = loaded \cup {p}
    BY DEF HandleGetMailList
  <2>6. \A m \in box'[p] : /\ m.to = p /\ (m.cod > 0 => m.from \in Players)
                           /\ Shown(m, Last.mails, ~truncated)
    BY <2>1, <2>2, <2>3, <2>4
  <2> QED BY <1>1, <2>1, <2>5, <2>6 DEF IInv, BoxSaved, Shown
<1>6. /\ BooksGood' /\ BooksBalanced' /\ OnlineSaved' /\ UnloadedCurrent' /\ WaitingCurrent'
      /\ HouseSaved'
  BY <1>1 DEF IInv, HandleGetMailList, BooksGood, BooksBalanced, BookBalanced, OnlineSaved,
              UnloadedCurrent, WaitingCurrent, HouseSaved
<1> QED BY <1>4, <1>5, <1>6 DEF IInv

LEMMA ExecuteStep ==
  ASSUME IInv, Execute, UNCHANGED houseVars
  PROVE  IInv'
<1>1. /\ Len(durable) \in Nat \ {0, 1} /\ DOMAIN durable = 1..Len(durable)
      /\ durable \in Seq(Books) /\ durable' = Tail(durable)
  BY LastType DEF IInv, TypeOK, Execute
<1>2. /\ durable' \in Seq(Books) /\ Len(durable') = Len(durable) - 1
      /\ \A i \in 1..Len(durable') : durable'[i] = durable[i + 1]
  BY <1>1, HeadTailProperties
<1>3. DOMAIN durable' = 1..Len(durable') /\ durable' # <<>> /\ Last' = Last
  <2>1. DOMAIN durable' = 1..Len(durable')
    BY <1>2
  <2>3. durable' # <<>>
    <3>1. Len(durable') # 0
      BY <1>1, <1>2
    <3> QED BY <1>2, <3>1, EmptySeq
  <2>2. Len(durable') \in 1..Len(durable') /\ Len(durable') + 1 = Len(durable)
    BY <1>1, <1>2
  <2> QED BY <1>2, <2>1, <2>2, <2>3 DEF Last
<1>4. \A i \in DOMAIN durable' : i + 1 \in DOMAIN durable /\ durable'[i] = durable[i + 1]
  BY <1>1, <1>2, <1>3
<1>5. TypeOK'
  BY <1>2, <1>3 DEF IInv, TypeOK, Execute
<1>6. BooksGood' /\ BooksBalanced' /\ OnlineSaved' /\ BoxSaved' /\ HouseSaved'
  BY <1>3, <1>4 DEF IInv, Execute, BooksGood, BooksBalanced, BookBalanced, OnlineSaved,
                    BoxSaved, HouseSaved
<1>7. UnloadedCurrent'
  BY <1>3, <1>4 DEF IInv, Execute, UnloadedCurrent
<1>8. WaitingCurrent'
  <2>1. ASSUME NEW q \in waiting
        PROVE  /\ ahead'[q] \in Nat /\ ahead'[q] < Len(durable')
               /\ \A i \in DOMAIN durable' : i > ahead'[q] => i + 1 > ahead[q]
    <3>1. q \in Players /\ ahead[q] \in Nat /\ ahead[q] < Len(durable)
      BY DEF IInv, TypeOK, WaitingCurrent
    <3>2. ahead'[q] = IF ahead[q] > 0 THEN ahead[q] - 1 ELSE 0
      BY <3>1 DEF Execute
    <3> QED BY <1>1, <1>2, <1>3, <3>1, <3>2
  <2>2. ASSUME NEW q \in waiting, NEW i \in DOMAIN durable', i > ahead'[q]
        PROVE  /\ durable'[i].gold[q] = Last.gold[q] /\ durable'[i].bag[q] = Last.bag[q]
               /\ MailsOf(durable'[i], q) \subseteq Last.mails
    <3>1. i + 1 \in DOMAIN durable /\ i + 1 > ahead[q] /\ durable'[i] = durable[i + 1]
      BY <1>4, <2>1, <2>2
    <3> QED BY <3>1 DEF IInv, WaitingCurrent
  <2>3. UNCHANGED <<waiting, online>> /\ \A q \in waiting : q \notin online
    BY DEF Execute, IInv, WaitingCurrent
  <2> QED BY <1>3, <2>1, <2>2, <2>3 DEF WaitingCurrent
<1> QED BY <1>5, <1>6, <1>7, <1>8 DEF IInv

-----------------------------------------------------------------------------
(* The handlers.                                                           *)

\* A book, field by field.
Row(money, bags, mails, entries, lost, gone) ==
    [gold |-> money, bag |-> bags, mails |-> mails, auctions |-> entries, sunk |-> lost,
     discarded |-> gone]

\* The one field of f that a handler changes.
Put(f, p, value) == [f EXCEPT ![p] = value]

LEMMA PutBag ==
  ASSUME NEW f \in [Players -> SUBSET Items], NEW p \in Players, NEW value \in SUBSET Items
  PROVE  /\ Put(f, p, value) \in [Players -> SUBSET Items] /\ Put(f, p, value)[p] = value
         /\ \A q \in Players \ {p} : Put(f, p, value)[q] = f[q]
         /\ value = f[p] => Put(f, p, value) = f
BY DEF Put

LEMMA BookIs ==
  ASSUME NEW b \in Books
  PROVE  /\ b = Row(b.gold, b.bag, b.mails, b.auctions, b.sunk, b.discarded)
         /\ b.gold \in [Players -> Nat] /\ b.bag \in [Players -> SUBSET Items]
         /\ b.mails \in SUBSET Mails /\ b.auctions \in SUBSET Auctions /\ b.sunk \in Nat
         /\ b.discarded \in SUBSET Items
BY DEF Books, Row

LEMMA RowFields ==
  ASSUME NEW g, NEW bg, NEW ms, NEW es, NEW sk, NEW gn
  PROVE  /\ Row(g, bg, ms, es, sk, gn).gold = g /\ Row(g, bg, ms, es, sk, gn).bag = bg
         /\ Row(g, bg, ms, es, sk, gn).mails = ms /\ Row(g, bg, ms, es, sk, gn).auctions = es
         /\ Row(g, bg, ms, es, sk, gn).sunk = sk /\ Row(g, bg, ms, es, sk, gn).discarded = gn
BY DEF Row

LEMMA SavedIs ==
  ASSUME NEW g, NEW bg, NEW ms, NEW es, NEW sk, NEW gn, NEW p, NEW money, NEW items
  PROVE  Saved(Row(g, bg, ms, es, sk, gn), p, money, items) =
           Row(Put(g, p, money), Put(bg, p, items), ms, es, sk, gn)
<1> DEFINE b == Row(g, bg, ms, es, sk, gn)
           moneys == Put(g, p, money)
           bags == Put(bg, p, items)
           paid == [b EXCEPT !.gold = moneys]
<1>1. b.gold = g /\ b.bag = bg
  BY RowFields
<1>2. Saved(b, p, money, items) = [b EXCEPT !.gold = moneys, !.bag = bags]
  BY <1>1 DEF Saved, Put
<1> HIDE DEF moneys, bags, b
<1>3. [b EXCEPT !.gold = moneys, !.bag = bags] = [paid EXCEPT !.bag = bags]
  OBVIOUS
<1>4. paid = Row(moneys, bg, ms, es, sk, gn)
  BY DEF b, Row
<1> HIDE DEF paid
<1>5. [paid EXCEPT !.bag = bags] = Row(moneys, bags, ms, es, sk, gn)
  BY <1>4 DEF Row
<1> QED BY <1>2, <1>3, <1>5 DEF moneys, bags, b

LEMMA InsertedIs ==
  ASSUME NEW g, NEW bg, NEW ms, NEW es, NEW sk, NEW gn, NEW new
  PROVE  Inserted(Row(g, bg, ms, es, sk, gn), new) = Row(g, bg, ms \cup new, es, sk, gn)
<1> DEFINE b == Row(g, bg, ms, es, sk, gn)
<1>1. b.mails = ms
  BY RowFields
<1>2. Inserted(b, new) = [b EXCEPT !.mails = ms \cup new]
  BY <1>1 DEF Inserted
<1> HIDE DEF b
<1> QED BY <1>2 DEF b, Row

LEMMA EndedIs ==
  ASSUME NEW g, NEW bg, NEW ms, NEW es, NEW sk, NEW gn, NEW a, NEW kept
  PROVE  Ended(Row(g, bg, ms, es, sk, gn), a, kept) = Row(g, bg, ms, Without(es, a), sk + kept, gn)
<1> DEFINE b == Row(g, bg, ms, es, sk, gn)
           x == Without(es, a)
           y == sk + kept
           c == [b EXCEPT !.auctions = x]
<1>1. b.auctions = es /\ b.sunk = sk
  BY RowFields
<1>2. Ended(b, a, kept) = [b EXCEPT !.auctions = x, !.sunk = y]
  BY <1>1 DEF Ended
<1> HIDE DEF x, y
<1>3. [b EXCEPT !.auctions = x, !.sunk = y] = [c EXCEPT !.sunk = y]
  OBVIOUS
<1>4. c = Row(g, bg, ms, x, sk, gn)
  BY DEF Row
<1> HIDE DEF c
<1>5. [c EXCEPT !.sunk = y] = Row(g, bg, ms, x, y, gn)
  BY <1>4 DEF Row
<1> QED BY <1>2, <1>3, <1>5 DEF x, y

\* What TypeOK says of the memory.
LEMMA MemoryType ==
  ASSUME TypeOK
  PROVE  /\ online \subseteq Players /\ loaded \subseteq online /\ waiting \subseteq Players
         /\ gold \in [Players -> Nat] /\ bag \in [Players -> SUBSET Items]
         /\ box \in [Players -> SUBSET Mails]
         /\ nextMail \in Nat /\ nextAuction \in Nat
         /\ auctions \subseteq Auctions /\ aitems \subseteq Items
BY DEF TypeOK

\* What a handler of p finds.
LEMMA Found ==
  ASSUME IInv
  PROVE  /\ Last \in Books /\ BookGood(Last, nextMail, nextAuction)
         /\ Agree(auctions, Last.auctions, ~truncated) /\ \A a \in auctions : a.item \in aitems
         /\ ~truncated => auctions = Last.auctions
         /\ \A p \in online : bag[p] = Last.bag[p] /\ (~truncated => gold[p] = Last.gold[p])
         /\ \A p \in Players :
              /\ \A m \in box[p] : /\ m.to = p /\ (m.cod > 0 => m.from \in Players)
                                   /\ Shown(m, Last.mails, ~truncated)
              /\ p \notin loaded => box[p] = {}
<1>1. Last \in Books /\ Len(durable) \in DOMAIN durable
  BY LastType DEF IInv
<1>2. BookGood(Last, nextMail, nextAuction)
  BY <1>1 DEF IInv, BooksGood, Last
<1>3. Agree(auctions, Last.auctions, ~truncated)
  BY DEF IInv, HouseSaved
<1>4. ~truncated => auctions = Last.auctions
  BY <1>3 DEF Agree
<1> QED BY <1>1, <1>2, <1>3, <1>4 DEF IInv, OnlineSaved, BoxSaved, HouseSaved

\* What it finds of the money, if nothing was cut before.
LEMMA FoundBalance ==
  ASSUME IInv, ~truncated
  PROVE  /\ Balanced(Last.gold, Last.mails, Last.auctions, Last.sunk)
         /\ Last.gold \in [Players -> Nat] /\ Last.sunk \in Nat
         /\ Last.mails \in SUBSET Mails /\ IsFiniteSet(Last.mails)
         /\ Last.auctions \in SUBSET Auctions /\ IsFiniteSet(Last.auctions)
         /\ BidsGood(Last.auctions)
         /\ Posted(Last.mails) \in Int /\ Staked(Last.auctions) \in Int
<1>1. Last \in Books /\ Len(durable) \in DOMAIN durable
  BY LastType DEF IInv
<1>2. /\ Last.gold \in [Players -> Nat] /\ Last.sunk \in Nat
      /\ Last.mails \in SUBSET Mails /\ Last.auctions \in SUBSET Auctions
  BY <1>1, BookIs
<1>3. Balanced(Last.gold, Last.mails, Last.auctions, Last.sunk)
  BY <1>1 DEF IInv, BooksBalanced, BookBalanced, Last
<1>4. IsFiniteSet(Last.mails) /\ IsFiniteSet(Last.auctions) /\ BidsGood(Last.auctions)
  BY <1>3 DEF Balanced
<1> QED BY <1>2, <1>3, <1>4, PostedType, StakedType

\* The mail of the database that a mail of a box shows.
LEMMA FoundMail ==
  ASSUME IInv, NEW p \in Players, NEW m \in box[p]
  PROVE  \E x \in Last.mails :
           /\ SameMail(x, m) /\ (~truncated => x = m) /\ x \in Mails
           /\ m \in Mails /\ m.to = p /\ p \in loaded /\ p \in online
           /\ m.cod > 0 => m.from \in Players
<1>1. m \in Mails /\ m.to = p /\ p \in loaded /\ p \in online /\ (m.cod > 0 => m.from \in Players)
  BY Found, MemoryType DEF IInv
<1>2. Last.mails \in SUBSET Mails /\ Shown(m, Last.mails, ~truncated)
  BY Found, BookIs
<1> QED BY <1>1, <1>2 DEF Shown

\* The auction of the database that one in memory shows.
LEMMA FoundSale ==
  ASSUME IInv, NEW a \in auctions
  PROVE  /\ a \in Auctions /\ a.item \in aitems
         /\ \E c \in Last.auctions : SameSale(c, a) /\ (~truncated => c = a) /\ c \in Auctions
<1>1. a \in Auctions /\ a.item \in aitems /\ Last.auctions \in SUBSET Auctions
  BY Found, MemoryType, BookIs DEF IInv
<1> QED BY <1>1, Found DEF Agree

LEMMA TotalOfPut ==
  ASSUME NEW g \in [Players -> Nat], NEW p \in Players, NEW v \in Nat
  PROVE  Total(g) \in Int /\ Total(Put(g, p, v)) = Total(g) + (v - g[p])
<1> DEFINE e == Put(g, p, v)
<1>1. IsFiniteSet(Players) /\ g \in [Players -> Int] /\ g[p] \in Int
  BY PlayersAssumption
<1>2. e \in [Players -> Int] /\ e[p] = v /\ \A q \in Players \ {p} : e[q] = g[q]
  BY DEF Put
<1>3. Total(g) \in Int
  BY <1>1, TotalType
<1> HIDE DEF e
<1>4. Total(e) = (Total(g) - g[p]) + v
  BY <1>1, <1>2, TotalPut
<1>5. Total(e) = Total(g) + (v - g[p])
  BY <1>1, <1>3, <1>4
<1> QED BY <1>3, <1>5 DEF e

\* At most one mail comes, with some money.
LEMMA PostedOne ==
  ASSUME NEW mails \in SUBSET Mails, IsFiniteSet(mails), NEW added \in SUBSET Mails,
         \A x, y \in added : x = y, NEW w \in Int, added = {} => w = 0,
         \A x \in added : x \notin mails /\ x.money = w
  PROVE  IsFiniteSet(mails \cup added) /\ Posted(mails \cup added) = Posted(mails) + w
<1>1. Posted(mails) \in Int
  BY PostedType
<1>2. CASE added = {}
  <2>1. mails \cup added = mails /\ w = 0
    BY <1>2
  <2> QED BY <1>1, <2>1
<1>3. CASE added # {}
  <2>1. PICK x \in added : TRUE
    BY <1>3
  <2>2. added = {x} /\ x \in Mails /\ x \notin mails /\ x.money = w
    BY <2>1
  <2> QED BY <2>2, PostedAdds
<1> QED BY <1>2, <1>3

One(added, mails, w) ==
  /\ added \in SUBSET Mails /\ \A m, n \in added : m = n
  /\ w \in Int /\ (added = {} => w = 0)
  /\ \A m \in added : m \notin mails /\ m.money = w

LEMMA PostedThree ==
  ASSUME NEW mails \in SUBSET Mails, IsFiniteSet(mails), NEW A, NEW B, NEW C, NEW x, NEW y, NEW z,
         One(A, mails, x), One(B, mails \cup A, y), One(C, (mails \cup A) \cup B, z)
  PROVE  /\ IsFiniteSet(mails \cup (A \cup B \cup C))
         /\ Posted(mails \cup (A \cup B \cup C)) = Posted(mails) + (x + y + z)
<1> DEFINE m1 == mails \cup A
           m2 == m1 \cup B
           m3 == m2 \cup C
<1>1. Posted(mails) \in Int /\ x \in Int /\ y \in Int /\ z \in Int
  BY PostedType DEF One
<1>2. IsFiniteSet(m1) /\ Posted(m1) = Posted(mails) + x /\ m1 \in SUBSET Mails
  BY PostedOne DEF One
<1>3. IsFiniteSet(m2) /\ Posted(m2) = Posted(m1) + y /\ m2 \in SUBSET Mails
  <2>1. One(B, m1, y)
    OBVIOUS
  <2> HIDE DEF m1
  <2> QED BY <1>2, <2>1, PostedOne DEF One
<1>4. IsFiniteSet(m3) /\ Posted(m3) = Posted(m2) + z
  <2>1. One(C, m2, z)
    OBVIOUS
  <2> HIDE DEF m2
  <2> QED BY <1>3, <2>1, PostedOne DEF One
<1>5. m3 = mails \cup (A \cup B \cup C)
  OBVIOUS
<1> HIDE DEF m1, m2, m3
<1>6. Posted(m3) = Posted(mails) + (x + y + z)
  BY <1>1, <1>2, <1>3, <1>4
<1> QED BY <1>4, <1>5, <1>6

\* One mail goes, another one may come.
LEMMA PostedInstead ==
  ASSUME NEW mails \in SUBSET Mails, IsFiniteSet(mails), NEW m \in mails,
         NEW left, NEW w, One(left, mails \ {m}, w)
  PROVE  /\ IsFiniteSet((mails \ {m}) \cup left) /\ m.money \in Int
         /\ Posted((mails \ {m}) \cup left) = Posted(mails) + (w - m.money)
<1> DEFINE rest == mails \ {m}
<1>1. rest \in SUBSET Mails /\ IsFiniteSet(rest)
  BY FS_RemoveElement
<1>2. Posted(mails) = m.money + Posted(rest) /\ Posted(rest) \in Int /\ Posted(mails) \in Int
  BY PostedTakes
<1>3. m.money \in Int
  BY DEF Mails
<1> HIDE DEF rest
<1>4. IsFiniteSet(rest \cup left) /\ Posted(rest \cup left) = Posted(rest) + w
  BY <1>1, PostedOne DEF rest, One
<1>6. w \in Int
  BY DEF One
<1>5. Posted(rest \cup left) = Posted(mails) + (w - m.money)
  BY <1>2, <1>3, <1>4, <1>6
<1> QED BY <1>3, <1>4, <1>5 DEF rest

\* An auction is replaced.
LEMMA StakedInstead ==
  ASSUME NEW entries \in SUBSET Auctions, IsFiniteSet(entries), NEW a \in entries,
         NEW b \in Auctions, b \notin entries \ {a}
  PROVE  /\ IsFiniteSet((entries \ {a}) \cup {b})
         /\ Staked((entries \ {a}) \cup {b}) = Staked(entries) + (b.bid - a.bid)
<1> DEFINE rest == entries \ {a}
<1>1. rest \in SUBSET Auctions /\ IsFiniteSet(rest)
  BY FS_RemoveElement
<1>2. Staked(entries) = (a.bid + Deposit) + Staked(rest) /\ Staked(rest) \in Int
  BY StakedTakes
<1>3. a.bid \in Nat /\ b.bid \in Nat /\ Deposit \in Nat
  BY HouseAssumption DEF Auctions
<1> HIDE DEF rest
<1>4. IsFiniteSet(rest \cup {b}) /\ Staked(rest \cup {b}) = Staked(rest) + (b.bid + Deposit)
  BY <1>1, StakedAdds DEF rest
<1>5. Staked(rest \cup {b}) = Staked(entries) + (b.bid - a.bid)
  BY <1>2, <1>3, <1>4
<1> QED BY <1>4, <1>5 DEF rest

\* A mail with a new id is none of those there are.
LEMMA NewMail ==
  ASSUME IInv, NEW m \in Mails, m.id >= nextMail
  PROVE  m \notin Last.mails
<1>1. Last \in Books /\ BookGood(Last, nextMail, nextAuction) /\ nextMail \in Nat
  BY Found, MemoryType DEF IInv
<1>2. \A x \in Last.mails : x.id < nextMail
  BY <1>1 DEF BookGood, MailsGood
<1>3. m.id \in Nat
  BY DEF Mails
<1> QED BY <1>1, <1>2, <1>3

\* A handler that leaves money to p moves the rest to mails, auctions or the house.
LEMMA HandlerBalances ==
  ASSUME IInv, ~truncated, NEW p \in Players, p \in online, NEW money \in Nat,
         NEW mails, IsFiniteSet(mails), NEW entries, IsFiniteSet(entries), BidsGood(entries),
         NEW sunk \in Nat, NEW y \in Int, NEW z \in Int,
         Posted(mails) = Posted(Last.mails) + y, Staked(entries) = Staked(Last.auctions) + z,
         (money - gold[p]) + y + z + sunk = Last.sunk
  PROVE  Balanced(Put(Last.gold, p, money), mails, entries, sunk)
<1> DEFINE g == Last.gold
           g2 == Put(g, p, money)
           x == money - g[p]
<1>1. /\ Balanced(g, Last.mails, Last.auctions, Last.sunk) /\ g \in [Players -> Nat]
      /\ Last.mails \in SUBSET Mails /\ Last.auctions \in SUBSET Auctions /\ Last.sunk \in Nat
  BY FoundBalance
<1>2. gold[p] = g[p] /\ g[p] \in Nat
  BY <1>1, Found
<1>3. x \in Int /\ x + y + z + sunk = Last.sunk
  BY <1>2
<1> HIDE DEF g
<1>4. Total(g2) = Total(g) + x
  BY <1>1, TotalOfPut
<1> HIDE DEF g2, x
<1>5. Balanced(g2, mails, entries, sunk)
  BY <1>1, <1>3, <1>4, BalanceMoves
<1> QED BY <1>5 DEF g2, g

\* The auctions stay as they are.
LEMMA MailBalances ==
  ASSUME IInv, ~truncated, NEW p \in Players, p \in online, NEW money \in Nat,
         NEW mails, IsFiniteSet(mails), NEW sunk \in Nat, NEW y \in Int,
         Posted(mails) = Posted(Last.mails) + y, (money - gold[p]) + y + sunk = Last.sunk
  PROVE  Balanced(Put(Last.gold, p, money), mails, Last.auctions, sunk)
<1> DEFINE zero == 0
<1>1. /\ IsFiniteSet(Last.auctions) /\ BidsGood(Last.auctions)
      /\ Staked(Last.auctions) = Staked(Last.auctions) + zero /\ zero \in Int
  BY FoundBalance
<1>2. (money - gold[p]) + y + zero + sunk = Last.sunk
  <2>1. gold[p] \in Nat
    BY MemoryType DEF IInv
  <2> QED BY <2>1
<1> HIDE DEF zero
<1> QED BY <1>1, <1>2, HandlerBalances

\* What a handler that saves p's money and items may make the mails, the
\* entries and what is gone.
KeepsGood(p, items, mails, entries, gone) ==
    /\ mails \in SUBSET Mails /\ entries \in SUBSET Auctions /\ gone \in SUBSET Items
    /\ MailsGood(mails, nextMail') /\ AuctionsGood(entries, nextAuction')
    /\ Alone(Put(Last.bag, p, items), mails, entries, gone)
    /\ LogTrade => Somewhere(Put(Last.bag, p, items), mails, entries, gone)
    /\ nextMail' \in Nat /\ nextMail <= nextMail'
    /\ nextAuction' \in Nat /\ nextAuction <= nextAuction'
    /\ \A m \in Last.mails : m.to \notin loaded \/ m.to # p => m \in mails

\* It writes them to the database,
Stores(p, money, items, mails, entries, gone) ==
    /\ money \in Nat /\ items \in SUBSET Items
    /\ \E lost \in Nat :
        /\ ~truncated' => Balanced(Put(Last.gold, p, money), mails, entries, lost)
        /\ Commit(Row(Put(Last.gold, p, money), Put(Last.bag, p, items), mails, entries, lost,
                      gone))

\* The boxes show mails of the database.
BoxesShow(boxes, mails, exact) ==
    /\ boxes \in [Players -> SUBSET Mails]
    /\ \A q \in Players :
         /\ \A m \in boxes[q] : /\ m.to = q /\ (m.cod > 0 => m.from \in Players)
                                /\ Shown(m, mails, exact)
         /\ q \notin loaded => boxes[q] = {}

\* and the memory has the same.
Follows(p, money, items, mails, entries) ==
    /\ \/ gold' = Put(gold, p, money)
       \/ gold' = gold /\ (~truncated' => gold[p] = money)
    /\ bag' = Put(bag, p, items)
    /\ UNCHANGED <<online, loaded, waiting, ahead, over, crashes>>
    /\ truncated' \in BOOLEAN /\ (truncated => truncated')
    /\ BoxesShow(box', mails, ~truncated')
    /\ auctions' \in SUBSET Auctions /\ Agree(auctions', entries, ~truncated')
    /\ aitems' \subseteq Items /\ \A a \in auctions' : a.item \in aitems'

LEMMA HandlerKeeps ==
  ASSUME IInv, NEW p \in Players, p \in online,
         NEW money, NEW items, NEW mails, NEW entries, NEW gone,
         KeepsGood(p, items, mails, entries, gone),
         Stores(p, money, items, mails, entries, gone),
         Follows(p, money, items, mails, entries)
  PROVE  IInv'
<1>0. PICK lost \in Nat :
        /\ ~truncated' => Balanced(Put(Last.gold, p, money), mails, entries, lost)
        /\ Commit(Row(Put(Last.gold, p, money), Put(Last.bag, p, items), mails, entries, lost,
                      gone))
  BY DEF Stores
<1> DEFINE moneys == Put(Last.gold, p, money)
           bags == Put(Last.bag, p, items)
           b == Row(moneys, bags, mails, entries, lost, gone)
<1>1. TypeOK /\ Last \in Books
  BY LastType DEF IInv
<1>2. /\ moneys \in [Players -> Nat] /\ bags \in [Players -> SUBSET Items]
      /\ moneys[p] = money /\ bags[p] = items
      /\ \A q \in Players \ {p} : moneys[q] = Last.gold[q] /\ bags[q] = Last.bag[q]
  <2>1. /\ Last.gold \in [Players -> Nat] /\ Last.bag \in [Players -> SUBSET Items]
        /\ money \in Nat /\ items \in SUBSET Items
    BY <1>1, BookIs DEF Stores
  <2>2. /\ moneys \in [Players -> Nat] /\ moneys[p] = money
        /\ \A q \in Players \ {p} : moneys[q] = Last.gold[q]
    BY <2>1 DEF Put
  <2>3. /\ bags \in [Players -> SUBSET Items] /\ bags[p] = items
        /\ \A q \in Players \ {p} : bags[q] = Last.bag[q]
    BY <2>1, PutBag
  <2> QED BY <2>2, <2>3
<1> HIDE DEF moneys, bags
<1>3. /\ b \in Books /\ b.gold = moneys /\ b.bag = bags /\ b.mails = mails
      /\ b.auctions = entries /\ b.sunk = lost /\ b.discarded = gone
  BY <1>0, <1>2, RowFields DEF Books, Row, KeepsGood
<1> HIDE DEF b
<1>4. p \notin waiting
  BY DEF IInv, WaitingCurrent
<1>5. GoodCommit(p, b)
  <2>1. Commit(b)
    BY <1>0 DEF b, moneys, bags
  <2>2. BookGood(b, nextMail', nextAuction')
    BY <1>3 DEF BookGood, KeepsGood, bags
  <2>3. (~truncated' => BookBalanced(b)) /\ (truncated => truncated')
    BY <1>0, <1>3 DEF BookBalanced, moneys, Follows
  <2> QED BY <1>2, <1>3, <1>4, <2>1, <2>2, <2>3 DEF GoodCommit, KeepsGood
<1>6. /\ durable' \in Seq(Books) /\ durable' # <<>> /\ Last' = b
      /\ BooksGood' /\ BooksBalanced' /\ WaitingCurrent'
      /\ \A q \in online \ loaded : \A i \in DOMAIN durable' :
            MailsOf(durable'[i], q) \subseteq b.mails
  BY <1>5, CommitKeeps DEF Follows
<1>7. /\ gold' \in [Players -> Nat] /\ bag' \in [Players -> SUBSET Items]
      /\ (~truncated' => gold'[p] = money) /\ bag'[p] = items
      /\ \A q \in Players \ {p} : gold'[q] = gold[q] /\ bag'[q] = bag[q]
  <2>1. /\ gold \in [Players -> Nat] /\ bag \in [Players -> SUBSET Items]
        /\ money \in Nat /\ items \in SUBSET Items
    BY <1>1, MemoryType DEF Stores
  <2>2. /\ gold' \in [Players -> Nat] /\ (~truncated' => gold'[p] = money)
        /\ \A q \in Players \ {p} : gold'[q] = gold[q]
    BY <2>1 DEF Follows, Put
  <2>3. /\ bag' \in [Players -> SUBSET Items] /\ bag'[p] = items
        /\ \A q \in Players \ {p} : bag'[q] = bag[q]
    BY <2>1, PutBag DEF Follows
  <2> QED BY <2>2, <2>3
<1>8. TypeOK'
  BY <1>1, <1>6, <1>7 DEF TypeOK, Follows, KeepsGood, BoxesShow
<1>9. OnlineSaved'
  <2>1. online' = online /\ online \subseteq Players
    BY <1>1, MemoryType DEF Follows
  <2>2. \A q \in online : bag[q] = Last.bag[q] /\ (~truncated => gold[q] = Last.gold[q])
    BY DEF IInv, OnlineSaved
  <2>5. truncated => truncated'
    BY DEF Follows
  <2>3. \A q \in online \ {p} : bag'[q] = b.bag[q] /\ (~truncated' => gold'[q] = b.gold[q])
    BY <1>2, <1>3, <1>7, <2>1, <2>2, <2>5
  <2>4. (~truncated' => gold'[p] = b.gold[p]) /\ bag'[p] = b.bag[p]
    BY <1>2, <1>3, <1>7
  <2> QED BY <1>6, <2>1, <2>3, <2>4 DEF OnlineSaved
<1>10. UnloadedCurrent' /\ BoxSaved' /\ HouseSaved'
  BY <1>3, <1>6 DEF UnloadedCurrent, BoxSaved, HouseSaved, Shown, Agree, Follows, BoxesShow
<1> QED BY <1>6, <1>8, <1>9, <1>10 DEF IInv

\* One auction more, one less, one changed.
LEMMA AgreeAdds ==
  ASSUME NEW mem, NEW entries, NEW exact, NEW less, Agree(mem, entries, exact), less => exact,
         NEW a, \A c \in entries : c.id # a.id
  PROVE  Agree(mem \cup {a}, entries \cup {a}, less)
<1>1. \A x \in mem : x.id # a.id
  BY DEF Agree, SameSale
<1>2. SameSale(a, a)
  BY DEF SameSale
<1> QED BY <1>1, <1>2 DEF Agree

LEMMA AgreeDrops ==
  ASSUME NEW mem, NEW entries, NEW exact, Agree(mem, entries, exact),
         \A x, y \in entries : x.id = y.id => x = y,
         NEW a, NEW c \in entries, c.id = a.id
  PROVE  Agree(Without(mem, a), entries \ {c}, exact)
BY DEF Agree, SameSale, Without

LEMMA AgreeChanges ==
  ASSUME NEW mem, NEW entries, NEW exact, NEW less, Agree(mem, entries, exact), less => exact,
         \A x, y \in entries : x.id = y.id => x = y,
         NEW a \in mem, NEW c \in entries, c.id = a.id,
         NEW new, NEW row, new.id = a.id, SameSale(row, new), less => row = new
  PROVE  Agree(Rewrite(mem, a, new), (entries \ {c}) \cup {row}, less)
<1>1. \A x, y \in mem : x.id = y.id => x = y
  BY DEF Agree
<1>2. Rewrite(mem, a, new) = Without(mem, a) \cup {new}
  BY DEF Rewrite, Without
<1>3. Agree(Without(mem, a), entries \ {c}, exact)
  BY AgreeDrops
<1>4. \A x \in Without(mem, a) : x.id # new.id
  BY DEF Without
<1> HIDE DEF Rewrite
<1> QED BY <1>2, <1>3, <1>4 DEF Agree

\* The boxes stay as they are.
LEMMA BoxesStay ==
  ASSUME IInv, NEW exact, exact => ~truncated
  PROVE  BoxesShow(box, Last.mails, exact)
<1>1. box \in [Players -> SUBSET Mails]
  BY MemoryType DEF IInv
<1> QED BY <1>1, Found DEF BoxesShow, Shown

LEMMA HandleAuctionSellItemStep ==
  ASSUME IInv, NEW p \in Players, HandleAuctionSellItem(p)
  PROVE  IInv'
<1>1. PICK item \in bag[p] \ aitems, buyout \in Buyouts \cup {0}, change \in Charges(Deposit) :
        LET a == [id |-> nextAuction, item |-> item, owner |-> p, bidder |-> None,
                  bid |-> 0, buyout |-> buyout]
        IN /\ aitems' = aitems \cup {item}
           /\ auctions' = auctions \cup {a}
           /\ gold' = [gold EXCEPT ![p] = Modified(@, change)]
           /\ bag' = [bag EXCEPT ![p] = @ \ {item}]
           /\ Commit([Saved(Last, p, gold'[p], bag'[p]) EXCEPT !.auctions = @ \cup {a}])
           /\ truncated' = (truncated \/ change # -Deposit)
  BY DEF HandleAuctionSellItem
<1>2. /\ p \in online /\ gold[p] >= Deposit
      /\ UNCHANGED <<online, loaded, waiting, ahead, box, nextMail, over, crashes>>
      /\ nextAuction' = nextAuction + 1
  BY DEF HandleAuctionSellItem
<1> DEFINE a == [id |-> nextAuction, item |-> item, owner |-> p, bidder |-> None,
                 bid |-> 0, buyout |-> buyout]
           money == Modified(gold[p], change)
           items == bag[p] \ {item}
           gone == Last.discarded
           entries == Last.auctions \cup {a}
           bags == Put(Last.bag, p, items)
<1>3. gold' = Put(gold, p, money) /\ bag' = Put(bag, p, items)
  BY <1>1 DEF Put
<1>4. TypeOK
  BY DEF IInv
<1>21. /\ truncated' \in BOOLEAN /\ (truncated => truncated')
       /\ ~truncated' => ~truncated /\ change = -Deposit
  BY <1>1, <1>4 DEF TypeOK
<1>22. change \in Int /\ gold[p] \in Nat /\ Deposit \in Nat
  BY <1>4, ChargesAre, MemoryType, HouseAssumption
<1>5. money \in Nat /\ items \in SUBSET Items /\ item \in Items /\ bag[p] = Last.bag[p]
  BY <1>2, <1>4, <1>22, ModifiedIs, MemoryType, Found
<1>6. gold'[p] = money /\ bag'[p] = items
  <2>1. gold \in [Players -> Nat] /\ bag \in [Players -> SUBSET Items]
    BY <1>4, MemoryType
  <2> HIDE DEF money, items
  <2>2. gold'[p] = money
    BY <1>3, <2>1 DEF Put
  <2> QED BY <1>3, <1>5, <2>1, <2>2, PutBag
<1>7. a \in Auctions
  <2>1. nextAuction \in Nat /\ buyout \in Nat
    BY <1>4, MemoryType, HouseAssumption
  <2> QED BY <2>1, <1>5 DEF Auctions
<1>8. BookGood(Last, nextMail, nextAuction) /\ Last \in Books
  BY Found
<1>23. \A x \in Last.auctions : x.id # a.id
  <2>1. \A x \in Last.auctions : x.id < nextAuction /\ x.id \in Nat
    BY <1>8, BookIs DEF BookGood, AuctionsGood, Auctions
  <2>2. ~(nextAuction < nextAuction) /\ a.id = nextAuction
    BY <1>4, MemoryType
  <2> QED BY <2>1, <2>2
<1>20. ASSUME ~truncated' PROVE Balanced(Put(Last.gold, p, money), Last.mails, entries, Last.sunk)
  <2>0. ~truncated /\ change = -Deposit
    BY <1>20, <1>21
  <2>1. /\ Last.auctions \in SUBSET Auctions /\ IsFiniteSet(Last.auctions)
        /\ BidsGood(Last.auctions) /\ Last.sunk \in Nat /\ IsFiniteSet(Last.mails)
        /\ Posted(Last.mails) \in Int
    BY <2>0, FoundBalance
  <2>2. a \notin Last.auctions
    BY <1>23
  <2>3. a.bid = 0 /\ a.bidder = None /\ a.owner = p /\ p # None
    BY PlayersAssumption
  <2>4. 0 <= gold[p] + change /\ change <= 0
    BY <1>2, <1>22, <2>0
  <2>12. money = gold[p] + change
    BY <1>22, <2>4, ModifiedIs
  <2> DEFINE zero == 0
  <2>5. (money - gold[p]) + zero + Deposit + Last.sunk = Last.sunk /\ zero \in Int
    BY <1>22, <2>0, <2>1, <2>12
  <2> HIDE DEF a, money
  <2>6. IsFiniteSet(entries) /\ Staked(entries) = Staked(Last.auctions) + (a.bid + Deposit)
    BY <1>7, <2>1, <2>2, StakedAdds
  <2>7. Staked(entries) = Staked(Last.auctions) + Deposit
    BY <1>22, <2>3, <2>6
  <2>8. BidsGood(entries)
    BY <2>1, <2>3 DEF BidsGood
  <2>9. Posted(Last.mails) = Posted(Last.mails) + zero
    BY <2>1
  <2>10. money \in Nat /\ Deposit \in Int
    BY <1>5, <1>22
  <2> HIDE DEF entries, zero
  <2> QED BY <1>2, <2>0, <2>1, <2>5, <2>6, <2>7, <2>8, <2>9, <2>10, HandlerBalances
<1>9. Stores(p, money, items, Last.mails, entries, gone)
  <2> DEFINE s == Saved(Last, p, money, items)
             b == Row(Put(Last.gold, p, money), bags, Last.mails, entries, Last.sunk, gone)
  <2>1. s = Row(Put(Last.gold, p, money), bags, Last.mails, Last.auctions, Last.sunk, gone)
    <3> HIDE DEF money, items
    <3> QED BY <1>8, BookIs, SavedIs
  <2>2. Commit([s EXCEPT !.auctions = @ \cup {a}])
    BY <1>1, <1>6
  <2>3. Commit(b)
    <3> HIDE DEF s, a, money, bags, gone
    <3> QED BY <2>1, <2>2 DEF Row
  <2>4. Last.sunk \in Nat
    BY <1>8, BookIs
  <2> HIDE DEF money, items, entries, a, gone
  <2> QED BY <1>5, <1>20, <2>3, <2>4 DEF Stores, bags
<1>10. MailsGood(Last.mails, nextMail') /\ AuctionsGood(entries, nextAuction')
  BY <1>2, <1>4, <1>7, <1>8, BookIs, MemoryType DEF BookGood, AuctionsGood, Auctions
<1>11. /\ \A q \in Players \ {p} : bags[q] = Last.bag[q]
       /\ bags[p] = Last.bag[p] \ {item} /\ item \in Last.bag[p]
  BY <1>1, <1>5, <1>8, BookIs, PutBag
<1>12. a.item = item /\ a \in entries
  OBVIOUS
<1>13. KeepsGood(p, items, Last.mails, entries, gone)
  <2> HIDE DEF a, bags, items
  <2>1. Alone(bags, Last.mails, entries, gone)
    BY <1>8, <1>11, <1>12 DEF BookGood, Alone
  <2>2. LogTrade => Somewhere(bags, Last.mails, entries, gone)
    BY <1>8, <1>11, <1>12 DEF BookGood, Somewhere
  <2>3. Last.mails \in SUBSET Mails /\ entries \in SUBSET Auctions /\ gone \in SUBSET Items
    BY <1>7, <1>8, BookIs
  <2>4. /\ nextMail' \in Nat /\ nextMail <= nextMail'
        /\ nextAuction' \in Nat /\ nextAuction <= nextAuction'
    BY <1>2, <1>4, MemoryType
  <2> QED BY <1>10, <2>1, <2>2, <2>3, <2>4 DEF KeepsGood, bags
<1>14. /\ auctions' \in SUBSET Auctions /\ aitems' \subseteq Items
       /\ \A x \in auctions' : x.item \in aitems'
  BY <1>1, <1>4, <1>5, <1>7, <1>12, Found, MemoryType
<1>24. Agree(auctions', entries, ~truncated')
  <2>1. auctions' = auctions \cup {a} /\ Agree(auctions, Last.auctions, ~truncated)
    BY <1>1, Found
  <2>2. ~truncated' => ~truncated
    BY <1>21
  <2> HIDE DEF a
  <2> QED BY <1>23, <2>1, <2>2, AgreeAdds
<1>15. BoxesShow(box', Last.mails, ~truncated')
  BY <1>2, <1>21, BoxesStay
<1> HIDE DEF money, items, entries, gone
<1>16. Follows(p, money, items, Last.mails, entries)
  BY <1>2, <1>3, <1>14, <1>15, <1>21, <1>24 DEF Follows
<1> QED BY <1>2, <1>9, <1>13, <1>16, HandlerKeeps

\* New mails have new ids.
LEMMA MailsGrow ==
  ASSUME NEW mails \in SUBSET Mails, NEW added \in SUBSET Mails,
         NEW next \in Nat, NEW next2 \in Nat, next <= next2, MailsGood(mails, next),
         \A x \in added : x.id >= next /\ x.id < next2 /\ x.cod = 0,
         \A x, y \in added : x.id = y.id => x = y
  PROVE  MailsGood(mails \cup added, next2)
BY DEF MailsGood, Mails

LEMMA DeliverIs ==
  ASSUME IInv, NEW mails \in SUBSET Mails, \A m \in mails : m.cod > 0 => m.from \in Players,
         NEW exact, exact => ~truncated
  PROVE  /\ BoxesShow(Deliver(mails), Last.mails \cup mails, exact)
         /\ \A q \in Players : \A m \in Deliver(mails)[q] : m \in box[q] \/ m \in mails
<1>1. box \in [Players -> SUBSET Mails]
  BY MemoryType DEF IInv
<1>2. /\ Deliver(mails) \in [Players -> SUBSET Mails]
      /\ \A q \in Players : \A m \in Deliver(mails)[q] :
           m \in box[q] \/ (m \in mails /\ m.to = q /\ q \in loaded)
  BY <1>1 DEF Deliver
<1>3. \A m \in mails : Shown(m, Last.mails \cup mails, exact)
  BY DEF Shown, SameMail
<1>4. BoxesShow(box, Last.mails, exact)
  BY BoxesStay
<1>5. \A m : Shown(m, Last.mails, exact) => Shown(m, Last.mails \cup mails, exact)
  BY DEF Shown
<1> QED BY <1>2, <1>3, <1>4, <1>5 DEF BoxesShow

\* One mail, to a bidder who loses his bid.
LEMMA OutbiddedIs ==
  ASSUME NEW a \in Auctions, NEW p, NEW id \in Nat
  PROVE  LET mails == OutbiddedMail(a, p, id)
         IN /\ mails \in SUBSET Mails
            /\ \A m \in mails : m.id = id /\ m.item = None /\ m.cod = 0
            /\ \A m, n \in mails : m = n
            /\ Cardinality(mails) \in 0..1
            /\ mails # {} => Cardinality(mails) = 1
<1> DEFINE letter == Letter(id, a.bidder, House, a.bid, None, 0)
           mails == OutbiddedMail(a, p, id)
<1>1. a.bidder \in Players \cup {None} /\ a.bid \in Nat
  BY DEF Auctions
<1>2. mails = {} \/ (mails = {letter} /\ a.bidder \in Players)
  BY DEF OutbiddedMail
<1>3. Cardinality({}) = 0 /\ Cardinality({letter}) = 1
  BY FS_EmptySet, FS_Singleton
<1>4. a.bidder \in Players =>
        letter \in Mails /\ letter.id = id /\ letter.item = None /\ letter.cod = 0
  BY <1>1 DEF Letter, Mails
<1> HIDE DEF letter, mails
<1>5. /\ Cardinality(mails) \in 0..1 /\ (mails # {} => Cardinality(mails) = 1)
  BY <1>2, <1>3
<1>6. /\ mails \in SUBSET Mails /\ \A m, n \in mails : m = n
      /\ \A m \in mails : m.id = id /\ m.item = None /\ m.cod = 0
  BY <1>2, <1>4
<1> QED BY <1>5, <1>6 DEF mails

\* The bid he gets back.
GivenBack(a, p) == IF a.bidder \in Players \ {p} THEN a.bid ELSE 0

LEMMA OutbiddedPays ==
  ASSUME NEW a \in Auctions, NEW p, NEW id \in Nat
  PROVE  /\ GivenBack(a, p) \in Nat
         /\ \A m \in OutbiddedMail(a, p, id) : m.money = GivenBack(a, p)
         /\ OutbiddedMail(a, p, id) = {} => GivenBack(a, p) = 0
<1> DEFINE letter == Letter(id, a.bidder, House, a.bid, None, 0)
<1>1. letter.money = a.bid /\ a.bid \in Nat
  BY DEF Letter, Auctions
<1> HIDE DEF letter
<1>2. OutbiddedMail(a, p, id) = IF a.bidder \in Players \ {p} THEN {letter} ELSE {}
  BY DEF OutbiddedMail, letter
<1> QED BY <1>1, <1>2 DEF GivenBack

\* Who pays the price and who gets the bid back are not the same.
LEMMA PriceOrBack ==
  ASSUME NEW a \in Auctions, NEW p \in Players, NEW price \in Nat,
         a.bidder = None => a.bid = 0
  PROVE  Price(a, p, price) \in Int /\ Price(a, p, price) = price - (a.bid - GivenBack(a, p))
BY DEF Auctions, Price, GivenBack

\* A price is not negative, and who can bid can pay it.
LEMMA PriceIs ==
  ASSUME NEW a \in Auctions, NEW p \in Players, NEW amount \in Nat, NEW price \in Nat,
         CanBid(p, a, amount), gold[p] \in Nat, price <= amount
  PROVE  gold[p] - Price(a, p, price) \in Nat
BY DEF Auctions, CanBid, Price

LEMMA HandleAuctionPlaceBidStep ==
  ASSUME IInv, NEW p \in Players, HandleAuctionPlaceBid(p)
  PROVE  IInv'
<1>1. PICK a \in auctions, amount \in Amounts :
        LET outbid == OutbiddedMail(a, p, nextMail)
            raised == [a EXCEPT !.bidder = p, !.bid = amount]
        IN /\ CanBid(p, a, amount)
           /\ gold' = [gold EXCEPT ![p] = @ - Price(a, p, amount)]
           /\ auctions' = Rewrite(auctions, a, raised)
           /\ box' = Deliver(outbid)
           /\ Commit(Inserted([Saved(Last, p, gold'[p], bag[p])
                                 EXCEPT !.auctions = Rewrite(@, a, [raised EXCEPT !.bid = Low(@)])],
                              outbid))
           /\ truncated' = (truncated \/ Low(amount) # amount)
           /\ nextMail' = nextMail + Cardinality(outbid)
           /\ UNCHANGED <<online, loaded, waiting, ahead, bag, aitems, over,
                          nextAuction, crashes>>
  BY DEF HandleAuctionPlaceBid
<1>40. PICK c \in Last.auctions : SameSale(c, a) /\ (~truncated => c = a) /\ c \in Auctions
  BY FoundSale
<1> DEFINE outbid == OutbiddedMail(a, p, nextMail)
           raised == [a EXCEPT !.bidder = p, !.bid = amount]
           row == [raised EXCEPT !.bid = Low(@)]
           money == gold[p] - Price(a, p, amount)
           gone == Last.discarded
           items == bag[p]
           mails == Last.mails \cup outbid
           entries == (Last.auctions \ {c}) \cup {row}
           bags == Put(Last.bag, p, items)
<1>2. TypeOK
  BY DEF IInv
<1>3. BookGood(Last, nextMail, nextAuction) /\ Last \in Books
  BY Found
<1>41. /\ truncated' \in BOOLEAN /\ (truncated => truncated')
       /\ ~truncated' => ~truncated /\ Low(amount) = amount
  BY <1>1, <1>2 DEF TypeOK
<1>42. /\ c.id = a.id /\ c.item = a.item
       /\ \A x, y \in Last.auctions : x.id = y.id => x = y
  BY <1>3, <1>40 DEF SameSale, BookGood, AuctionsGood
<1>4. p \in online /\ amount \in Nat /\ a \in Auctions /\ a.bid < amount
  BY <1>1, <1>2, HouseAssumption, MemoryType DEF CanBid, Auctions
<1>5. money \in Nat /\ items \in SUBSET Items /\ items = Last.bag[p]
  <2>1. gold[p] \in Nat /\ CanBid(p, a, amount)
    BY <1>1, <1>2, MemoryType
  <2> QED BY <1>2, <1>4, <2>1, PriceIs, MemoryType, Found
<1>6. gold' = Put(gold, p, money) /\ bag' = Put(bag, p, items)
  BY <1>1, <1>2, MemoryType DEF Put
<1>7. gold'[p] = money
  <2>1. gold \in [Players -> Nat]
    BY <1>2, MemoryType
  <2> HIDE DEF money
  <2> QED BY <1>6, <2>1 DEF Put
<1>8. raised \in Auctions /\ raised.id = a.id /\ raised.item = a.item
  BY <1>4 DEF Auctions
<1>9. /\ outbid \in SUBSET Mails
      /\ \A m \in outbid : m.id = nextMail /\ m.item = None /\ m.cod = 0
      /\ \A m, n \in outbid : m = n
      /\ Cardinality(outbid) \in 0..1 /\ (outbid # {} => Cardinality(outbid) = 1)
  BY <1>2, <1>4, MemoryType, OutbiddedIs
<1>31. raised.bid = amount /\ raised.bidder = p /\ raised.owner = a.owner
  BY <1>4 DEF Auctions
<1>32. /\ GivenBack(a, p) \in Nat /\ \A m \in outbid : m.money = GivenBack(a, p)
       /\ outbid = {} => GivenBack(a, p) = 0
  BY <1>2, <1>4, MemoryType, OutbiddedPays
<1>43. /\ row \in Auctions /\ SameSale(row, raised) /\ row.id = c.id /\ row.item = c.item
       /\ ~truncated' => row = raised
  <2> DEFINE bid == Low(amount)
  <2>1. bid \in Nat /\ (~truncated' => bid = raised.bid)
    BY <1>4, <1>31, <1>41, LowIs
  <2>2. row = [raised EXCEPT !.bid = bid]
    BY <1>31
  <2> HIDE DEF raised, row, bid
  <2> QED BY <1>8, <1>42, <2>1, <2>2 DEF Auctions, SameSale
<1> HIDE DEF raised, outbid, row
<1>10. Rewrite(Last.auctions, a, row) = entries
  BY <1>42, RewriteIs
<1>24. ASSUME ~truncated' PROVE Balanced(Put(Last.gold, p, money), mails, entries, Last.sunk)
  <2>0. ~truncated /\ row = raised /\ c = a
    BY <1>24, <1>40, <1>41, <1>43
  <2>1. /\ Last.auctions \in SUBSET Auctions /\ IsFiniteSet(Last.auctions)
        /\ BidsGood(Last.auctions) /\ Last.sunk \in Nat
        /\ Last.mails \in SUBSET Mails /\ IsFiniteSet(Last.mails)
    BY <2>0, FoundBalance
  <2>2. a \in Last.auctions /\ nextMail \in Nat /\ gold[p] \in Nat
    BY <1>2, <2>0, MemoryType
  <2>3. raised \notin Last.auctions \ {a}
    BY <1>3, <1>8, <2>2 DEF BookGood, AuctionsGood
  <2>4. IsFiniteSet(entries) /\ Staked(entries) = Staked(Last.auctions) + (amount - a.bid)
    BY <1>8, <1>31, <2>0, <2>1, <2>2, <2>3, StakedInstead
  <2>5. \A m \in outbid : m \notin Last.mails
    BY <1>9, <2>2, NewMail
  <2>6. IsFiniteSet(mails) /\ Posted(mails) = Posted(Last.mails) + GivenBack(a, p)
    <3> DEFINE old == Last.mails
               w == GivenBack(a, p)
    <3>1. old \in SUBSET Mails /\ IsFiniteSet(old) /\ w \in Int /\ outbid \in SUBSET Mails
      BY <1>9, <1>32, <2>1
    <3>2. (\A x, y \in outbid : x = y) /\ (outbid = {} => w = 0)
          /\ \A x \in outbid : x \notin old /\ x.money = w
      BY <1>9, <1>32, <2>5
    <3> HIDE DEF old, w
    <3>3. IsFiniteSet(old \cup outbid) /\ Posted(old \cup outbid) = Posted(old) + w
      BY <3>1, <3>2, PostedOne
    <3> QED BY <3>3 DEF old, w
  <2>7. a.owner # p /\ p # None /\ (a.bidder = None => a.bid = 0)
    BY <1>1, <2>1, <2>2, PlayersAssumption DEF CanBid, BidsGood
  <2>8. BidsGood(entries)
    BY <1>31, <2>0, <2>1, <2>7 DEF BidsGood
  <2>9. Price(a, p, amount) \in Int /\ Price(a, p, amount) = amount - (a.bid - GivenBack(a, p))
    BY <1>4, <2>7, PriceOrBack
  <2>10. a.bid \in Nat /\ amount - a.bid \in Int
    BY <1>4 DEF Auctions
  <2>11. (money - gold[p]) + GivenBack(a, p) + (amount - a.bid) + Last.sunk = Last.sunk
    BY <1>4, <1>32, <2>1, <2>2, <2>9, <2>10
  <2> HIDE DEF money, mails, entries
  <2> QED BY <1>4, <1>5, <1>32, <2>0, <2>1, <2>4, <2>6, <2>8, <2>10, <2>11, HandlerBalances
<1>11. Stores(p, money, items, mails, entries, gone)
  <2> DEFINE s == Saved(Last, p, money, items)
             r == [s EXCEPT !.auctions = Rewrite(@, a, row)]
  <2>1. s = Row(Put(Last.gold, p, money), bags, Last.mails, Last.auctions, Last.sunk, gone)
    <3> HIDE DEF money, items
    <3> QED BY <1>3, BookIs, SavedIs
  <2>2. Commit(Inserted(r, outbid))
    BY <1>1, <1>7 DEF outbid, row, raised
  <2>3. Last.sunk \in Nat
    BY <1>3, BookIs
  <2> HIDE DEF s, money, bags, gone
  <2>4. r = Row(Put(Last.gold, p, money), bags, Last.mails, entries, Last.sunk, gone)
    BY <2>1, <1>3, <1>10 DEF Row
  <2>5. Commit(Row(Put(Last.gold, p, money), bags, mails, entries, Last.sunk, gone))
    <3> HIDE DEF r, items, entries
    <3> QED BY <2>2, <2>4, InsertedIs DEF mails
  <2> HIDE DEF r, items, entries, mails
  <2> QED BY <1>5, <1>24, <2>3, <2>5 DEF Stores, bags
<1>12. /\ nextMail' = nextMail + Cardinality(outbid) /\ nextAuction' = nextAuction
       /\ nextMail' \in Nat /\ nextMail <= nextMail'
       /\ nextAuction' \in Nat /\ nextAuction <= nextAuction'
       /\ UNCHANGED <<online, loaded, waiting, ahead, aitems, over, crashes>>
  BY <1>1, <1>2, <1>9, MemoryType DEF outbid
<1>13. MailsGood(mails, nextMail')
  <2>1. \A x \in outbid : x.id >= nextMail /\ x.id < nextMail'
    BY <1>2, <1>9, <1>12, MemoryType
  <2>2. Last.mails \in SUBSET Mails /\ nextMail \in Nat /\ MailsGood(Last.mails, nextMail)
    BY <1>2, <1>3, BookIs, MemoryType DEF BookGood
  <2>3. /\ \A x \in outbid : x.id >= nextMail /\ x.id < nextMail' /\ x.cod = 0
        /\ \A x, y \in outbid : x.id = y.id => x = y
        /\ outbid \in SUBSET Mails
    BY <1>9, <2>1
  <2>4. nextMail' \in Nat /\ nextMail <= nextMail'
    BY <1>12
  <2> QED BY <2>2, <2>3, <2>4, MailsGrow
<1>14. AuctionsGood(entries, nextAuction')
  BY <1>3, <1>12, <1>43 DEF BookGood, AuctionsGood
<1>15. bags = Last.bag
  BY <1>3, <1>5, BookIs, PutBag
<1>16. Alone(bags, mails, entries, gone)
  <2>1. Alone(Last.bag, Last.mails, Last.auctions, gone)
    BY <1>3 DEF BookGood
  <2>2. \A m \in outbid : m.item \notin gone /\ m.item \notin Items
    BY <1>3, <1>9, BookIs, PlayersAssumption
  <2>3. /\ Last.bag \in [Players -> SUBSET Items] /\ row.item \in Items
        /\ \A x \in Last.auctions : x.item \in Items
    BY <1>3, <1>43, BookIs DEF Auctions
  <2> HIDE DEF gone, bags
  <2> QED BY <1>9, <1>15, <1>43, <2>1, <2>2, <2>3 DEF Alone
<1>17. LogTrade => Somewhere(bags, mails, entries, gone)
  BY <1>3, <1>15, <1>43 DEF BookGood, Somewhere
<1>18. /\ mails \in SUBSET Mails /\ entries \in SUBSET Auctions /\ Last.sunk \in Nat
       /\ gone \in SUBSET Items
  BY <1>3, <1>43, <1>9, BookIs
<1>19. /\ auctions' = Rewrite(auctions, a, raised) /\ auctions' \in SUBSET Auctions
       /\ aitems' \subseteq Items /\ \A x \in auctions' : x.item \in aitems'
  <2>1. auctions' = Rewrite(auctions, a, raised) /\ aitems' = aitems
    BY <1>1, <1>12 DEF raised
  <2>2. auctions \in SUBSET Auctions /\ aitems \in SUBSET Items /\ \A x \in auctions : x.item \in aitems
    BY <1>2, Found, MemoryType
  <2> QED BY <1>8, <2>1, <2>2 DEF Rewrite
<1>44. Agree(auctions', entries, ~truncated')
  <2>1. Agree(auctions, Last.auctions, ~truncated) /\ (~truncated' => ~truncated)
    BY <1>41, Found
  <2> QED BY <1>8, <1>19, <1>42, <1>43, <2>1, AgreeChanges
<1>20. BoxesShow(box', mails, ~truncated')
  <2>1. box' = Deliver(outbid) /\ \A m \in outbid : m.cod > 0 => m.from \in Players
    BY <1>1, <1>9 DEF outbid
  <2> QED BY <1>9, <1>41, <2>1, DeliverIs
<1>21. \A m \in Last.mails : m \in mails
  OBVIOUS
<1> HIDE DEF money, items, mails, entries, gone
<1>22. KeepsGood(p, items, mails, entries, gone)
  BY <1>12, <1>13, <1>14, <1>16, <1>17, <1>18, <1>21 DEF KeepsGood, bags
<1>23. Follows(p, money, items, mails, entries)
  BY <1>6, <1>12, <1>19, <1>20, <1>41, <1>44 DEF Follows
<1> QED BY <1>4, <1>11, <1>22, <1>23, HandlerKeeps
-----------------------------------------------------------------------------
(* The end of an auction.                                                  *)

LEMMA CutIs ==
  ASSUME NEW bid \in Nat
  PROVE  Cut(bid) \in Nat /\ Cut(bid) <= bid
<1>1. CutPercent \in Nat /\ CutPercent <= 100
  BY HouseAssumption
<1> DEFINE c == bid * CutPercent
<1>2. c \in Nat /\ c <= bid * 100
  BY <1>1
<1> HIDE DEF c
<1>3. c \div 100 \in Nat /\ c \div 100 <= bid
  BY <1>2
<1> QED BY <1>3 DEF Cut, c

\* The other mails of an auction: at most one of each, with the money or the
\* item that the auction held.
LEMMA SuccessfulIs ==
  ASSUME NEW a \in Auctions, NEW bid \in Nat, NEW id \in Nat
  PROVE  /\ SuccessfulMail(a, bid, id) \in SUBSET Mails
         /\ \A m \in SuccessfulMail(a, bid, id) : m.id = id /\ m.item = None /\ m.cod = 0
         /\ \A m, n \in SuccessfulMail(a, bid, id) : m = n
<1> DEFINE letter == Letter(id, a.owner, House, bid + Deposit - Cut(bid), None, 0)
<1>1. bid + Deposit - Cut(bid) \in Nat /\ a.owner \in Players
  BY CutIs, HouseAssumption DEF Auctions
<1>2. letter \in Mails /\ letter.id = id /\ letter.item = None /\ letter.cod = 0
  BY <1>1 DEF Letter, Mails
<1>3. SuccessfulMail(a, bid, id) \subseteq {letter}
  BY DEF SuccessfulMail
<1> HIDE DEF letter
<1> QED BY <1>2, <1>3

LEMMA WonIs ==
  ASSUME NEW a \in Auctions, NEW winner \in Players, NEW id \in Nat
  PROVE  /\ WonMail(a, winner, id) \in SUBSET Mails
         /\ \A m \in WonMail(a, winner, id) : m.id = id /\ m.item = a.item /\ m.cod = 0
         /\ \A m, n \in WonMail(a, winner, id) : m = n
         /\ a.item \in aitems /\ (winner \in online \/ LogTrade) => WonMail(a, winner, id) # {}
<1> DEFINE letter == Letter(id, winner, House, 0, a.item, 0)
<1>1. letter \in Mails /\ letter.id = id /\ letter.item = a.item /\ letter.cod = 0
  BY DEF Letter, Mails, Auctions
<1>2. /\ WonMail(a, winner, id) \subseteq {letter}
      /\ a.item \in aitems /\ (winner \in online \/ LogTrade) => WonMail(a, winner, id) # {}
  BY DEF WonMail
<1> HIDE DEF letter
<1> QED BY <1>1, <1>2

LEMMA BackIs ==
  ASSUME NEW a \in Auctions, NEW id \in Nat
  PROVE  LET letter == Letter(id, a.owner, House, 0, a.item, 0)
         IN letter \in Mails /\ letter.id = id /\ letter.item = a.item /\ letter.cod = 0
BY DEF Letter, Mails, Auctions

Proceeds(bid) == bid + Deposit - Cut(bid)

LEMMA SuccessfulPays ==
  ASSUME NEW a \in Auctions, NEW bid \in Nat, NEW id \in Nat, a.item \in aitems
  PROVE  /\ Proceeds(bid) \in Nat /\ Cut(bid) \in Nat
         /\ Proceeds(bid) + Cut(bid) = bid + Deposit
         /\ \A m \in SuccessfulMail(a, bid, id) : m.money = Proceeds(bid)
         /\ SuccessfulMail(a, bid, id) # {}
<1> DEFINE w == bid + Deposit - Cut(bid)
           letter == Letter(id, a.owner, House, w, None, 0)
<1>1. w \in Nat /\ Cut(bid) \in Nat /\ w + Cut(bid) = bid + Deposit
  BY CutIs, HouseAssumption
<1>2. SuccessfulMail(a, bid, id) = {letter}
  BY DEF SuccessfulMail
<1> HIDE DEF w
<1>3. letter.money = w
  BY DEF Letter
<1> HIDE DEF letter
<1> QED BY <1>1, <1>2, <1>3 DEF w, Proceeds

LEMMA WonIsFree ==
  ASSUME NEW a, NEW winner, NEW id
  PROVE  \A m \in WonMail(a, winner, id) : m.money = 0
BY DEF WonMail, Letter

\* What one auction ends with: mails with new ids, one of them with its item.
EndsWith(a, added, next) ==
    /\ added \in SUBSET Mails
    /\ \A m \in added : m.id >= nextMail /\ m.id < next /\ m.cod = 0
    /\ \A m, n \in added : m.id = n.id => m = n
    /\ \A m \in added : m.item \in {None, a.item}
    /\ \A m, n \in added : m.item = n.item /\ m.item # None => m = n
    /\ LogTrade => \E m \in added : m.item = a.item

LEMMA AuctionEnds ==
  ASSUME IInv, NEW a \in auctions, NEW c \in Last.auctions, SameSale(c, a),
         NEW added, NEW next \in Nat, nextMail <= next, EndsWith(a, added, next)
  PROVE  /\ Without(Last.auctions, a) = Last.auctions \ {c}
         /\ Without(auctions, a) \in SUBSET Auctions
         /\ Agree(Without(auctions, a), Last.auctions \ {c}, ~truncated)
         /\ MailsGood(Last.mails \cup added, next)
         /\ AuctionsGood(Last.auctions \ {c}, nextAuction)
         /\ Alone(Last.bag, Last.mails \cup added, Last.auctions \ {c}, Last.discarded)
         /\ LogTrade => Somewhere(Last.bag, Last.mails \cup added, Last.auctions \ {c},
                                  Last.discarded)
         /\ \A x \in Without(auctions, a) : x.item \in aitems \ {a.item}
<1>1. /\ BookGood(Last, nextMail, nextAuction) /\ Last \in Books
      /\ Agree(auctions, Last.auctions, ~truncated)
      /\ \A x \in auctions : x.item \in aitems
  BY Found
<1>2. /\ Last.mails \in SUBSET Mails /\ Last.bag \in [Players -> SUBSET Items]
      /\ Last.auctions \in SUBSET Auctions /\ Last.discarded \in SUBSET Items
      /\ nextMail \in Nat /\ c.item = a.item /\ c.id = a.id /\ c.item \in Items
      /\ auctions \in SUBSET Auctions
  BY <1>1, BookIs, MemoryType DEF IInv, Auctions, SameSale
<1>3. \A x, y \in Last.auctions : x.id = y.id => x = y
  BY <1>1 DEF BookGood, AuctionsGood
<1>9. Without(Last.auctions, a) = Last.auctions \ {c} /\ Without(auctions, a) \in SUBSET Auctions
  <2>1. Without(Last.auctions, a) = Last.auctions \ {c}
    BY <1>2, <1>3 DEF Without
  <2> QED BY <1>2, <2>1 DEF Without
<1>10. Agree(Without(auctions, a), Last.auctions \ {c}, ~truncated)
  BY <1>1, <1>2, <1>3, AgreeDrops
<1>4. MailsGood(Last.mails \cup added, next)
  <2>1. MailsGood(Last.mails, nextMail) /\ Last.mails \in SUBSET Mails /\ nextMail \in Nat
    BY <1>1, <1>2 DEF BookGood
  <2>2. /\ added \in SUBSET Mails /\ \A x \in added : x.id >= nextMail /\ x.id < next /\ x.cod = 0
        /\ \A x, y \in added : x.id = y.id => x = y
    BY DEF EndsWith
  <2> QED BY <2>1, <2>2, MailsGrow
<1>5. AuctionsGood(Last.auctions \ {c}, nextAuction)
  BY <1>1 DEF BookGood, AuctionsGood
<1>6. Alone(Last.bag, Last.mails \cup added, Last.auctions \ {c}, Last.discarded)
  <2>1. Alone(Last.bag, Last.mails, Last.auctions, Last.discarded)
    BY <1>1 DEF BookGood
  <2>2. \A x \in Last.auctions : x.item # None
    BY <1>2, PlayersAssumption DEF Auctions
  <2>3. \A p \in Players : None \notin Last.bag[p] /\ a.item \notin Last.bag[p]
    BY <1>2, <2>1, PlayersAssumption DEF Alone
  <2>4. \A m \in added : m.item = None \/ m.item = a.item
    BY DEF EndsWith
  <2>5. \A m \in added, p \in Players : m.item \notin Last.bag[p]
    BY <2>3, <2>4
  <2>6. \A m \in added, x \in Last.auctions \ {c} : m.item # x.item
    BY <1>2, <2>1, <2>2, <2>4 DEF Alone
  <2>7. \A m, n \in Last.mails \cup added : m.item = n.item /\ m.item # None => m = n
    BY <1>2, <2>1, <2>4 DEF EndsWith, Alone
  <2>8. \A m \in added : m.item \notin Last.discarded
    BY <1>2, <2>1, <2>4, PlayersAssumption DEF Alone
  <2> QED BY <2>1, <2>5, <2>6, <2>7, <2>8 DEF Alone
<1>7. LogTrade => Somewhere(Last.bag, Last.mails \cup added, Last.auctions \ {c}, Last.discarded)
  BY <1>1, <1>2 DEF EndsWith, BookGood, Somewhere
<1>8. \A x \in Without(auctions, a) : x.item \in aitems \ {a.item}
  <2>1. \A x, y \in Last.auctions : x.item = y.item => x = y
    BY <1>1 DEF BookGood, Alone
  <2>2. ASSUME NEW x \in Without(auctions, a) PROVE x.item # a.item
    <3>1. PICK y \in Last.auctions \ {c} : SameSale(y, x)
      BY <1>10 DEF Agree
    <3> QED BY <1>2, <2>1, <3>1 DEF SameSale
  <2> QED BY <1>1, <2>2 DEF Without
<1> QED BY <1>4, <1>5, <1>6, <1>7, <1>8, <1>9, <1>10

\* The bid and the deposit go into the mails, to the house, or to p who is left with
\* money.
SharesOut(p, a, added, money, kept) ==
    /\ IsFiniteSet(Last.mails \cup added)
    /\ \E w \in Int : /\ Posted(Last.mails \cup added) = Posted(Last.mails) + w
                      /\ (money - gold[p]) + w + kept = a.bid + Deposit

\* A handler that ends an auction and takes money from p.
LEMMA EndingKeeps ==
  ASSUME IInv, NEW p \in Players, p \in online, NEW a \in auctions, NEW added,
         NEW money, NEW kept, money \in Nat /\ kept \in Nat,
         EndsWith(a, added, nextMail'), nextMail' \in Nat, nextMail <= nextMail',
         gold' = Put(gold, p, money),
         auctions' = Without(auctions, a), aitems' = aitems \ {a.item},
         box' = Deliver(added),
         Commit(Inserted(Ended(Saved(Last, p, money, bag[p]), a, kept), added)),
         UNCHANGED <<online, loaded, waiting, ahead, bag, truncated, over, nextAuction, crashes>>,
         ~truncated => SharesOut(p, a, added, money, kept)
  PROVE  IInv'
<1>16. PICK c \in Last.auctions : SameSale(c, a) /\ (~truncated => c = a) /\ c \in Auctions
  BY FoundSale
<1> DEFINE items == bag[p]
           mails == Last.mails \cup added
           entries == Last.auctions \ {c}
           bags == Put(Last.bag, p, items)
           gone == Last.discarded
<1>1. TypeOK /\ added \in SUBSET Mails /\ \A m \in added : m.cod > 0 => m.from \in Players
  BY DEF IInv, EndsWith
<1>2. Last \in Books
  BY Found
<1>3. items \in SUBSET Items /\ items = Last.bag[p] /\ bags = Last.bag
  BY <1>1, <1>2, MemoryType, Found, BookIs, PutBag
<1>4. bag' = Put(bag, p, items)
  BY <1>1, MemoryType, PutBag
<1>5. /\ Without(Last.auctions, a) = entries /\ Without(auctions, a) \in SUBSET Auctions
      /\ Agree(Without(auctions, a), entries, ~truncated)
      /\ MailsGood(mails, nextMail') /\ AuctionsGood(entries, nextAuction)
      /\ Alone(Last.bag, mails, entries, gone)
      /\ LogTrade => Somewhere(Last.bag, mails, entries, gone)
      /\ \A x \in Without(auctions, a) : x.item \in aitems \ {a.item}
  BY <1>16, AuctionEnds
<1>6. /\ mails \in SUBSET Mails /\ entries \in SUBSET Auctions /\ Last.sunk + kept \in Nat
      /\ gone \in SUBSET Items
  BY <1>1, <1>2, BookIs
<1>8. /\ nextAuction' \in Nat /\ nextAuction <= nextAuction' /\ nextAuction' = nextAuction
      /\ aitems' \subseteq Items /\ auctions' = Without(auctions, a)
      /\ truncated' = truncated /\ truncated \in BOOLEAN
      /\ UNCHANGED <<online, loaded, waiting, ahead, over, crashes>>
  BY <1>1, MemoryType DEF TypeOK
<1>7. BoxesShow(box', mails, ~truncated')
  BY <1>1, <1>8, DeliverIs
<1>9. \A m \in Last.mails : m \in mails
  OBVIOUS
<1>10. \A x \in auctions' : x.item \in aitems'
  BY <1>5
<1>17. auctions' \in SUBSET Auctions /\ Agree(auctions', entries, ~truncated')
  BY <1>5, <1>8
<1>18. truncated' \in BOOLEAN /\ (truncated => truncated')
  BY <1>8
<1>15. ASSUME ~truncated PROVE Balanced(Put(Last.gold, p, money), mails, entries, Last.sunk + kept)
  <2>1. /\ Last.auctions \in SUBSET Auctions /\ IsFiniteSet(Last.auctions)
        /\ BidsGood(Last.auctions) /\ Last.sunk \in Nat
    BY <1>15, FoundBalance
  <2>2. c = a /\ a \in Last.auctions /\ gold[p] \in Nat
    BY <1>1, <1>15, <1>16, MemoryType
  <2>3. IsFiniteSet(entries) /\ BidsGood(entries)
    BY <2>1, FS_RemoveElement DEF BidsGood
  <2>4. /\ Staked(Last.auctions) \in Int /\ Staked(entries) \in Int
        /\ Staked(Last.auctions) = (a.bid + Deposit) + Staked(entries)
    BY <2>1, <2>2, StakedTakes
  <2>11. PICK w \in Int : /\ Posted(mails) = Posted(Last.mails) + w
                          /\ (money - gold[p]) + w + kept = a.bid + Deposit
    BY <1>15 DEF SharesOut
  <2> DEFINE z == 0 - (a.bid + Deposit)
             sunk == Last.sunk + kept
  <2>5. a.bid \in Nat /\ Deposit \in Nat
    BY <2>1, <2>2, HouseAssumption DEF Auctions
  <2>6. z \in Int /\ sunk \in Nat
    BY <2>1, <2>5
  <2>7. Staked(entries) = Staked(Last.auctions) + z
    BY <2>4, <2>5
  <2>8. (money - gold[p]) + w + z + sunk = Last.sunk
    BY <2>1, <2>2, <2>5, <2>11
  <2> HIDE DEF entries, z, sunk
  <2>9. IsFiniteSet(mails) /\ Posted(mails) = Posted(Last.mails) + w
    BY <1>15, <2>11 DEF SharesOut
  <2> HIDE DEF mails
  <2>10. Balanced(Put(Last.gold, p, money), mails, entries, sunk)
    BY <1>15, <2>3, <2>6, <2>7, <2>8, <2>9, HandlerBalances
  <2> QED BY <2>10 DEF sunk
<1>11. Stores(p, money, items, mails, entries, gone)
  <2> DEFINE saved == Saved(Last, p, money, items)
             ended == Ended(saved, a, kept)
             moneys == Put(Last.gold, p, money)
             lost == Last.sunk + kept
  <2>1. saved = Row(moneys, bags, Last.mails, Last.auctions, Last.sunk, gone)
    <3> HIDE DEF items
    <3> QED BY <1>2, BookIs, SavedIs
  <2>2. Commit(Inserted(ended, added)) /\ lost \in Nat
    BY <1>6
  <2> HIDE DEF saved, bags, moneys, items, gone
  <2>3. ended = Row(moneys, bags, Last.mails, Without(Last.auctions, a), lost, gone)
    BY <2>1, EndedIs
  <2> HIDE DEF ended, lost
  <2>4. Commit(Row(moneys, bags, mails, entries, lost, gone))
    BY <1>5, <2>2, <2>3, InsertedIs
  <2> HIDE DEF mails, entries
  <2>5. ~truncated' => Balanced(moneys, mails, entries, lost)
    BY <1>8, <1>15 DEF moneys, lost
  <2> QED BY <1>3, <2>2, <2>4, <2>5 DEF Stores, bags, moneys
<1>12. Alone(bags, mails, entries, gone) /\ (LogTrade => Somewhere(bags, mails, entries, gone))
  BY <1>3, <1>5
<1> HIDE DEF items, mails, entries, gone
<1>13. KeepsGood(p, items, mails, entries, gone)
  BY <1>5, <1>6, <1>8, <1>9, <1>12 DEF KeepsGood, bags
<1>14. Follows(p, money, items, mails, entries)
  BY <1>4, <1>7, <1>8, <1>10, <1>17, <1>18 DEF Follows
<1> QED BY <1>11, <1>13, <1>14, HandlerKeeps

LEMMA BuyoutStep ==
  ASSUME IInv, NEW p \in Players, Buyout(p)
  PROVE  IInv'
<1>1. PICK a \in auctions, amount \in Amounts :
        LET mails == OutbiddedMail(a, p, nextMail)
                     \cup SuccessfulMail(a, a.buyout, nextMail + 1)
                     \cup WonMail(a, p, nextMail + 2)
        IN /\ CanBid(p, a, amount) /\ IsBuyout(a, amount)
           /\ gold' = [gold EXCEPT ![p] = @ - Price(a, p, a.buyout)]
           /\ auctions' = Without(auctions, a)
           /\ aitems' = aitems \ {a.item}
           /\ box' = Deliver(mails)
           /\ Commit(Inserted(Ended(Saved(Last, p, gold'[p], bag[p]), a, Cut(a.buyout)),
                              mails))
  BY DEF Buyout
<1> DEFINE outbid == OutbiddedMail(a, p, nextMail)
           paid == SuccessfulMail(a, a.buyout, nextMail + 1)
           won == WonMail(a, p, nextMail + 2)
           added == outbid \cup paid \cup won
           money == gold[p] - Price(a, p, a.buyout)
<1>2. TypeOK
  BY DEF IInv
<1>3. /\ p \in online /\ a \in Auctions /\ a.buyout \in Nat /\ a.bid \in Nat /\ amount \in Nat
      /\ nextMail \in Nat /\ a.item \in aitems /\ a.item \in Items /\ gold[p] \in Nat
  BY <1>1, <1>2, MemoryType, Found, HouseAssumption DEF CanBid, Auctions
<1>4. /\ outbid \in SUBSET Mails /\ paid \in SUBSET Mails /\ won \in SUBSET Mails
      /\ \A m \in outbid : m.id = nextMail /\ m.item = None /\ m.cod = 0
      /\ \A m \in paid : m.id = nextMail + 1 /\ m.item = None /\ m.cod = 0
      /\ \A m \in won : m.id = nextMail + 2 /\ m.item = a.item /\ m.cod = 0
      /\ \A m, n \in outbid : m = n
      /\ \A m, n \in paid : m = n
      /\ \A m, n \in won : m = n
      /\ won # {}
  BY <1>3, OutbiddedIs, SuccessfulIs, WonIs
<1>5. nextMail' = nextMail + 3
      /\ UNCHANGED <<online, loaded, waiting, ahead, bag, truncated, over, nextAuction, crashes>>
  BY DEF Buyout
<1> DEFINE back == GivenBack(a, p)
           share == Proceeds(a.buyout)
<1>12. /\ back \in Nat /\ \A m \in outbid : m.money = back
       /\ outbid = {} => back = 0
  BY <1>3, OutbiddedPays
<1>13. /\ share \in Nat /\ Cut(a.buyout) \in Nat /\ share + Cut(a.buyout) = a.buyout + Deposit
       /\ \A m \in paid : m.money = share
       /\ paid # {}
  <2> DEFINE id == nextMail + 1
             bid == a.buyout
  <2>1. id \in Nat /\ bid \in Nat /\ a \in Auctions /\ a.item \in aitems
    BY <1>3
  <2> HIDE DEF id, bid
  <2>2. /\ Proceeds(bid) \in Nat /\ Cut(bid) \in Nat /\ Proceeds(bid) + Cut(bid) = bid + Deposit
        /\ \A m \in SuccessfulMail(a, bid, id) : m.money = Proceeds(bid)
        /\ SuccessfulMail(a, bid, id) # {}
    BY <2>1, SuccessfulPays
  <2> QED BY <2>2 DEF id, bid
<1>14. \A m \in won : m.money = 0
  BY WonIsFree
<1> HIDE DEF outbid, paid, won, back, share
<1>15. ASSUME ~truncated
       PROVE  /\ IsFiniteSet(Last.mails \cup added)
              /\ Posted(Last.mails \cup added) = Posted(Last.mails) + (back + share + 0)
  <2> DEFINE old == Last.mails
  <2>1. old \in SUBSET Mails /\ IsFiniteSet(old)
    BY <1>15, FoundBalance
  <2>2. \A m \in added : m \notin old
    BY <1>3, <1>4, NewMail
  <2> HIDE DEF old
  <2>3. One(outbid, old, back)
    BY <1>4, <1>12, <2>2 DEF One
  <2>4. One(paid, old \cup outbid, share)
    BY <1>3, <1>4, <1>13, <2>2 DEF One
  <2>5. One(won, (old \cup outbid) \cup paid, 0)
    BY <1>3, <1>4, <1>14, <2>2 DEF One
  <2>6. /\ IsFiniteSet(old \cup (outbid \cup paid \cup won))
        /\ Posted(old \cup (outbid \cup paid \cup won)) = Posted(old) + (back + share + 0)
    BY <2>1, <2>3, <2>4, <2>5, PostedThree
  <2> QED BY <2>6 DEF old
<1>16. ASSUME ~truncated PROVE SharesOut(p, a, added, money, Cut(a.buyout))
  <2>1. a.bidder = None => a.bid = 0
    BY <1>16, FoundBalance, Found DEF BidsGood
  <2>2. /\ Price(a, p, a.buyout) \in Int
        /\ Price(a, p, a.buyout) = a.buyout - (a.bid - back)
    BY <1>3, <2>1, PriceOrBack DEF back
  <2>3. Deposit \in Nat
    BY HouseAssumption
  <2> DEFINE w == back + share + 0
  <2>4. (money - gold[p]) + w + Cut(a.buyout) = a.bid + Deposit /\ w \in Int
    <3> DEFINE price == Price(a, p, a.buyout)
               cut == Cut(a.buyout)
               bid == a.bid
               buyout == a.buyout
               had == gold[p]
    <3>1. /\ price \in Int /\ cut \in Nat /\ bid \in Nat /\ buyout \in Nat /\ had \in Nat
          /\ back \in Nat /\ share \in Nat
          /\ price = buyout - (bid - back) /\ share + cut = buyout + Deposit
      BY <1>3, <1>12, <1>13, <2>2
    <3>2. money = had - price
      OBVIOUS
    <3> HIDE DEF money, price, cut, bid, buyout, had
    <3>3. (money - had) + w + cut = bid + Deposit /\ w \in Int
      BY <2>3, <3>1, <3>2
    <3> QED BY <3>3 DEF cut, bid, had
  <2>5. IsFiniteSet(Last.mails \cup added) /\ Posted(Last.mails \cup added) = Posted(Last.mails) + w
    BY <1>15, <1>16
  <2> HIDE DEF w, added, money
  <2> QED BY <2>4, <2>5 DEF SharesOut
<1>6. EndsWith(a, added, nextMail')
  BY <1>3, <1>4, <1>5, PlayersAssumption DEF EndsWith
<1>7. money \in Nat /\ Cut(a.buyout) \in Nat
  BY <1>1, <1>3, PriceIs, CutIs DEF IsBuyout, CanBid
<1>8. box' = Deliver(added) /\ gold' = Put(gold, p, money)
      /\ Commit(Inserted(Ended(Saved(Last, p, gold'[p], bag[p]), a, Cut(a.buyout)), added))
  BY <1>1 DEF outbid, paid, won, Put
<1> HIDE DEF added, money
<1>9. gold'[p] = money
  BY <1>2, <1>8, MemoryType DEF Put
<1>10. Commit(Inserted(Ended(Saved(Last, p, money, bag[p]), a, Cut(a.buyout)), added))
  BY <1>8, <1>9
<1>11. nextMail' \in Nat /\ nextMail <= nextMail'
  BY <1>3, <1>5
<1> QED BY <1>1, <1>3, <1>5, <1>6, <1>7, <1>8, <1>10, <1>11, <1>16, EndingKeeps

LEMMA HandleAuctionRemoveItemStep ==
  ASSUME IInv, NEW p \in Players, HandleAuctionRemoveItem(p)
  PROVE  IInv'
<1>1. PICK a \in auctions :
        LET cut == IF a.bidder = None THEN 0 ELSE Low(Cut(a.bid))
            mails == OutbiddedMail(a, p, nextMail)
                     \cup {Letter(nextMail + 1, p, House, 0, a.item, 0)}
        IN /\ a.owner = p /\ a.item \in aitems /\ gold[p] >= cut
           /\ gold' = [gold EXCEPT ![p] = @ - cut]
           /\ auctions' = Without(auctions, a)
           /\ aitems' = aitems \ {a.item}
           /\ box' = Deliver(mails)
           /\ Commit(Inserted(Ended(Saved(Last, p, gold'[p], bag[p]), a, cut + Deposit),
                              mails))
  BY DEF HandleAuctionRemoveItem
<1> DEFINE cut == IF a.bidder = None THEN 0 ELSE Low(Cut(a.bid))
           outbid == OutbiddedMail(a, p, nextMail)
           letter == Letter(nextMail + 1, a.owner, House, 0, a.item, 0)
           added == outbid \cup {letter}
           money == gold[p] - cut
<1>2. TypeOK
  BY DEF IInv
<1>3. /\ a \in Auctions /\ a.bid \in Nat /\ nextMail \in Nat /\ a.item \in Items
      /\ gold[p] \in Nat
  BY <1>2, MemoryType DEF Auctions
<1>4. /\ outbid \in SUBSET Mails /\ letter \in Mails
      /\ \A m \in outbid : m.id = nextMail /\ m.item = None /\ m.cod = 0
      /\ letter.id = nextMail + 1 /\ letter.item = a.item /\ letter.cod = 0
      /\ \A m, n \in outbid : m = n
  BY <1>3, OutbiddedIs, BackIs
<1>5. /\ nextMail' = nextMail + 2 /\ p \in online
      /\ UNCHANGED <<online, loaded, waiting, ahead, bag, truncated, over, nextAuction, crashes>>
  BY DEF HandleAuctionRemoveItem
<1>6. cut \in Nat /\ money \in Nat
  BY <1>1, <1>3, CutIs, LowIs
<1>7. /\ box' = Deliver(added) /\ gold' = Put(gold, p, money)
      /\ Commit(Inserted(Ended(Saved(Last, p, gold'[p], bag[p]), a, cut + Deposit), added))
  BY <1>1 DEF Put
<1> DEFINE back == GivenBack(a, p)
<1>12. /\ back \in Nat /\ \A m \in outbid : m.money = back
       /\ outbid = {} => back = 0
  BY <1>3, OutbiddedPays
<1>13. letter.money = 0
  BY DEF Letter
<1>14. ASSUME ~truncated PROVE back = a.bid
  <2>1. (a.bidder = None => a.bid = 0) /\ a.bidder # p
    BY <1>1, <1>14, FoundBalance, Found DEF BidsGood
  <2>2. a.bidder \in Players \cup {None}
    BY <1>3 DEF Auctions
  <2> QED BY <2>1, <2>2 DEF GivenBack
<1> HIDE DEF outbid, letter, back
<1>15. ASSUME ~truncated
       PROVE  /\ IsFiniteSet(Last.mails \cup added)
              /\ Posted(Last.mails \cup added) = Posted(Last.mails) + back
  <2> DEFINE old == Last.mails
             mine == {letter}
             none == {}
  <2>1. old \in SUBSET Mails /\ IsFiniteSet(old) /\ Posted(old) \in Int
    BY <1>15, FoundBalance
  <2>2. \A m \in added : m \notin old
    BY <1>3, <1>4, NewMail
  <2>3. added = outbid \cup mine \cup none
    OBVIOUS
  <2>4. mine \in SUBSET Mails /\ \A m, n \in mine : m = n
    BY <1>4
  <2> HIDE DEF old
  <2>5. One(outbid, old, back)
    BY <1>4, <1>12, <2>2 DEF One
  <2>6. One(mine, old \cup outbid, 0)
    BY <1>3, <1>4, <1>13, <2>2, <2>4 DEF One
  <2>7. One(none, (old \cup outbid) \cup mine, 0)
    BY DEF One
  <2> DEFINE zero == 0
  <2>9. back + zero + zero = back
    BY <1>12
  <2>10. One(mine, old \cup outbid, zero) /\ One(none, (old \cup outbid) \cup mine, zero)
    BY <2>6, <2>7
  <2> HIDE DEF mine, none, added, zero
  <2>8. /\ IsFiniteSet(old \cup (outbid \cup mine \cup none))
        /\ Posted(old \cup (outbid \cup mine \cup none)) = Posted(old) + (back + zero + zero)
    BY <2>1, <2>5, <2>10, PostedThree
  <2> QED BY <2>3, <2>8, <2>9 DEF old
<1>16. ASSUME ~truncated PROVE SharesOut(p, a, added, money, cut + Deposit)
  <2>1. Deposit \in Nat
    BY HouseAssumption
  <2>2. (money - gold[p]) + back + (cut + Deposit) = a.bid + Deposit /\ back \in Int
    BY <1>3, <1>6, <1>12, <1>14, <1>16, <2>1
  <2> HIDE DEF added, money, cut
  <2> QED BY <1>15, <1>16, <2>2 DEF SharesOut
<1> HIDE DEF cut, money
<1>8. EndsWith(a, added, nextMail')
  BY <1>3, <1>4, <1>5, PlayersAssumption DEF EndsWith
<1> HIDE DEF added
<1>9. gold'[p] = money
  BY <1>2, <1>7, MemoryType DEF Put
<1>10. Commit(Inserted(Ended(Saved(Last, p, money, bag[p]), a, cut + Deposit), added))
  BY <1>7, <1>9
<1>11. nextMail' \in Nat /\ nextMail <= nextMail' /\ cut + Deposit \in Nat
  BY <1>3, <1>5, <1>6, HouseAssumption
<1> QED BY <1>1, <1>5, <1>6, <1>7, <1>8, <1>10, <1>11, <1>16, EndingKeeps

-----------------------------------------------------------------------------
(* World::Update and logging out.                                          *)

LEMMA EndAuctionStep ==
  ASSUME IInv, EndAuction
  PROVE  IInv'
<1>1. PICK a \in auctions :
        LET mails == IF a.bidder = None THEN ExpiredMail(a, nextMail)
                     ELSE SuccessfulMail(a, a.bid, nextMail)
                          \cup WonMail(a, a.bidder, nextMail + 1)
            kept == IF a.bidder = None THEN Deposit ELSE Cut(a.bid)
        IN /\ a.id \in over /\ over' = over \ {a.id}
           /\ box' = Deliver(mails)
           /\ Commit(Inserted(Ended(Last, a, kept), mails))
           /\ auctions' = Without(auctions, a)
           /\ aitems' \in {aitems, aitems \ {a.item}}
  BY DEF EndAuction
<1>25. PICK c \in Last.auctions : SameSale(c, a) /\ (~truncated => c = a) /\ c \in Auctions
  BY FoundSale
<1> DEFINE added == IF a.bidder = None THEN ExpiredMail(a, nextMail)
                    ELSE SuccessfulMail(a, a.bid, nextMail)
                         \cup WonMail(a, a.bidder, nextMail + 1)
           kept == IF a.bidder = None THEN Deposit ELSE Cut(a.bid)
           mails == Last.mails \cup added
           entries == Last.auctions \ {c}
           lost == Last.sunk + kept
           ended == Ended(Last, a, kept)
           gone == Last.discarded
           b == Row(Last.gold, Last.bag, mails, entries, lost, gone)
<1>2. /\ nextMail' = nextMail + 2
      /\ UNCHANGED <<online, loaded, waiting, ahead, gold, bag, truncated, nextAuction, crashes>>
  BY DEF EndAuction
<1>3. TypeOK /\ Last \in Books
  BY Found DEF IInv
<1>4. /\ a \in Auctions /\ nextMail \in Nat /\ a.item \in aitems /\ a.item \in Items
      /\ a.bidder \in Players \cup {None} /\ a.bid \in Nat
  BY <1>3, Found, MemoryType DEF Auctions
<1>5. EndsWith(a, added, nextMail')
  <2>1. CASE a.bidder = None
    <3> DEFINE letter == Letter(nextMail, a.owner, House, 0, a.item, 0)
    <3>1. added = {letter}
      BY <1>4, <2>1 DEF ExpiredMail
    <3>2. letter \in Mails /\ letter.id = nextMail /\ letter.item = a.item /\ letter.cod = 0
      BY <1>4, BackIs
    <3> HIDE DEF letter, added
    <3> QED BY <1>2, <1>4, <3>1, <3>2 DEF EndsWith
  <2>2. CASE a.bidder # None
    <3> DEFINE paid == SuccessfulMail(a, a.bid, nextMail)
               won == WonMail(a, a.bidder, nextMail + 1)
    <3>1. added = paid \cup won
      BY <2>2
    <3>2. /\ paid \in SUBSET Mails /\ won \in SUBSET Mails
          /\ \A m \in paid : m.id = nextMail /\ m.item = None /\ m.cod = 0
          /\ \A m \in won : m.id = nextMail + 1 /\ m.item = a.item /\ m.cod = 0
          /\ \A m, n \in paid : m = n
          /\ \A m, n \in won : m = n
          /\ LogTrade => won # {}
      BY <1>4, <2>2, SuccessfulIs, WonIs
    <3> HIDE DEF paid, won, added
    <3> QED BY <1>2, <1>4, <3>1, <3>2, PlayersAssumption DEF EndsWith
  <2> QED BY <2>1, <2>2
<1>6. kept \in Nat
  BY <1>4, CutIs, HouseAssumption
<1>7. Last.sunk \in Nat
  BY <1>3, BookIs
<1>8. box' = Deliver(added) /\ Commit(Inserted(ended, added))
      /\ auctions' = Without(auctions, a) /\ aitems' \in {aitems, aitems \ {a.item}}
      /\ over' = over \ {a.id}
  BY <1>1
<1> DEFINE share == IF a.bidder = None THEN 0 ELSE Proceeds(a.bid)
<1>22. ASSUME ~truncated PROVE share \in Nat /\ share + kept = a.bid + Deposit
  <2>1. a.bidder = None => a.bid = 0
    BY <1>22, FoundBalance, Found DEF BidsGood
  <2>2. CASE a.bidder = None
    BY <2>1, <2>2, HouseAssumption
  <2>3. CASE a.bidder # None
    <3>1. Proceeds(a.bid) \in Nat /\ Proceeds(a.bid) + Cut(a.bid) = a.bid + Deposit
      BY <1>4, SuccessfulPays
    <3> QED BY <2>3, <3>1
  <2> QED BY <2>2, <2>3
<1> HIDE DEF share
<1>23. ASSUME ~truncated
       PROVE  /\ IsFiniteSet(Last.mails \cup added)
              /\ Posted(Last.mails \cup added) = Posted(Last.mails) + share
  <2> DEFINE old == Last.mails
  <2>1. old \in SUBSET Mails /\ IsFiniteSet(old) /\ Posted(old) \in Int
    BY <1>23, FoundBalance
  <2>2. added \in SUBSET Mails /\ \A m \in added : m \notin old
    BY <1>5, NewMail DEF EndsWith
  <2>3. CASE a.bidder = None
    <3> DEFINE letter == Letter(nextMail, a.owner, House, 0, a.item, 0)
    <3>1. added = {letter}
      BY <1>4, <2>3 DEF ExpiredMail
    <3>2. letter.money = 0 /\ share = 0
      BY <2>3 DEF Letter, share
    <3> HIDE DEF letter, added, old
    <3>3. \A x, y \in added : x = y
      BY <3>1
    <3>4. \A x \in added : x \notin old /\ x.money = share
      BY <2>2, <3>1, <3>2
    <3>6. share \in Int /\ (added = {} => share = 0)
      BY <1>22, <1>23, <3>1
    <3>5. IsFiniteSet(old \cup added) /\ Posted(old \cup added) = Posted(old) + share
      BY <2>1, <2>2, <3>3, <3>4, <3>6, PostedOne
    <3> QED BY <3>5 DEF old
  <2>4. CASE a.bidder # None
    <3> DEFINE id == nextMail
               id2 == nextMail + 1
               bid == a.bid
               paid == SuccessfulMail(a, bid, id)
               won == WonMail(a, a.bidder, id2)
               none == {}
               zero == 0
    <3>1. added = none \cup paid \cup won /\ share = Proceeds(bid)
      BY <2>4 DEF share
    <3>2. id \in Nat /\ id2 \in Nat /\ id # id2 /\ bid \in Nat
      BY <1>4
    <3> HIDE DEF id, id2, bid
    <3>3. /\ paid \in SUBSET Mails /\ won \in SUBSET Mails
          /\ \A m \in paid : m.id = id
          /\ \A m \in won : m.id = id2
          /\ \A m, n \in paid : m = n
          /\ \A m, n \in won : m = n
      BY <1>4, <2>4, <3>2, SuccessfulIs, WonIs
    <3>4. paid # {} /\ \A m \in paid : m.money = Proceeds(bid)
      BY <1>4, <3>2, SuccessfulPays
    <3>5. \A m \in won : m.money = 0
      BY WonIsFree
    <3> HIDE DEF paid, won, added, old
    <3>6. One(none, old, zero)
      BY DEF One
    <3>7. One(paid, old \cup none, share)
      BY <1>22, <1>23, <2>2, <3>1, <3>3, <3>4 DEF One
    <3>8. One(won, (old \cup none) \cup paid, zero)
      BY <2>2, <3>1, <3>2, <3>3, <3>5 DEF One
    <3>9. zero + share + zero = share
      BY <1>22, <1>23
    <3> HIDE DEF none, zero
    <3>10. /\ IsFiniteSet(old \cup (none \cup paid \cup won))
           /\ Posted(old \cup (none \cup paid \cup won)) = Posted(old) + (zero + share + zero)
      BY <2>1, <3>6, <3>7, <3>8, PostedThree
    <3> QED BY <3>1, <3>9, <3>10 DEF old
  <2> QED BY <2>3, <2>4
<1> HIDE DEF added, kept
<1>24. ASSUME ~truncated PROVE Balanced(Last.gold, mails, entries, lost)
  <2> DEFINE z == 0 - (a.bid + Deposit)
             zero == 0
             g == Last.gold
             old == Last.mails
             house == Last.auctions
             sunk == Last.sunk
  <2>1. /\ Balanced(g, old, house, sunk) /\ g \in [Players -> Nat] /\ sunk \in Nat
        /\ old \in SUBSET Mails /\ house \in SUBSET Auctions /\ IsFiniteSet(house)
        /\ BidsGood(house) /\ a \in house /\ c = a
    BY <1>24, <1>25, FoundBalance
  <2>2. IsFiniteSet(entries) /\ BidsGood(entries)
    BY <2>1, FS_RemoveElement DEF BidsGood
  <2>3. /\ Staked(house) \in Int /\ Staked(entries) \in Int
        /\ Staked(house) = (a.bid + Deposit) + Staked(entries)
    BY <2>1, StakedTakes
  <2>4. Deposit \in Nat
    BY HouseAssumption
  <2>10. share \in Int /\ share + kept + z = 0 /\ z \in Int
    <3> DEFINE bid == a.bid
    <3>1. bid \in Nat /\ share \in Nat /\ share + kept = bid + Deposit
      BY <1>4, <1>22, <1>24
    <3>2. z = 0 - (bid + Deposit)
      OBVIOUS
    <3> HIDE DEF bid, z
    <3> QED BY <1>6, <2>4, <3>1, <3>2
  <2>5. z \in Int /\ Staked(entries) = Staked(house) + z
    BY <1>4, <2>3, <2>4
  <2>6. zero \in Int /\ zero + share + z + lost = sunk /\ lost \in Nat
    <3> HIDE DEF z
    <3> QED BY <1>6, <1>7, <2>10
  <2>7. Total(g) = Total(g) + zero
    <3>1. IsFiniteSet(Players) /\ g \in [Players -> Int]
      BY <2>1, PlayersAssumption
    <3>2. Total(g) \in Int
      BY <3>1, TotalType
    <3> QED BY <3>2
  <2>8. IsFiniteSet(mails) /\ Posted(mails) = Posted(old) + share
    BY <1>23, <1>24
  <2> HIDE DEF z, zero, g, old, house, sunk, mails, entries, lost
  <2>9. Balanced(g, mails, entries, lost)
    BY <2>1, <2>2, <2>5, <2>6, <2>7, <2>8, <2>10, BalanceMoves
  <2> QED BY <2>9 DEF g
<1>9. lost \in Nat /\ nextMail' \in Nat /\ nextMail <= nextMail' /\ nextAuction' = nextAuction
  BY <1>2, <1>4, <1>6, <1>7
<1>10. /\ Without(Last.auctions, a) = entries /\ Without(auctions, a) \in SUBSET Auctions
       /\ Agree(Without(auctions, a), entries, ~truncated)
       /\ MailsGood(mails, nextMail') /\ AuctionsGood(entries, nextAuction)
       /\ Alone(Last.bag, mails, entries, gone)
       /\ LogTrade => Somewhere(Last.bag, mails, entries, gone)
       /\ \A x \in Without(auctions, a) : x.item \in aitems \ {a.item}
  BY <1>5, <1>9, <1>25, AuctionEnds
<1>11. /\ added \in SUBSET Mails /\ mails \in SUBSET Mails /\ entries \in SUBSET Auctions
       /\ gone \in SUBSET Items
  BY <1>3, <1>5, BookIs DEF EndsWith
<1>12. Commit(b)
  <2>1. Last = Row(Last.gold, Last.bag, Last.mails, Last.auctions, Last.sunk, gone)
    BY <1>3, BookIs
  <2>2. ended = Row(Last.gold, Last.bag, Last.mails, Without(Last.auctions, a), lost, gone)
    BY <2>1, EndedIs
  <2> HIDE DEF ended, lost, gone
  <2> QED BY <1>8, <1>10, <2>2, InsertedIs
<1>13. \A m \in Last.mails : m \in mails
  OBVIOUS
<1> HIDE DEF mails, entries, lost, ended, gone
<1>14. /\ b \in Books /\ b.gold = Last.gold /\ b.bag = Last.bag /\ b.mails = mails
       /\ b.auctions = entries /\ b.sunk = lost /\ b.discarded = gone
  BY <1>3, <1>9, <1>11, BookIs, RowFields DEF Books, Row
<1> HIDE DEF b
<1>15. GoodCommit(None, b)
  <2>1. BookGood(b, nextMail', nextAuction')
    BY <1>9, <1>10, <1>14 DEF BookGood
  <2>3. truncated' = truncated /\ (~truncated => BookBalanced(b))
    BY <1>2, <1>14, <1>24 DEF BookBalanced
  <2>2. None \notin waiting /\ nextAuction' \in Nat /\ nextAuction <= nextAuction'
    BY <1>3, <1>9, MemoryType, PlayersAssumption
  <2> QED BY <1>9, <1>12, <1>13, <1>14, <2>1, <2>2, <2>3 DEF GoodCommit
<1>16. /\ durable' \in Seq(Books) /\ durable' # <<>> /\ Last' = b
       /\ BooksGood' /\ BooksBalanced' /\ WaitingCurrent'
       /\ \A q \in online \ loaded : \A i \in DOMAIN durable' :
             MailsOf(durable'[i], q) \subseteq b.mails
  BY <1>2, <1>15, CommitKeeps
<1>17. BoxesShow(box', mails, ~truncated')
  <2>1. (\A m \in added : m.cod > 0 => m.from \in Players) /\ truncated' = truncated
    BY <1>2, <1>5 DEF EndsWith
  <2> QED BY <1>8, <1>11, <2>1, DeliverIs DEF mails
<1>18. /\ auctions' \in SUBSET Auctions /\ Agree(auctions', entries, ~truncated')
       /\ \A x \in auctions' : x.item \in aitems'
  BY <1>2, <1>8, <1>10
<1>19. TypeOK'
  <2>1. aitems' \subseteq Items /\ over' \subseteq over
    BY <1>3, <1>8, MemoryType
  <2> QED BY <1>2, <1>3, <1>9, <1>11, <1>16, <1>17, <1>18, <2>1 DEF TypeOK, BoxesShow
<1>20. OnlineSaved'
  BY <1>2, <1>14, <1>16 DEF IInv, OnlineSaved
<1>21. UnloadedCurrent' /\ BoxSaved' /\ HouseSaved'
  BY <1>2, <1>14, <1>16, <1>17, <1>18
     DEF UnloadedCurrent, BoxSaved, HouseSaved, MailsOf, BoxesShow, Shown, Agree
<1> QED BY <1>16, <1>19, <1>20, <1>21 DEF IInv

\* What is saved is what the database will hold anyway, but for the money if
\* some was cut.
LEMMA LogoutStep ==
  ASSUME IInv, NEW p \in Players, Logout(p), UNCHANGED houseVars
  PROVE  IInv'
<1>1. /\ p \in online /\ Commit(Saved(Last, p, gold[p], bag[p]))
      /\ online' = online \ {p} /\ loaded' = loaded \ {p}
      /\ gold' = [gold EXCEPT ![p] = 0] /\ bag' = [bag EXCEPT ![p] = {}]
      /\ box' = [box EXCEPT ![p] = {}]
      /\ UNCHANGED <<waiting, ahead, nextMail, truncated>>
      /\ UNCHANGED <<auctions, aitems, over, nextAuction, crashes>>
  BY DEF Logout
<1>2. /\ TypeOK /\ Last \in Books /\ BookGood(Last, nextMail, nextAuction)
      /\ bag[p] = Last.bag[p] /\ (~truncated => gold[p] = Last.gold[p])
      /\ gold[p] \in Nat
  BY <1>1, Found, MemoryType DEF IInv
<1> DEFINE moneys == Put(Last.gold, p, gold[p])
           b == Row(moneys, Last.bag, Last.mails, Last.auctions, Last.sunk, Last.discarded)
<1>3. Commit(b)
  <2> DEFINE money == gold[p]
             items == bag[p]
             bags == Put(Last.bag, p, items)
             gone == Last.discarded
  <2>1. Last = Row(Last.gold, Last.bag, Last.mails, Last.auctions, Last.sunk, gone)
    BY <1>2, BookIs
  <2>2. bags = Last.bag
    BY <1>2, BookIs DEF Put
  <2>3. Commit(Saved(Last, p, money, items))
    BY <1>1
  <2> HIDE DEF items, gone
  <2>4. Saved(Last, p, money, items) = Row(moneys, bags, Last.mails, Last.auctions, Last.sunk, gone)
    <3> HIDE DEF money
    <3> QED BY <2>1, SavedIs DEF money
  <2> HIDE DEF moneys, bags
  <2> QED BY <2>2, <2>3, <2>4 DEF gone
<1>9. /\ moneys \in [Players -> Nat] /\ \A q \in Players \ {p} : moneys[q] = Last.gold[q]
      /\ ~truncated => moneys = Last.gold
  BY <1>2, BookIs DEF Put
<1> HIDE DEF moneys
<1>10. /\ b \in Books /\ b.gold = moneys /\ b.bag = Last.bag /\ b.mails = Last.mails
       /\ b.auctions = Last.auctions /\ b.sunk = Last.sunk /\ b.discarded = Last.discarded
  BY <1>2, <1>9, BookIs, RowFields DEF Books, Row
<1> HIDE DEF b
<1>4. GoodCommit(p, b)
  <2>1. /\ nextMail' = nextMail /\ nextMail \in Nat
        /\ nextAuction' = nextAuction /\ nextAuction \in Nat
    BY <1>1, <1>2, MemoryType
  <2>2. p \notin waiting
    BY <1>1 DEF IInv, WaitingCurrent
  <2>3. BookGood(b, nextMail, nextAuction)
    BY <1>2, <1>10 DEF BookGood
  <2>4. truncated' = truncated /\ (~truncated => BookBalanced(b))
    BY <1>1, <1>9, <1>10, FoundBalance DEF BookBalanced
  <2> QED BY <1>3, <1>9, <1>10, <2>1, <2>2, <2>3, <2>4 DEF GoodCommit
<1>5. /\ durable' \in Seq(Books) /\ durable' # <<>> /\ Last' = b
      /\ BooksGood' /\ BooksBalanced' /\ WaitingCurrent'
      /\ \A q \in online \ loaded : \A i \in DOMAIN durable' :
            MailsOf(durable'[i], q) \subseteq b.mails
  BY <1>1, <1>4, CommitKeeps
<1>6. TypeOK'
  BY <1>1, <1>2, <1>5 DEF TypeOK
<1>7. OnlineSaved' /\ UnloadedCurrent' /\ HouseSaved'
  <2>1. OnlineSaved'
    <3>1. \A q \in online' : q \in online /\ q # p /\ q \in Players
      BY <1>1, <1>2, MemoryType
    <3>2. \A q \in online' : gold'[q] = gold[q] /\ bag'[q] = bag[q] /\ b.gold[q] = Last.gold[q]
      BY <1>1, <1>2, <1>9, <1>10, <3>1, MemoryType
    <3> QED BY <1>1, <1>5, <1>10, <3>1, <3>2, Found DEF OnlineSaved
  <2>2. UnloadedCurrent'
    BY <1>1, <1>5 DEF UnloadedCurrent
  <2>3. HouseSaved'
    BY <1>1, <1>5, <1>10 DEF IInv, HouseSaved, Agree
  <2> QED BY <2>1, <2>2, <2>3
<1>8. BoxSaved'
  BY <1>1, <1>2, <1>5, <1>10, MemoryType DEF IInv, BoxSaved, Shown
<1> QED BY <1>5, <1>6, <1>7, <1>8 DEF IInv

-----------------------------------------------------------------------------
(* The handlers of the mails.                                              *)

LEMMA HandleSendMailStep ==
  ASSUME IInv, NEW p \in Players, HandleSendMail(p), UNCHANGED houseVars
  PROVE  IInv'
<1>1. PICK q \in Players \ {p}, item \in bag[p] \cup {None},
           price \in Prices \cup {0}, cod \in Prices \cup {0} :
        LET mail == Letter(nextMail, q, p, price, item, cod)
        IN /\ item # None \/ (price > 0 /\ cod = 0)
           /\ gold[p] >= Postage + price
           /\ gold' = [gold EXCEPT ![p] = @ - Postage - price]
           /\ bag' = [bag EXCEPT ![p] = @ \ {item}]
           /\ box' = Deliver({mail})
           /\ Commit([Inserted(Saved(Last, p, gold'[p], bag'[p]), {mail})
                        EXCEPT !.sunk = @ + Postage])
  BY DEF HandleSendMail
<1> DEFINE mail == Letter(nextMail, q, p, price, item, cod)
           money == gold[p] - Postage - price
           items == bag[p] \ {item}
           added == {mail}
           mails == Last.mails \cup added
           entries == Last.auctions
           bags == Put(Last.bag, p, items)
           lost == Last.sunk + Postage
           gone == Last.discarded
<1>2. /\ p \in online /\ nextMail' = nextMail + 1
      /\ UNCHANGED <<online, loaded, waiting, ahead, truncated>>
      /\ UNCHANGED <<auctions, aitems, over, nextAuction, crashes>>
  BY DEF HandleSendMail
<1>3. /\ TypeOK /\ Last \in Books /\ BookGood(Last, nextMail, nextAuction)
      /\ auctions \in SUBSET Auctions /\ Agree(auctions, Last.auctions, ~truncated)
      /\ \A a \in auctions : a.item \in aitems
      /\ gold[p] \in Nat /\ bag[p] \in SUBSET Items /\ bag[p] = Last.bag[p]
      /\ nextMail \in Nat /\ nextAuction \in Nat
  BY <1>2, Found, MemoryType DEF IInv
<1>4. item \in Items \cup {None} /\ price \in Nat /\ cod \in Nat /\ Postage \in Nat
  BY <1>1, <1>3, PricesAssumption
<1>5. /\ mail \in Mails /\ mail.id = nextMail /\ mail.to = q /\ mail.from = p /\ mail.from \in Players
      /\ mail.item = item /\ mail.money = price
  BY <1>3, <1>4 DEF Letter, Mails
<1>6. money \in Nat /\ items \in SUBSET Items /\ lost \in Nat
  BY <1>1, <1>3, <1>4, BookIs
<1>7. gold' = Put(gold, p, money) /\ bag' = Put(bag, p, items) /\ box' = Deliver(added)
      /\ Commit([Inserted(Saved(Last, p, gold'[p], bag'[p]), added) EXCEPT !.sunk = @ + Postage])
  BY <1>1 DEF Put
<1>8. gold'[p] = money /\ bag'[p] = items
  <2>1. gold \in [Players -> Nat] /\ bag \in [Players -> SUBSET Items]
    BY <1>3, MemoryType
  <2> HIDE DEF money, items
  <2> QED BY <1>7, <2>1 DEF Put
<1> HIDE DEF mail
<1>21. ASSUME ~truncated PROVE Balanced(Put(Last.gold, p, money), mails, entries, lost)
  <2> DEFINE old == Last.mails
  <2>1. old \in SUBSET Mails /\ IsFiniteSet(old) /\ Last.sunk \in Nat
    BY <1>21, FoundBalance
  <2>2. mail \notin old
    BY <1>3, <1>5, NewMail
  <2>3. (money - gold[p]) + price + lost = Last.sunk
    BY <1>3, <1>4, <2>1
  <2>4. price \in Int
    BY <1>4
  <2>5. IsFiniteSet(mails) /\ Posted(mails) = Posted(old) + price
    <3> HIDE DEF old
    <3> QED BY <1>5, <2>1, <2>2, PostedAdds DEF old
  <2> HIDE DEF money, lost, mails
  <2> QED BY <1>2, <1>6, <1>21, <2>3, <2>4, <2>5, MailBalances DEF old
<1>9. Stores(p, money, items, mails, entries, gone)
  <2> DEFINE saved == Saved(Last, p, money, items)
             posted == Inserted(saved, added)
             moneys == Put(Last.gold, p, money)
  <2>1. Commit([posted EXCEPT !.sunk = @ + Postage])
    BY <1>7, <1>8
  <2> HIDE DEF money, items, added
  <2>2. saved = Row(moneys, bags, Last.mails, Last.auctions, Last.sunk, gone)
    BY <1>3, BookIs, SavedIs
  <2> HIDE DEF saved, moneys, bags, gone
  <2>3. posted = Row(moneys, bags, mails, entries, Last.sunk, gone)
    BY <2>2, InsertedIs
  <2> HIDE DEF posted, mails, entries
  <2>4. posted.sunk = Last.sunk
    BY <2>3, RowFields
  <2>5. Commit([posted EXCEPT !.sunk = lost])
    BY <2>1, <2>4
  <2> HIDE DEF lost
  <2>6. [posted EXCEPT !.sunk = lost] = Row(moneys, bags, mails, entries, lost, gone)
    BY <2>3 DEF Row
  <2> QED BY <1>2, <1>6, <1>21, <2>5, <2>6 DEF Stores, bags, moneys
<1>10. /\ \A r \in Players \ {p} : bags[r] = Last.bag[r]
       /\ bags[p] = Last.bag[p] \ {item} /\ (item # None => item \in Last.bag[p])
  <2>1. Last.bag \in [Players -> SUBSET Items] /\ items = Last.bag[p] \ {item}
    BY <1>3, BookIs
  <2> HIDE DEF items
  <2> QED BY <1>1, <1>3, <1>6, <2>1, PutBag
<1>11. added \in SUBSET Mails /\ mails \in SUBSET Mails /\ entries \in SUBSET Auctions
  BY <1>3, <1>5, BookIs
<1>12. MailsGood(mails, nextMail')
  BY <1>2, <1>3, <1>5, BookIs DEF BookGood, MailsGood, Mails
<1>13. /\ mail \in mails /\ Last.mails \subseteq mails
       /\ \A m \in mails : m \in Last.mails \/ m = mail
  OBVIOUS
<1>14. \A a \in entries : a.item \in Items
  BY <1>3, BookIs DEF Auctions
<1>15. Last.bag \in [Players -> SUBSET Items]
  BY <1>3, BookIs
<1>16. BoxesShow(box', mails, ~truncated')
  BY <1>2, <1>5, <1>7, <1>11, DeliverIs
<1>22. gone \in SUBSET Items
  BY <1>3, BookIs
<1> HIDE DEF items, mails, bags, money, added, gone
<1>17. Alone(bags, mails, entries, gone)
  <2>1. Alone(Last.bag, Last.mails, entries, gone)
    BY <1>3 DEF BookGood, gone
  <2>2. \A r \in Players : \A i \in bags[r] : i \in Last.bag[r] /\ i # item
    BY <1>10, <1>15, <2>1, PlayersAssumption DEF Alone
  <2>3. \A r \in Players : mail.item \notin bags[r]
    BY <1>5, <2>2
  <2>4. item # None => /\ \A m \in Last.mails : m.item # item
                       /\ \A a \in entries : a.item # item
    BY <1>10, <2>1 DEF Alone
  <2>5. \A a \in entries : a.item # item
    BY <1>14, <2>4, PlayersAssumption
  <2>6. mail.item \notin gone
    BY <1>5, <1>10, <1>22, <2>1, PlayersAssumption DEF Alone
  <2> QED BY <1>5, <1>13, <2>1, <2>2, <2>3, <2>4, <2>5, <2>6 DEF Alone
<1>18. LogTrade => Somewhere(bags, mails, entries, gone)
  BY <1>3, <1>5, <1>10, <1>13 DEF BookGood, Somewhere, gone
<1>19. KeepsGood(p, items, mails, entries, gone)
  <2>1. /\ nextMail' \in Nat /\ nextMail <= nextMail'
        /\ nextAuction' \in Nat /\ nextAuction <= nextAuction'
        /\ AuctionsGood(entries, nextAuction')
    BY <1>2, <1>3 DEF BookGood
  <2> QED BY <1>11, <1>12, <1>13, <1>17, <1>18, <1>22, <2>1 DEF KeepsGood, bags
<1>20. Follows(p, money, items, mails, entries)
  <2>1. /\ aitems' \subseteq Items /\ auctions' \in SUBSET Auctions
        /\ Agree(auctions', entries, ~truncated') /\ \A a \in auctions' : a.item \in aitems'
    BY <1>2, <1>3, MemoryType
  <2>2. truncated' \in BOOLEAN /\ (truncated => truncated')
    BY <1>2, <1>3 DEF TypeOK
  <2> QED BY <1>2, <1>7, <1>16, <2>1, <2>2 DEF Follows
<1> QED BY <1>2, <1>9, <1>19, <1>20, HandlerKeeps

\* A handler of p takes the mail that is x in the database out of the box;
\* something with its id may stay, something with a new one may come.
Replaces(x, left, added) ==
    /\ left \in SUBSET Mails /\ added \in SUBSET Mails
    /\ \A y \in left : y.id = x.id /\ (y.cod > 0 => y.from \in Players)
    /\ \A y \in added : y.id = nextMail /\ y.cod = 0
    /\ \A y, z \in left : y = z
    /\ \A y, z \in added : y = z
    /\ nextMail' \in Nat /\ nextMail <= nextMail' /\ (added # {} => nextMail < nextMail')

Remaining(x, left, added) == ((Last.mails \ {x}) \cup left) \cup added

LEMMA MailTaken ==
  ASSUME IInv, NEW p \in Players, NEW m \in box[p], NEW x \in Last.mails, SameMail(x, m),
         NEW left, NEW added, Replaces(x, left, added)
  PROVE  /\ MailsGood(Remaining(x, left, added), nextMail')
         /\ Remaining(x, left, added) \in SUBSET Mails
         /\ \A y \in Last.mails : y.to \notin loaded \/ y.to # p =>
                y \in Remaining(x, left, added)
         /\ \A y, z \in Last.mails : y.id = z.id => y = z
<1>1. /\ Last \in Books /\ BookGood(Last, nextMail, nextAuction)
      /\ x.to = p /\ p \in loaded /\ nextMail \in Nat /\ p \in online
  BY Found, MemoryType DEF IInv, SameMail
<1>2. Last.mails \in SUBSET Mails /\ MailsGood(Last.mails, nextMail)
  BY <1>1, BookIs DEF BookGood
<1>3. \A y \in Mails : y.id \in Nat
  BY DEF Mails
<1>4. MailsGood((Last.mails \ {x}) \cup left, nextMail)
  BY <1>1, <1>2, <1>3 DEF MailsGood, Replaces
<1>5. MailsGood(((Last.mails \ {x}) \cup left) \cup added, nextMail')
  <2> DEFINE mails == (Last.mails \ {x}) \cup left
  <2>1. mails \in SUBSET Mails
    BY <1>2 DEF Replaces
  <2>2. MailsGood(mails, nextMail)
    BY <1>4
  <2> HIDE DEF mails
  <2>3. \A y \in mails : y.id \in Nat /\ y.id < nextMail
    BY <1>3, <2>1, <2>2 DEF MailsGood
  <2> QED BY <1>1, <2>2, <2>3 DEF MailsGood, mails, Replaces
<1>6. \A y, z \in Last.mails : y.id = z.id => y = z
  BY <1>2 DEF MailsGood
<1> QED BY <1>1, <1>2, <1>5, <1>6 DEF Remaining, Replaces

\* The boxes after it.
LEMMA BoxTaken ==
  ASSUME IInv, NEW p \in Players, NEW m \in box[p], NEW x \in Last.mails, SameMail(x, m),
         NEW left, NEW added, Replaces(x, left, added),
         NEW exact, exact => ~truncated,
         NEW inbox \in SUBSET Mails,
         \A y \in inbox : \/ y \in Deliver(added)[p] /\ y.id # m.id
                          \/ /\ y.to = p /\ (y.cod > 0 => y.from \in Players)
                             /\ Shown(y, left, exact)
  PROVE  BoxesShow(Put(Deliver(added), p, inbox), Remaining(x, left, added), exact)
<1> DEFINE sent == Deliver(added)
           old == Last.mails
           mails == Remaining(x, left, added)
           new == Put(sent, p, inbox)
<1>1. m.to = p /\ x.to = p /\ x.id = m.id /\ p \in loaded
  BY FoundMail DEF SameMail
<1>2. BoxesShow(sent, old \cup added, exact)
  <2>1. added \in SUBSET Mails /\ \A y \in added : y.cod = 0
    BY DEF Replaces
  <2>2. \A y \in added : y.cod > 0 => y.from \in Players
    BY <2>1
  <2> QED BY <2>1, <2>2, DeliverIs
<1>3. \A y \in old \cup added : y # x \/ y \in added => y \in mails
  BY DEF Remaining
<1>4. left \subseteq mails
  BY DEF Remaining
<1> HIDE DEF sent, old, mails
<1>5. ASSUME NEW q \in Players, NEW y \in sent[q], q # p \/ y.id # m.id
      PROVE  y.to = q /\ (y.cod > 0 => y.from \in Players) /\ Shown(y, mails, exact)
  <2>1. y.to = q /\ (y.cod > 0 => y.from \in Players) /\ Shown(y, old \cup added, exact)
    BY <1>2 DEF BoxesShow
  <2>2. PICK z \in old \cup added : SameMail(z, y) /\ (exact => z = y)
    BY <2>1 DEF Shown
  <2>3. z # x
    BY <1>1, <1>5, <2>1, <2>2 DEF SameMail
  <2>4. z \in mails
    BY <1>3, <2>3
  <2> QED BY <2>1, <2>2, <2>4 DEF Shown
<1>6. sent \in [Players -> SUBSET Mails] /\ \A q \in Players : q \notin loaded => sent[q] = {}
  BY <1>2 DEF BoxesShow
<1>7. /\ new \in [Players -> SUBSET Mails] /\ new[p] = inbox
      /\ \A q \in Players \ {p} : new[q] = sent[q]
  BY <1>6 DEF Put
<1> HIDE DEF new
<1>8. ASSUME NEW y \in inbox
      PROVE  y.to = p /\ (y.cod > 0 => y.from \in Players) /\ Shown(y, mails, exact)
  <2>1. CASE y \in sent[p] /\ y.id # m.id
    BY <1>5, <2>1
  <2>2. CASE /\ y.to = p /\ (y.cod > 0 => y.from \in Players)
             /\ Shown(y, left, exact)
    BY <1>4, <2>2 DEF Shown
  <2> QED BY <2>1, <2>2 DEF sent
<1>9. BoxesShow(new, mails, exact)
  BY <1>1, <1>5, <1>6, <1>7, <1>8 DEF BoxesShow
<1> QED BY <1>9 DEF new, sent, mails

\* No mail, nothing delivered.
LEMMA DeliverNone ==
  ASSUME IInv
  PROVE  Deliver({}) = box
<1>1. box \in [Players -> SUBSET Mails]
  BY MemoryType DEF IInv
<1> QED BY <1>1 DEF Deliver

LEMMA HandleMailTakeItemStep ==
  ASSUME IInv, NEW p \in Players, HandleMailTakeItem(p), UNCHANGED houseVars
  PROVE  IInv'
<1>50. PICK m \in box[p] : \E change \in Charges(m.cod) :
        LET taken == [m EXCEPT !.item = None, !.cod = 0]
            payment == IF m.cod > 0 THEN {Letter(nextMail, m.from, p, m.cod, None, 0)} ELSE {}
        IN /\ m.item # None /\ gold[p] >= m.cod
           /\ gold' = [gold EXCEPT ![p] = Modified(@, change)]
           /\ bag' = [bag EXCEPT ![p] = @ \cup {m.item}]
           /\ box' = [Deliver(payment) EXCEPT ![p] = Lighten(@, m, taken, taken)]
           /\ Commit(Inserted([Saved(Last, p, gold'[p], bag'[p])
                                 EXCEPT !.mails = Lighten(@, m, taken, Narrow(taken))],
                              payment))
           /\ nextMail' = nextMail + Cardinality(payment)
           /\ truncated' = (truncated \/ change # -m.cod \/ Narrow(taken) # taken)
           /\ UNCHANGED <<online, loaded, waiting, ahead>>
  BY DEF HandleMailTakeItem
<1>1. PICK change \in Charges(m.cod) :
        LET taken == [m EXCEPT !.item = None, !.cod = 0]
            payment == IF m.cod > 0 THEN {Letter(nextMail, m.from, p, m.cod, None, 0)} ELSE {}
        IN /\ m.item # None /\ gold[p] >= m.cod
           /\ gold' = [gold EXCEPT ![p] = Modified(@, change)]
           /\ bag' = [bag EXCEPT ![p] = @ \cup {m.item}]
           /\ box' = [Deliver(payment) EXCEPT ![p] = Lighten(@, m, taken, taken)]
           /\ Commit(Inserted([Saved(Last, p, gold'[p], bag'[p])
                                 EXCEPT !.mails = Lighten(@, m, taken, Narrow(taken))],
                              payment))
           /\ nextMail' = nextMail + Cardinality(payment)
           /\ truncated' = (truncated \/ change # -m.cod \/ Narrow(taken) # taken)
           /\ UNCHANGED <<online, loaded, waiting, ahead>>
  BY <1>50
<1>40. PICK x \in Last.mails : /\ SameMail(x, m) /\ (~truncated => x = m) /\ x \in Mails
                               /\ m \in Mails /\ m.to = p /\ p \in loaded /\ p \in online
                               /\ m.cod > 0 => m.from \in Players
  BY FoundMail
<1> DEFINE taken == [m EXCEPT !.item = None, !.cod = 0]
           added == IF m.cod > 0 THEN {Letter(nextMail, m.from, p, m.cod, None, 0)} ELSE {}
           row == Narrow(taken)
           left == IF taken.item = None /\ taken.money = 0 THEN {} ELSE {row}
           money == Modified(gold[p], change)
           items == bag[p] \cup {m.item}
           rest == (Last.mails \ {x}) \cup left
           mails == rest \cup added
           entries == Last.auctions
           gone == Last.discarded
           bags == Put(Last.bag, p, items)
<1>2. /\ TypeOK /\ Last \in Books /\ BookGood(Last, nextMail, nextAuction)
      /\ auctions \in SUBSET Auctions /\ Agree(auctions, Last.auctions, ~truncated)
      /\ \A a \in auctions : a.item \in aitems
      /\ gold[p] \in Nat /\ bag[p] \in SUBSET Items /\ bag[p] = Last.bag[p]
      /\ nextMail \in Nat /\ nextAuction \in Nat
      /\ p \in online /\ p \in loaded
      /\ x.id = m.id /\ x.item = m.item /\ x.to = p
  BY <1>40, Found, MemoryType DEF IInv, SameMail
<1>3. m \in Mails /\ m.item \in Items /\ m.cod \in Nat /\ m.money \in Nat
  BY <1>1, <1>40 DEF Mails
<1>4. /\ taken \in Mails /\ taken.id = m.id /\ taken.item = None /\ taken.cod = 0
      /\ taken.to = p /\ taken.money = m.money
  <2> DEFINE half == [m EXCEPT !.item = None]
             whole == [half EXCEPT !.cod = 0]
  <2>1. taken = whole
    OBVIOUS
  <2>2. half \in Mails /\ half.id = m.id /\ half.item = None /\ half.to = p
        /\ half.money = m.money
    BY <1>3, <1>40 DEF Mails
  <2> HIDE DEF half
  <2>3. whole \in Mails /\ whole.id = m.id /\ whole.item = None /\ whole.to = p /\ whole.cod = 0
        /\ whole.money = m.money
    BY <2>2 DEF Mails
  <2> QED BY <2>1, <2>3
<1>5. /\ added \in SUBSET Mails /\ Cardinality(added) \in 0..1
      /\ \A y \in added : y.id = nextMail /\ y.cod = 0 /\ y.item = None /\ y.money = m.cod
      /\ \A y, z \in added : y = z
      /\ added # {} => Cardinality(added) = 1
      /\ added = {} => m.cod = 0
  <2> DEFINE letter == Letter(nextMail, m.from, p, m.cod, None, 0)
  <2>1. m.cod > 0 => letter \in Mails /\ letter.id = nextMail /\ letter.cod = 0
                     /\ letter.item = None /\ letter.money = m.cod
    BY <1>2, <1>3, <1>40 DEF Letter, Mails
  <2>2. (added = {} /\ m.cod = 0) \/ (added = {letter} /\ m.cod > 0)
    BY <1>3
  <2> HIDE DEF letter, added
  <2>3. Cardinality({}) = 0 /\ Cardinality({letter}) = 1
    BY FS_EmptySet, FS_Singleton
  <2>4. Cardinality(added) \in 0..1 /\ (added # {} => Cardinality(added) = 1)
    BY <2>2, <2>3
  <2> QED BY <2>1, <2>2, <2>4
<1>41. /\ truncated' \in BOOLEAN /\ (truncated => truncated')
       /\ ~truncated' => ~truncated /\ change = -m.cod /\ row = taken
  BY <1>1, <1>2 DEF TypeOK
<1>42. row \in Mails /\ SameMail(row, taken) /\ (row.cod > 0 => taken.cod > 0)
  <2> HIDE DEF taken
  <2> QED BY <1>4, NarrowIs
<1>6. /\ left \in SUBSET Mails /\ \A y, z \in left : y = z
      /\ \A y \in left : y.id = x.id /\ ~(y.cod > 0) /\ y.item = None /\ y = row
      /\ left = {} => m.money = 0
  <2> HIDE DEF taken, row
  <2>1. row.id = x.id /\ row.item = None /\ ~(row.cod > 0)
    BY <1>2, <1>4, <1>42 DEF SameMail
  <2> QED BY <1>4, <1>42, <2>1
<1>7. /\ gold' = Put(gold, p, money) /\ bag' = Put(bag, p, items)
      /\ box' = Put(Deliver(added), p, Lighten(Deliver(added)[p], m, taken, taken))
      /\ Commit(Inserted([Saved(Last, p, gold'[p], bag'[p])
                            EXCEPT !.mails = Lighten(@, m, taken, row)], added))
      /\ nextMail' = nextMail + Cardinality(added)
      /\ UNCHANGED <<online, loaded, waiting, ahead>>
      /\ UNCHANGED <<auctions, aitems, over, nextAuction, crashes>>
  <2>3. box' = [Deliver(added) EXCEPT ![p] = Lighten(@, m, taken, taken)]
    BY <1>1
  <2>4. box' = Put(Deliver(added), p, Lighten(Deliver(added)[p], m, taken, taken))
    BY <2>3 DEF Put
  <2> QED BY <1>1, <2>4 DEF Put
<1> HIDE DEF added
<1>8. /\ nextMail' \in Nat /\ nextMail <= nextMail' /\ (added # {} => nextMail < nextMail')
      /\ nextAuction' = nextAuction
  BY <1>2, <1>5, <1>7
<1> HIDE DEF left, taken, row
<1>43. Replaces(x, left, added) /\ mails = Remaining(x, left, added)
  BY <1>5, <1>6, <1>8 DEF Replaces, Remaining
<1>9. /\ MailsGood(mails, nextMail') /\ mails \in SUBSET Mails
      /\ \A y \in Last.mails : y.to \notin loaded \/ y.to # p => y \in mails
      /\ \A y, z \in Last.mails : y.id = z.id => y = z
  <2> HIDE DEF mails
  <2> QED BY <1>40, <1>43, MailTaken
<1>10. Lighten(Last.mails, m, taken, row) = rest
  BY <1>2, <1>9, LightenIs DEF left
<1>44. change \in Int
  BY ChargesAre
<1>11. money \in Nat /\ items \in SUBSET Items
  BY <1>2, <1>3, <1>44, ModifiedIs
<1>12. gold'[p] = money /\ bag'[p] = items
  <2>1. gold \in [Players -> Nat] /\ bag \in [Players -> SUBSET Items]
    BY <1>2, MemoryType
  <2> HIDE DEF money, items
  <2> QED BY <1>7, <2>1 DEF Put
<1>26. ASSUME ~truncated' PROVE Balanced(Put(Last.gold, p, money), mails, entries, Last.sunk)
  <2> DEFINE old == Last.mails
             w == m.money
             cod == m.cod
             sunk == Last.sunk
  <2>0. ~truncated /\ x = m /\ change = -cod /\ row = taken
    BY <1>26, <1>40, <1>41
  <2>1. old \in SUBSET Mails /\ IsFiniteSet(old) /\ sunk \in Nat /\ Posted(old) \in Int
    BY <2>0, FoundBalance
  <2>2. m \in old /\ w \in Int /\ w - m.money = 0 /\ cod \in Int
    BY <1>3, <2>0
  <2>3. \A y \in left : y \notin old \ {m} /\ y.money = w
    BY <1>4, <1>6, <1>9, <2>0
  <2>4. \A y \in added : y \notin rest
    <3>1. \A y \in added : y \notin old
      BY <1>2, <1>5, NewMail
    <3>2. x.id < nextMail
      BY <1>2 DEF BookGood, MailsGood
    <3> QED BY <1>2, <1>5, <1>6, <1>40, <3>1, <3>2 DEF Mails
  <2>5. IsFiniteSet(rest) /\ Posted(rest) = Posted(old)
    <3>2. left = {} => w = 0
      BY <1>6
    <3>4. One(left, old \ {m}, w)
      BY <1>6, <2>2, <2>3, <3>2 DEF One
    <3> HIDE DEF old, w
    <3>3. /\ IsFiniteSet((old \ {m}) \cup left)
          /\ Posted((old \ {m}) \cup left) = Posted(old) + (w - m.money)
      BY <2>1, <2>2, <3>4, PostedInstead
    <3> QED BY <2>0, <2>1, <2>2, <3>3 DEF old
  <2>6. rest \in SUBSET Mails
    BY <1>6, <2>1
  <2>12. money = gold[p] - cod
    <3>1. 0 <= gold[p] + change /\ change <= 0
      BY <1>1, <1>2, <1>3, <1>44, <2>0
    <3> QED BY <1>2, <1>3, <1>44, <2>0, <3>1, ModifiedIs
  <2>7. (money - gold[p]) + cod + sunk = sunk
    BY <1>2, <1>3, <2>1, <2>12
  <2>8. (\A y \in added : y.money = cod) /\ (added = {} => cod = 0)
    BY <1>5
  <2> HIDE DEF rest, cod, old
  <2>9. IsFiniteSet(rest \cup added) /\ Posted(rest \cup added) = Posted(rest) + cod
    BY <1>5, <2>2, <2>4, <2>5, <2>6, <2>8, PostedOne
  <2>10. IsFiniteSet(mails) /\ Posted(mails) = Posted(Last.mails) + cod
    BY <2>5, <2>9 DEF old
  <2> HIDE DEF money, mails, sunk
  <2>11. Balanced(Put(Last.gold, p, money), mails, Last.auctions, sunk)
    BY <1>2, <1>11, <2>0, <2>1, <2>2, <2>7, <2>10, MailBalances DEF sunk
  <2> QED BY <2>11 DEF sunk
<1>13. Stores(p, money, items, mails, entries, gone)
  <2> DEFINE saved == Saved(Last, p, money, items)
             lighter == Lighten(Last.mails, m, taken, row)
             lit == [saved EXCEPT !.mails = lighter]
             moneys == Put(Last.gold, p, money)
  <2>1. Last.sunk \in Nat
    BY <1>2, BookIs
  <2>2. saved = Row(moneys, bags, Last.mails, Last.auctions, Last.sunk, gone)
    <3> HIDE DEF money, items
    <3> QED BY <1>2, BookIs, SavedIs
  <2>3. Commit(Inserted([saved EXCEPT !.mails = Lighten(@, m, taken, row)], added))
    BY <1>7, <1>12
  <2> HIDE DEF saved, moneys, bags, money, items, gone
  <2>4. saved.mails = Last.mails
    BY <2>2, RowFields
  <2>5. Commit(Inserted(lit, added))
    BY <2>3, <2>4
  <2> HIDE DEF lighter
  <2>6. lit = Row(moneys, bags, lighter, entries, Last.sunk, gone)
    BY <2>2 DEF Row
  <2> HIDE DEF lit, rest, entries
  <2>7. Inserted(lit, added) = Row(moneys, bags, mails, entries, Last.sunk, gone)
    BY <1>10, <2>6, InsertedIs DEF lighter
  <2> HIDE DEF mails
  <2> QED BY <1>11, <1>26, <2>1, <2>5, <2>7 DEF Stores, bags, moneys
<1>14. /\ \A r \in Players \ {p} : bags[r] = Last.bag[r]
       /\ bags[p] = Last.bag[p] \cup {m.item}
  <2>1. Last.bag \in [Players -> SUBSET Items] /\ items = Last.bag[p] \cup {m.item}
    BY <1>2, BookIs
  <2> HIDE DEF items
  <2> QED BY <1>11, <2>1, PutBag
<1>15. /\ \A y \in mails : y \in Last.mails \ {x} \/ y.item = None
       /\ \A y \in Last.mails : y # x => y \in mails
  BY <1>5, <1>6
<1>16. /\ entries \in SUBSET Auctions /\ Last.bag \in [Players -> SUBSET Items]
       /\ gone \in SUBSET Items
  BY <1>2, BookIs
<1>21. BoxesShow(box', mails, ~truncated')
  <2> DEFINE sent == Deliver(added)[p]
             inbox == Lighten(sent, m, taken, taken)
  <2>1. sent \in SUBSET Mails
    <3>1. \A y \in added : y.cod > 0 => y.from \in Players
      BY <1>5
    <3> QED BY <1>5, <3>1, DeliverIs DEF BoxesShow
  <2>2. \A y \in inbox : \/ y \in sent /\ y.id # m.id
                         \/ y = taken /\ ~(taken.item = None /\ taken.money = 0)
    <3> HIDE DEF sent
    <3> QED BY LightenHas
  <2>3. inbox \in SUBSET Mails
    <3> HIDE DEF sent, inbox
    <3> QED BY <1>4, <2>1, <2>2
  <2>4. ~(taken.item = None /\ taken.money = 0) => Shown(taken, left, ~truncated')
    BY <1>41, <1>42 DEF Shown, left
  <2>5. taken.to = p /\ (taken.cod > 0 => taken.from \in Players)
    BY <1>4
  <2>6. ~truncated' => ~truncated
    BY <1>41
  <2>7. box' = Put(Deliver(added), p, inbox)
    BY <1>7
  <2>8. \A y \in inbox : \/ y \in Deliver(added)[p] /\ y.id # m.id
                         \/ /\ y.to = p /\ (y.cod > 0 => y.from \in Players)
                            /\ Shown(y, left, ~truncated')
    <3> HIDE DEF inbox
    <3> QED BY <2>2, <2>4, <2>5
  <2> DEFINE new == Put(Deliver(added), p, inbox)
             exact == ~truncated'
  <2> HIDE DEF inbox, mails, sent, exact
  <2>9. BoxesShow(new, Remaining(x, left, added), exact)
    BY <1>40, <1>43, <2>3, <2>6, <2>8, BoxTaken DEF exact
  <2> HIDE DEF new
  <2> QED BY <1>43, <2>7, <2>9 DEF new, exact
<1> HIDE DEF items, mails, bags, money, rest, gone
<1>22. Alone(bags, mails, entries, gone)
  <2>1. Alone(Last.bag, Last.mails, entries, gone)
    BY <1>2 DEF BookGood, gone
  <2>2. \A r \in Players : \A i \in bags[r] : i \in Last.bag[r] \/ (r = p /\ i = m.item)
    BY <1>14
  <2>3. /\ \A r \in Players : m.item \notin Last.bag[r] /\ None \notin Last.bag[r]
        /\ \A y \in Last.mails : y # x => y.item # m.item
        /\ \A a \in entries : a.item # m.item /\ a.item # None
        /\ m.item # None /\ m.item \notin gone /\ None \notin gone
    BY <1>2, <1>3, <1>16, <2>1, PlayersAssumption DEF Alone, Auctions
  <2>4. \A r \in Players, y \in mails : y.item \notin bags[r]
    BY <1>15, <2>1, <2>2, <2>3 DEF Alone
  <2>5. \A r \in Players, a \in entries : a.item \notin bags[r]
    BY <2>1, <2>2, <2>3 DEF Alone
  <2>6. \A y \in mails, a \in entries : y.item # a.item
    BY <1>15, <2>1, <2>3 DEF Alone
  <2>7. \A y, z \in mails : y.item = z.item /\ y.item # None => y = z
    BY <1>15, <2>1 DEF Alone
  <2>8. \A r, s \in Players : \A i \in bags[r] : i \in bags[s] => r = s
    BY <2>1, <2>2, <2>3 DEF Alone
  <2>9. /\ \A r \in Players : \A i \in bags[r] : i \notin gone
        /\ \A y \in mails : y.item \notin gone
    BY <1>15, <2>1, <2>2, <2>3 DEF Alone
  <2> QED BY <2>1, <2>4, <2>5, <2>6, <2>7, <2>8, <2>9 DEF Alone
<1>23. LogTrade => Somewhere(bags, mails, entries, gone)
  BY <1>2, <1>14, <1>15 DEF BookGood, Somewhere, gone
<1>24. KeepsGood(p, items, mails, entries, gone)
  <2>1. nextAuction' \in Nat /\ nextAuction <= nextAuction' /\ AuctionsGood(entries, nextAuction')
    BY <1>2, <1>8 DEF BookGood
  <2> QED BY <1>8, <1>9, <1>16, <1>22, <1>23, <2>1 DEF KeepsGood, bags
<1>25. Follows(p, money, items, mails, entries)
  <2>1. /\ aitems' \subseteq Items /\ auctions' \in SUBSET Auctions
        /\ \A a \in auctions' : a.item \in aitems'
    BY <1>2, <1>7, MemoryType
  <2>2. Agree(auctions', entries, ~truncated')
    BY <1>2, <1>7, <1>41 DEF Agree
  <2> QED BY <1>7, <1>21, <1>41, <2>1, <2>2 DEF Follows
<1> QED BY <1>2, <1>13, <1>24, <1>25, HandlerKeeps

LEMMA HandleMailTakeMoneyStep ==
  ASSUME IInv, NEW p \in Players, HandleMailTakeMoney(p), UNCHANGED houseVars
  PROVE  IInv'
<1>1. PICK m \in box[p] :
        LET taken == [m EXCEPT !.money = 0]
        IN /\ m.money > 0 /\ Fits(gold[p], m.money)
           /\ gold' = [gold EXCEPT ![p] = @ + m.money]
           /\ box' = [box EXCEPT ![p] = Lighten(@, m, taken, taken)]
           /\ Commit([Last EXCEPT !.gold[p] = gold'[p],
                                  !.mails = Lighten(@, m, taken, Narrow(taken))])
           /\ truncated' = (truncated \/ Narrow(taken) # taken)
           /\ UNCHANGED <<online, loaded, waiting, ahead, bag, nextMail>>
  BY DEF HandleMailTakeMoney
<1>40. PICK x \in Last.mails : /\ SameMail(x, m) /\ (~truncated => x = m) /\ x \in Mails
                               /\ m \in Mails /\ m.to = p /\ p \in loaded /\ p \in online
                               /\ m.cod > 0 => m.from \in Players
  BY FoundMail
<1> DEFINE taken == [m EXCEPT !.money = 0]
           row == Narrow(taken)
           left == IF taken.item = None /\ taken.money = 0 THEN {} ELSE {row}
           money == gold[p] + m.money
           items == bag[p]
           mails == (Last.mails \ {x}) \cup left
           entries == Last.auctions
           gone == Last.discarded
           bags == Put(Last.bag, p, items)
<1>2. /\ TypeOK /\ Last \in Books /\ BookGood(Last, nextMail, nextAuction)
      /\ auctions \in SUBSET Auctions /\ Agree(auctions, Last.auctions, ~truncated)
      /\ \A a \in auctions : a.item \in aitems
      /\ gold[p] \in Nat /\ bag[p] \in SUBSET Items /\ bag[p] = Last.bag[p]
      /\ nextMail \in Nat /\ nextAuction \in Nat
      /\ p \in online /\ p \in loaded
      /\ x.id = m.id /\ x.item = m.item /\ x.to = p
  BY <1>40, Found, MemoryType DEF IInv, SameMail
<1>3. m \in Mails /\ m.money \in Nat
  BY <1>40 DEF Mails
<1>4. /\ taken \in Mails /\ taken.id = m.id /\ taken.item = m.item /\ taken.cod = m.cod
      /\ taken.to = p /\ taken.from = m.from /\ taken.money = 0
  BY <1>3, <1>40 DEF Mails
<1>41. /\ truncated' \in BOOLEAN /\ (truncated => truncated')
       /\ ~truncated' => ~truncated /\ row = taken
  BY <1>1, <1>2 DEF TypeOK
<1>42. row \in Mails /\ SameMail(row, taken) /\ (row.cod > 0 => taken.cod > 0)
  <2> HIDE DEF taken
  <2> QED BY <1>4, NarrowIs
<1>6. /\ left \in SUBSET Mails /\ \A y, z \in left : y = z
      /\ \A y \in left : /\ y.id = x.id /\ y.item = m.item /\ y.to = p /\ y = row
                         /\ y.cod > 0 => y.from \in Players
      /\ m.item # None => \E y \in left : y.item = m.item
  <2> HIDE DEF taken, row
  <2>1. /\ row.id = x.id /\ row.item = m.item /\ row.to = p /\ row.from = m.from
        /\ row.cod > 0 => m.cod > 0
    BY <1>2, <1>4, <1>42 DEF SameMail
  <2> QED BY <1>4, <1>40, <1>42, <2>1
<1>7. /\ gold' = Put(gold, p, money) /\ bag' = Put(bag, p, items)
      /\ box' = Put(box, p, Lighten(box[p], m, taken, taken))
      /\ UNCHANGED <<online, loaded, waiting, ahead, nextMail>>
      /\ UNCHANGED <<auctions, aitems, over, nextAuction, crashes>>
  BY <1>1, <1>2, MemoryType DEF Put
<1>8. nextMail' = nextMail /\ nextAuction' = nextAuction
  BY <1>7
<1>30. Commit([Last EXCEPT !.gold[p] = gold'[p], !.mails = Lighten(@, m, taken, row)])
  BY <1>1
<1> HIDE DEF left, taken, row
<1>43. Replaces(x, left, {}) /\ mails = Remaining(x, left, {})
  BY <1>2, <1>6, <1>8 DEF Replaces, Remaining
<1>9. /\ MailsGood(mails, nextMail') /\ mails \in SUBSET Mails
      /\ \A y \in Last.mails : y.to \notin loaded \/ y.to # p => y \in mails
      /\ \A y, z \in Last.mails : y.id = z.id => y = z
  <2> HIDE DEF mails
  <2> QED BY <1>40, <1>43, MailTaken
<1>10. Lighten(Last.mails, m, taken, row) = mails
  BY <1>2, <1>9, LightenIs DEF left
<1>11. money \in Nat /\ items \in SUBSET Items
  BY <1>2, <1>3
<1>12. gold'[p] = money
  <2>1. gold \in [Players -> Nat]
    BY <1>2, MemoryType
  <2> HIDE DEF money
  <2> QED BY <1>7, <2>1 DEF Put
<1>13. bags = Last.bag
  BY <1>2, BookIs, PutBag
<1>26. ASSUME ~truncated' PROVE Balanced(Put(Last.gold, p, money), mails, entries, Last.sunk)
  <2> DEFINE old == Last.mails
             w == 0
             y == w - m.money
             sunk == Last.sunk
  <2>0. ~truncated /\ x = m /\ row = taken
    BY <1>26, <1>40, <1>41
  <2>1. old \in SUBSET Mails /\ IsFiniteSet(old) /\ sunk \in Nat
    BY <2>0, FoundBalance
  <2>2. m \in old /\ w \in Int /\ y \in Int
    BY <1>3, <2>0
  <2>3. \A z \in left : z \notin old \ {m} /\ z.money = w
    BY <1>4, <1>6, <1>9, <2>0
  <2>4. (money - gold[p]) + y + sunk = sunk
    BY <1>2, <1>3, <2>1
  <2>5. IsFiniteSet(mails) /\ Posted(mails) = Posted(old) + y
    <3>1. left = {} => w = 0
      OBVIOUS
    <3>2. One(left, old \ {m}, w)
      BY <1>6, <2>2, <2>3, <3>1 DEF One
    <3> HIDE DEF old, w
    <3>3. /\ IsFiniteSet((old \ {m}) \cup left)
          /\ Posted((old \ {m}) \cup left) = Posted(old) + (w - m.money)
      BY <2>1, <2>2, <3>2, PostedInstead
    <3> QED BY <2>0, <3>3 DEF old
  <2> HIDE DEF money, mails, sunk, y
  <2>6. Balanced(Put(Last.gold, p, money), mails, Last.auctions, sunk)
    BY <1>2, <1>11, <2>0, <2>1, <2>2, <2>4, <2>5, MailBalances DEF sunk
  <2> QED BY <2>6 DEF sunk
<1>14. Stores(p, money, items, mails, entries, gone)
  <2> DEFINE lighter == Lighten(Last.mails, m, taken, row)
             moneys == Put(Last.gold, p, money)
             paid == [Last EXCEPT !.gold = moneys]
             b == [paid EXCEPT !.mails = lighter]
  <2>1. /\ Last.sunk \in Nat
        /\ Last = Row(Last.gold, Last.bag, Last.mails, Last.auctions, Last.sunk, gone)
    BY <1>2, BookIs
  <2>2. Commit([Last EXCEPT !.gold = moneys, !.mails = lighter])
    <3> HIDE DEF money
    <3> QED BY <1>30, <1>12 DEF Put
  <2> HIDE DEF moneys, lighter, gone
  <2>3. Commit(b)
    BY <2>2
  <2>4. paid = Row(moneys, Last.bag, Last.mails, Last.auctions, Last.sunk, gone)
    BY <2>1 DEF Row
  <2> HIDE DEF paid
  <2>5. b = Row(moneys, Last.bag, lighter, Last.auctions, Last.sunk, gone)
    BY <2>4 DEF Row
  <2> HIDE DEF b, mails, bags
  <2>6. Commit(Row(moneys, bags, mails, entries, Last.sunk, gone))
    BY <1>10, <1>13, <2>3, <2>5 DEF lighter
  <2> HIDE DEF money, items, entries
  <2> QED BY <1>11, <1>26, <2>1, <2>6 DEF Stores, bags, moneys
<1>15. /\ \A y \in mails : y \in Last.mails \ {x} \/ (y.item = m.item /\ y \in left)
       /\ \A y \in Last.mails : y # x => y \in mails
       /\ m.item # None => \E y \in mails : y.item = m.item
  BY <1>6
<1>16. /\ entries \in SUBSET Auctions /\ gone \in SUBSET Items
  BY <1>2, BookIs
<1>21. BoxesShow(box', mails, ~truncated')
  <2> DEFINE inbox == Lighten(box[p], m, taken, taken)
             exact == ~truncated'
  <2>1. box[p] \in SUBSET Mails /\ Deliver({}) = box
    BY <1>2, MemoryType, DeliverNone
  <2>2. \A y \in inbox : \/ y \in box[p] /\ y.id # m.id
                         \/ y = taken /\ ~(taken.item = None /\ taken.money = 0)
    BY LightenHas
  <2>3. inbox \in SUBSET Mails
    <3> HIDE DEF inbox
    <3> QED BY <1>4, <2>1, <2>2
  <2>4. ~(taken.item = None /\ taken.money = 0) => Shown(taken, left, exact)
    BY <1>41, <1>42 DEF Shown, left
  <2>5. taken.to = p /\ (taken.cod > 0 => taken.from \in Players)
    BY <1>4, <1>40
  <2>6. exact => ~truncated
    BY <1>41
  <2>7. box' = Put(Deliver({}), p, inbox)
    BY <1>7, <2>1
  <2>8. \A y \in inbox : \/ y \in Deliver({})[p] /\ y.id # m.id
                         \/ /\ y.to = p /\ (y.cod > 0 => y.from \in Players)
                            /\ Shown(y, left, exact)
    <3> HIDE DEF inbox, exact
    <3> QED BY <2>1, <2>2, <2>4, <2>5
  <2> DEFINE new == Put(Deliver({}), p, inbox)
  <2> HIDE DEF inbox, mails, exact
  <2>9. BoxesShow(new, Remaining(x, left, {}), exact)
    BY <1>40, <1>43, <2>3, <2>6, <2>8, BoxTaken
  <2> HIDE DEF new
  <2> QED BY <1>43, <2>7, <2>9 DEF new, exact
<1> HIDE DEF items, mails, bags, money, gone
<1>22. Alone(bags, mails, entries, gone)
  <2>1. Alone(Last.bag, Last.mails, entries, gone)
    BY <1>2 DEF BookGood, gone
  <2>2. \A r \in Players, y \in mails : y.item \notin Last.bag[r]
    BY <1>2, <1>15, <2>1 DEF Alone
  <2>3. \A y \in mails, a \in entries : y.item # a.item
    BY <1>2, <1>15, <2>1 DEF Alone
  <2>4. \A y, z \in mails : y.item = z.item /\ y.item # None => y = z
    <3> SUFFICES ASSUME NEW y \in mails, NEW z \in mails, y.item = z.item, y.item # None
                 PROVE  y = z
      OBVIOUS
    <3>1. \A n \in Last.mails \ {x} : n.item # None => n.item # m.item
      BY <1>2, <2>1 DEF Alone
    <3> QED BY <1>6, <1>15, <2>1, <3>1 DEF Alone
  <2>5. \A y \in mails : y.item \notin gone
    BY <1>2, <1>15, <2>1 DEF Alone
  <2>6. Alone(Last.bag, mails, entries, gone)
    BY <2>1, <2>2, <2>3, <2>4, <2>5 DEF Alone
  <2> QED BY <1>13, <2>6
<1>23. LogTrade => Somewhere(bags, mails, entries, gone)
  <2>1. LogTrade => Somewhere(Last.bag, Last.mails, entries, gone)
    BY <1>2 DEF BookGood, gone
  <2>2. \A i \in Items : i # None
    BY PlayersAssumption
  <2> QED BY <1>2, <1>13, <1>15, <2>1, <2>2 DEF Somewhere
<1>24. KeepsGood(p, items, mails, entries, gone)
  <2>1. /\ nextAuction' \in Nat /\ nextAuction <= nextAuction'
        /\ AuctionsGood(entries, nextAuction')
        /\ nextMail' \in Nat /\ nextMail <= nextMail'
    BY <1>2, <1>8 DEF BookGood
  <2> QED BY <1>9, <1>16, <1>22, <1>23, <2>1 DEF KeepsGood, bags
<1>25. Follows(p, money, items, mails, entries)
  <2>1. /\ aitems' \subseteq Items /\ auctions' \in SUBSET Auctions
        /\ \A a \in auctions' : a.item \in aitems'
    BY <1>2, <1>7, MemoryType
  <2>2. Agree(auctions', entries, ~truncated')
    BY <1>2, <1>7, <1>41 DEF Agree
  <2> QED BY <1>7, <1>21, <1>41, <2>1, <2>2 DEF Follows
<1> QED BY <1>2, <1>14, <1>24, <1>25, HandlerKeeps

LEMMA HandleMailReturnToSenderStep ==
  ASSUME IInv, NEW p \in Players, HandleMailReturnToSender(p), UNCHANGED houseVars
  PROVE  IInv'
<1>1. PICK m \in box[p] :
        LET back == IF m.from \in Players
                    THEN {Letter(nextMail, m.from, p, m.money, m.item, 0)} ELSE {}
            lost == IF back = {} THEN m.money ELSE 0
            burnt == IF back = {} THEN {m.item} \ {None} ELSE {}
        IN /\ box' = [Deliver(back) EXCEPT ![p] = {x \in @ : x.id # m.id}]
           /\ Commit([Last EXCEPT !.mails = {x \in @ : x.id # m.id} \cup back,
                                  !.sunk = @ + lost, !.discarded = @ \cup burnt])
           /\ nextMail' = nextMail + Cardinality(back)
           /\ UNCHANGED <<online, loaded, waiting, ahead, gold, bag, truncated>>
  BY DEF HandleMailReturnToSender
<1>40. PICK x \in Last.mails : /\ SameMail(x, m) /\ (~truncated => x = m) /\ x \in Mails
                               /\ m \in Mails /\ m.to = p /\ p \in loaded /\ p \in online
                               /\ m.cod > 0 => m.from \in Players
  BY FoundMail
<1> DEFINE letter == Letter(nextMail, m.from, p, m.money, m.item, 0)
           added == IF m.from \in Players THEN {letter} ELSE {}
           lost == IF added = {} THEN m.money ELSE 0
           burnt == IF added = {} THEN {m.item} \ {None} ELSE {}
           money == Last.gold[p]
           items == bag[p]
           rest == Last.mails \ {x}
           mails == rest \cup added
           entries == Last.auctions
           gone == Last.discarded \cup burnt
           sunk == Last.sunk + lost
           bags == Put(Last.bag, p, items)
<1>2. /\ TypeOK /\ Last \in Books /\ BookGood(Last, nextMail, nextAuction)
      /\ auctions \in SUBSET Auctions /\ Agree(auctions, Last.auctions, ~truncated)
      /\ \A a \in auctions : a.item \in aitems
      /\ gold[p] \in Nat /\ bag[p] \in SUBSET Items /\ bag[p] = Last.bag[p]
      /\ nextMail \in Nat /\ nextAuction \in Nat
      /\ p \in online /\ p \in loaded
      /\ x.id = m.id /\ x.item = m.item /\ x.to = p
  BY <1>40, Found, MemoryType DEF IInv, SameMail
<1>3. m \in Mails /\ m.money \in Nat /\ m.item \in Items \cup {None}
  BY <1>40 DEF Mails
<1>4. m.from \in Players => letter \in Mails /\ letter.id = nextMail /\ letter.item = m.item
                            /\ letter.cod = 0 /\ letter.money = m.money
  BY <1>2, <1>3 DEF Letter, Mails
<1>5. /\ added \in SUBSET Mails /\ Cardinality(added) \in 0..1
      /\ \A y \in added : y.id = nextMail /\ y.cod = 0 /\ y.item = m.item /\ y.money = m.money
      /\ \A y, z \in added : y = z
      /\ added # {} => Cardinality(added) = 1
  <2>1. added = {} \/ (added = {letter} /\ m.from \in Players)
    OBVIOUS
  <2>2. Cardinality({}) = 0 /\ Cardinality({letter}) = 1
    BY FS_EmptySet, FS_Singleton
  <2> HIDE DEF letter, added
  <2>3. Cardinality(added) \in 0..1 /\ (added # {} => Cardinality(added) = 1)
    BY <2>1, <2>2
  <2> QED BY <1>4, <2>1, <2>3
<1>6. /\ bag' = Put(bag, p, items)
      /\ box' = Put(Deliver(added), p, {y \in Deliver(added)[p] : y.id # m.id})
      /\ UNCHANGED <<online, loaded, waiting, ahead, gold, truncated>>
      /\ UNCHANGED <<auctions, aitems, over, nextAuction, crashes>>
      /\ nextMail' = nextMail + Cardinality(added)
  <2>1. bag' = bag /\ bag \in [Players -> SUBSET Items]
    BY <1>1, <1>2, MemoryType
  <2> QED BY <1>1, <2>1 DEF Put
<1>7. Commit([Last EXCEPT !.mails = {y \in @ : y.id # m.id} \cup added,
                          !.sunk = @ + lost, !.discarded = @ \cup burnt])
  BY <1>1
<1> HIDE DEF letter, added
<1>8. /\ nextMail' \in Nat /\ nextMail <= nextMail' /\ (added # {} => nextMail < nextMail')
      /\ nextAuction' = nextAuction
  BY <1>2, <1>5, <1>6
<1>43. Replaces(x, {}, added) /\ mails = Remaining(x, {}, added)
  BY <1>2, <1>5, <1>8 DEF Replaces, Remaining
<1>9. /\ MailsGood(mails, nextMail') /\ mails \in SUBSET Mails
      /\ \A y \in Last.mails : y.to \notin loaded \/ y.to # p => y \in mails
      /\ \A y, z \in Last.mails : y.id = z.id => y = z
  <2> HIDE DEF mails
  <2> QED BY <1>40, <1>43, MailTaken
<1>10. {y \in Last.mails : y.id # m.id} = rest
  BY <1>2, <1>9
<1>11. /\ money \in Nat /\ items \in SUBSET Items /\ lost \in Nat /\ sunk \in Nat
       /\ burnt \in SUBSET Items /\ gone \in SUBSET Items
       /\ ~truncated => gold[p] = money
  BY <1>2, <1>3, BookIs, Found
<1>12. bags = Last.bag /\ Put(Last.gold, p, money) = Last.gold
  BY <1>2, BookIs, PutBag DEF Put
<1>26. ASSUME ~truncated' PROVE Balanced(Put(Last.gold, p, money), mails, entries, sunk)
  <2> DEFINE old == Last.mails
             w == IF added = {} THEN 0 ELSE m.money
             y == w - m.money
  <2>0. ~truncated /\ x = m
    BY <1>6, <1>26, <1>40
  <2>1. old \in SUBSET Mails /\ IsFiniteSet(old) /\ Last.sunk \in Nat
    BY <2>0, FoundBalance
  <2>2. m \in old /\ w \in Int /\ y \in Int /\ y + lost = 0
    BY <1>3, <2>0
  <2>3. \A z \in added : z \notin old \ {m} /\ z.money = w
    <3>1. \A z \in added : z \notin old
      BY <1>2, <1>5, NewMail
    <3> QED BY <1>5, <3>1
  <2>4. (money - gold[p]) + y + sunk = Last.sunk
    BY <1>2, <1>11, <2>0, <2>1, <2>2
  <2>5. IsFiniteSet(mails) /\ Posted(mails) = Posted(old) + y
    <3>1. added = {} => w = 0
      OBVIOUS
    <3>2. One(added, old \ {m}, w)
      BY <1>5, <2>2, <2>3, <3>1 DEF One
    <3> HIDE DEF old, w
    <3>3. /\ IsFiniteSet((old \ {m}) \cup added)
          /\ Posted((old \ {m}) \cup added) = Posted(old) + (w - m.money)
      BY <2>1, <2>2, <3>2, PostedInstead
    <3> QED BY <2>0, <3>3 DEF old
  <2> HIDE DEF money, mails, sunk, y
  <2>6. Balanced(Put(Last.gold, p, money), mails, Last.auctions, sunk)
    BY <1>2, <1>11, <2>0, <2>2, <2>4, <2>5, MailBalances
  <2> QED BY <2>6
<1>14. Stores(p, money, items, mails, entries, gone)
  <2> DEFINE moneys == Put(Last.gold, p, money)
             sorted == [Last EXCEPT !.mails = mails]
             paid == [sorted EXCEPT !.sunk = sunk]
             b == [paid EXCEPT !.discarded = gone]
  <2>1. Last = Row(Last.gold, Last.bag, Last.mails, Last.auctions, Last.sunk, Last.discarded)
    BY <1>2, BookIs
  <2>2. Commit([Last EXCEPT !.mails = mails, !.sunk = sunk, !.discarded = gone])
    BY <1>7, <1>10
  <2> HIDE DEF moneys, mails, sunk, gone
  <2>3. Commit(b)
    BY <2>2
  <2>4. sorted = Row(Last.gold, Last.bag, mails, Last.auctions, Last.sunk, Last.discarded)
    BY <2>1 DEF Row
  <2> HIDE DEF sorted
  <2>5. paid = Row(Last.gold, Last.bag, mails, Last.auctions, sunk, Last.discarded)
    BY <2>4 DEF Row
  <2> HIDE DEF paid
  <2>6. b = Row(Last.gold, Last.bag, mails, Last.auctions, sunk, gone)
    BY <2>5 DEF Row
  <2> HIDE DEF b, bags
  <2>7. Commit(Row(moneys, bags, mails, entries, sunk, gone))
    BY <1>12, <2>3, <2>6 DEF moneys
  <2> HIDE DEF money, items, entries
  <2> QED BY <1>11, <1>26, <2>7 DEF Stores, bags, moneys
<1>15. /\ \A y \in mails : y \in Last.mails \ {x} \/ (y.item = m.item /\ y \in added)
       /\ \A y \in Last.mails : y # x => y \in mails
       /\ added # {} => \E y \in mails : y.item = m.item
  BY <1>5
<1>17. /\ \A i \in gone : i \in Last.discarded \/ (i = m.item /\ i # None /\ added = {})
       /\ Last.discarded \subseteq gone
       /\ added = {} /\ m.item # None => m.item \in gone
  OBVIOUS
<1>16. entries \in SUBSET Auctions
  BY <1>2, BookIs
<1>21. BoxesShow(box', mails, ~truncated')
  <2> DEFINE sent == Deliver(added)[p]
             inbox == {y \in sent : y.id # m.id}
             exact == ~truncated'
             new == Put(Deliver(added), p, inbox)
  <2>1. sent \in SUBSET Mails
    <3>1. \A y \in added : y.cod > 0 => y.from \in Players
      BY <1>5
    <3> QED BY <1>5, <3>1, DeliverIs DEF BoxesShow
  <2>2. inbox \in SUBSET Mails /\ (exact => ~truncated)
    BY <1>6, <2>1
  <2>3. \A y \in inbox : \/ y \in Deliver(added)[p] /\ y.id # m.id
                         \/ /\ y.to = p /\ (y.cod > 0 => y.from \in Players)
                            /\ Shown(y, {}, exact)
    OBVIOUS
  <2>4. box' = new
    BY <1>6
  <2> HIDE DEF inbox, mails, exact
  <2>5. BoxesShow(new, Remaining(x, {}, added), exact)
    BY <1>40, <1>43, <2>2, <2>3, BoxTaken
  <2> HIDE DEF new
  <2> QED BY <1>43, <2>4, <2>5 DEF exact
<1> HIDE DEF items, mails, bags, money, gone, sunk, rest, lost, burnt
<1>22. Alone(bags, mails, entries, gone)
  <2>1. Alone(Last.bag, Last.mails, entries, Last.discarded)
    BY <1>2 DEF BookGood
  <2>2. \A r \in Players, y \in mails : y.item \notin Last.bag[r]
    BY <1>2, <1>15, <2>1 DEF Alone
  <2>3. \A y \in mails, a \in entries : y.item # a.item
    BY <1>2, <1>15, <2>1 DEF Alone
  <2>7. \A n \in Last.mails \ {x} : n.item # None => n.item # m.item
    BY <1>2, <2>1 DEF Alone
  <2>4. \A y, z \in mails : y.item = z.item /\ y.item # None => y = z
    <3> SUFFICES ASSUME NEW y \in mails, NEW z \in mails, y.item = z.item, y.item # None
                 PROVE  y = z
      OBVIOUS
    <3> QED BY <1>5, <1>15, <2>1, <2>7 DEF Alone
  <2>5. \A y \in mails : y.item \notin gone
    BY <1>2, <1>15, <1>17, <2>1, <2>7 DEF Alone
  <2>6. /\ \A r \in Players : \A i \in Last.bag[r] : i \notin gone
        /\ \A a \in entries : a.item \notin gone
    BY <1>2, <1>17, <2>1 DEF Alone
  <2>8. Alone(Last.bag, mails, entries, gone)
    BY <2>1, <2>2, <2>3, <2>4, <2>5, <2>6 DEF Alone
  <2> QED BY <1>12, <2>8
<1>23. LogTrade => Somewhere(bags, mails, entries, gone)
  <2>1. LogTrade => Somewhere(Last.bag, Last.mails, entries, Last.discarded)
    BY <1>2 DEF BookGood
  <2>2. \A i \in Items : i # None
    BY PlayersAssumption
  <2> QED BY <1>2, <1>12, <1>15, <1>17, <2>1, <2>2 DEF Somewhere
<1>24. KeepsGood(p, items, mails, entries, gone)
  <2>1. /\ nextAuction' \in Nat /\ nextAuction <= nextAuction'
        /\ AuctionsGood(entries, nextAuction')
    BY <1>2, <1>8 DEF BookGood
  <2> QED BY <1>8, <1>9, <1>11, <1>16, <1>22, <1>23, <2>1 DEF KeepsGood, bags
<1>25. Follows(p, money, items, mails, entries)
  <2>1. /\ aitems' \subseteq Items /\ auctions' \in SUBSET Auctions
        /\ \A a \in auctions' : a.item \in aitems'
    BY <1>2, <1>6, MemoryType
  <2>2. Agree(auctions', entries, ~truncated')
    BY <1>2, <1>6
  <2>3. truncated' \in BOOLEAN
    BY <1>2, <1>6 DEF TypeOK
  <2> QED BY <1>6, <1>11, <1>21, <2>1, <2>2, <2>3 DEF Follows
<1> QED BY <1>2, <1>14, <1>24, <1>25, HandlerKeeps

-----------------------------------------------------------------------------
(* The rest of World::Update, a crash, the start of the server.            *)

LEMMA LookingStep ==
  ASSUME IInv, FindExpired \/ SkipExpired
  PROVE  IInv'
<1>1. /\ UNCHANGED mailVars /\ UNCHANGED <<auctions, aitems, nextAuction, crashes>>
  BY DEF FindExpired, SkipExpired
<1>2. over' \subseteq Nat
  <2>1. CASE FindExpired
    <3>1. Now \in Books /\ over' \subseteq {a.id : a \in Now.auctions}
      BY <2>1, LastType DEF FindExpired, IInv
    <3>2. \A a \in Now.auctions : a.id \in Nat
      BY <3>1, BookIs DEF Auctions
    <3> QED BY <3>1, <3>2
  <2>2. CASE SkipExpired
    BY <2>2 DEF SkipExpired, IInv, TypeOK
  <2> QED BY <2>1, <2>2
<1>3. Last' = Last
  BY <1>1 DEF Last
<1>4. TypeOK'
  BY <1>1, <1>2 DEF IInv, TypeOK
<1>5. BooksGood' /\ BooksBalanced' /\ OnlineSaved' /\ UnloadedCurrent' /\ WaitingCurrent'
  BY <1>1, <1>3 DEF IInv, BooksGood, BooksBalanced, BookBalanced, OnlineSaved, UnloadedCurrent,
                    WaitingCurrent
<1>6. BoxSaved' /\ HouseSaved'
  BY <1>1, <1>3 DEF IInv, BoxSaved, HouseSaved, Shown, Agree
<1> QED BY <1>4, <1>5, <1>6 DEF IInv

\* The first id that is free after all that are in use.
LEMMA NextId ==
  ASSUME NEW S \in SUBSET Nat, NEW n \in Nat, \A x \in S : x < n
  PROVE  /\ Max(S \cup {0}) + 1 \in Nat
         /\ \A x \in S : x < Max(S \cup {0}) + 1
<1> DEFINE T == S \cup {0}
<1>1. T \in SUBSET Nat /\ T # {} /\ n + 1 \in Nat /\ \A x \in T : x < n + 1
  OBVIOUS
<1> HIDE DEF T
<1>2. Max(T) \in T /\ \A x \in T : x <= Max(T)
  BY <1>1, MaxOfBounded
<1>3. Max(T) \in Nat
  BY <1>1, <1>2
<1>4. \A x \in S : x <= Max(T) /\ x \in Nat
  BY <1>2 DEF T
<1>5. Max(T) + 1 \in Nat /\ \A x \in S : x < Max(T) + 1
  BY <1>3, <1>4
<1> QED BY <1>5 DEF T

LEMMA CrashStep ==
  ASSUME IInv, Crash
  PROVE  IInv'
<1>1. TypeOK /\ Now \in Books /\ BookGood(Now, nextMail, nextAuction)
  BY LastType DEF IInv, BooksGood, Now
<1> DEFINE mailIds == {m.id : m \in Now.mails}
           auctionIds == {a.id : a \in Now.auctions}
<1>2. /\ online' = {} /\ loaded' = {} /\ waiting' = {} /\ over' = {}
      /\ ahead' = [p \in Players |-> 0]
      /\ gold' = [p \in Players |-> 0]
      /\ bag' = [p \in Players |-> {}]
      /\ box' = [p \in Players |-> {}]
      /\ durable' = <<Now>> /\ crashes' = crashes + 1
      /\ nextMail' = Max(mailIds \cup {0}) + 1
      /\ nextAuction' = Max(auctionIds \cup {0}) + 1
      /\ auctions' = Now.auctions
      /\ aitems' = {a.item : a \in Now.auctions}
      /\ truncated' = truncated
  BY DEF Crash
<1>3. /\ Now.mails \in SUBSET Mails /\ Now.auctions \in SUBSET Auctions
      /\ nextMail \in Nat /\ nextAuction \in Nat /\ crashes \in Nat
      /\ truncated \in BOOLEAN
  BY <1>1, BookIs DEF TypeOK
<1>4. nextMail' \in Nat /\ \A m \in Now.mails : m.id < nextMail'
  <2>1. mailIds \in SUBSET Nat /\ \A x \in mailIds : x < nextMail
    BY <1>1, <1>3 DEF BookGood, MailsGood, Mails
  <2>2. \A m \in Now.mails : m.id \in mailIds
    OBVIOUS
  <2> HIDE DEF mailIds
  <2>3. Max(mailIds \cup {0}) + 1 \in Nat /\ \A x \in mailIds : x < Max(mailIds \cup {0}) + 1
    BY <1>3, <2>1, NextId
  <2> QED BY <1>2, <2>2, <2>3
<1>5. nextAuction' \in Nat /\ \A a \in Now.auctions : a.id < nextAuction'
  <2>1. auctionIds \in SUBSET Nat /\ \A x \in auctionIds : x < nextAuction
    BY <1>1, <1>3 DEF BookGood, AuctionsGood, Auctions
  <2>2. \A a \in Now.auctions : a.id \in auctionIds
    OBVIOUS
  <2> HIDE DEF auctionIds
  <2>3. Max(auctionIds \cup {0}) + 1 \in Nat
        /\ \A x \in auctionIds : x < Max(auctionIds \cup {0}) + 1
    BY <1>3, <2>1, NextId
  <2> QED BY <1>2, <2>2, <2>3
<1> HIDE DEF mailIds, auctionIds
<1>6. BookGood(Now, nextMail', nextAuction')
  BY <1>1, <1>4, <1>5 DEF BookGood, MailsGood, AuctionsGood
<1>7. /\ durable' \in Seq(Books) /\ durable' # <<>> /\ Len(durable') = 1
      /\ DOMAIN durable' = {1} /\ durable'[1] = Now
  BY <1>1, <1>2
<1>8. Last' = Now
  BY <1>7 DEF Last
<1>9. TypeOK'
  <2>1. aitems' \subseteq Items
    BY <1>2, <1>3 DEF Auctions
  <2>2. 0 \in Nat /\ {} \in SUBSET Items /\ {} \in SUBSET Mails
    OBVIOUS
  <2>3. ahead' \in [Players -> Nat] /\ gold' \in [Players -> Nat]
    BY <1>2
  <2>4. bag' \in [Players -> SUBSET Items] /\ box' \in [Players -> SUBSET Mails]
    BY <1>2
  <2>5. crashes' \in Nat
    BY <1>2, <1>3
  <2> QED BY <1>2, <1>3, <1>4, <1>5, <1>7, <2>1, <2>3, <2>4, <2>5 DEF TypeOK
<1>10. BooksGood' /\ BooksBalanced'
  <2>1. ~truncated => BookBalanced(Now)
    BY <1>1, LastType DEF IInv, BooksBalanced, Now
  <2> QED BY <1>2, <1>6, <1>7, <2>1 DEF BooksGood, BooksBalanced, BookBalanced
<1>11. OnlineSaved' /\ UnloadedCurrent' /\ WaitingCurrent'
  BY <1>2 DEF OnlineSaved, UnloadedCurrent, WaitingCurrent
<1>12. BoxSaved' /\ HouseSaved'
  <2>1. Agree(Now.auctions, Now.auctions, ~truncated)
    BY <1>6 DEF Agree, SameSale, BookGood, AuctionsGood
  <2>2. HouseSaved'
    BY <1>2, <1>8, <2>1 DEF HouseSaved, Agree
  <2>3. BoxSaved'
    BY <1>2 DEF BoxSaved
  <2> QED BY <2>2, <2>3
<1> QED BY <1>9, <1>10, <1>11, <1>12 DEF IInv

\* What the server may start from.
LEMMA StoredIs ==
  ASSUME NEW money \in [Players -> Nat], NEW owner \in [Items -> Visitors],
         NEW old \in SUBSET Auctions, \A a \in old : a.id = 1, \A a, c \in old : a = c,
         NEW next \in Nat, old # {} => next = 2,
         Balanced(money, {}, old, 0)
  PROVE  /\ Stored(money, owner, old) \in Books
         /\ BookGood(Stored(money, owner, old), 1, next)
         /\ Stored(money, owner, old).auctions = old
         /\ BookBalanced(Stored(money, owner, old))
<1> DEFINE bags == [p \in Players |-> {i \in Items : owner[i] = p} \ {a.item : a \in old}]
           b == Stored(money, owner, old)
<1>1. bags \in [Players -> SUBSET Items]
  OBVIOUS
<1>2. b = Row(money, bags, {}, old, 0, {})
  BY DEF Stored, Row
<1>3. \A a \in old : a.item \in Items
  BY DEF Auctions
<1>4. \A p \in Players : \A i \in bags[p] : owner[i] = p /\ i \in Items /\ \A a \in old : a.item # i
  OBVIOUS
<1>5. \A i \in Items : (\A a \in old : a.item # i) => owner[i] \in Players /\ i \in bags[owner[i]]
  BY PlayersAssumption
<1> HIDE DEF b, bags
<1>6. b \in Books
  BY <1>1, <1>2 DEF Books, Row
<1>7. b.bag = bags /\ b.mails = {} /\ b.auctions = old /\ b.gold = money /\ b.sunk = 0
      /\ b.discarded = {}
  BY <1>2, RowFields
<1>8. Alone(bags, {}, old, {})
  BY <1>4 DEF Alone
<1>9. Somewhere(bags, {}, old, {})
  BY <1>5 DEF Somewhere
<1>10. MailsGood({}, 1) /\ AuctionsGood(old, next)
  BY DEF MailsGood, AuctionsGood
<1> QED BY <1>6, <1>7, <1>8, <1>9, <1>10 DEF BookGood, BookBalanced, b

LEMMA InitHolds ==
  ASSUME Init
  PROVE  IInv
<1>1. /\ aitems = {a.item : a \in auctions}
      /\ nextAuction = IF auctions = {} THEN 1 ELSE 2
      /\ online = {} /\ loaded = {} /\ waiting = {}
      /\ ahead = [p \in Players |-> 0]
      /\ gold = [p \in Players |-> 0]
      /\ bag = [p \in Players |-> {}]
      /\ box = [p \in Players |-> {}]
      /\ nextMail = 1 /\ truncated = FALSE /\ over = {} /\ crashes = 0
  BY DEF Init
<1>2. PICK owner \in [Items -> Visitors] :
        \/ auctions = {} /\ durable = <<Stored([p \in Players |-> Gold], owner, {})>>
        \/ \E a \in OldAuctions(owner) :
            /\ auctions = {a}
            /\ durable = <<Stored([p \in Players |-> Gold
                                      - (IF a.owner = p THEN Deposit ELSE 0)
                                      - (IF a.bidder = p THEN a.bid ELSE 0)], owner, {a})>>
  BY DEF Init
<1> DEFINE Starts(money) ==
             /\ durable = <<Stored(money, owner, auctions)>>
             /\ auctions \in SUBSET Auctions
             /\ \A a \in auctions : a.id = 1
             /\ \A a, c \in auctions : a = c
             /\ Balanced(money, {}, auctions, 0)
<1> DEFINE all == [p \in Players |-> Gold]
<1>14. /\ IsFiniteSet(Players) /\ all \in [Players -> Nat] /\ Gold \in Nat
       /\ Cardinality(Players) \in Nat /\ Total(all) = Gold * Cardinality(Players)
       /\ Deposit \in Nat
  BY PlayersAssumption, HouseAssumption, TotalConst, FS_CardinalityType
<1>15. /\ {} \in SUBSET Mails /\ {} \in SUBSET Auctions /\ IsFiniteSet({})
       /\ Posted({}) = 0 /\ Staked({}) = 0
  BY FS_EmptySet, PostedType, StakedType
<1> HIDE DEF all
<1>3. \E money \in [Players -> Nat] : Starts(money)
  <2>1. CASE auctions = {} /\ durable = <<Stored([p \in Players |-> Gold], owner, {})>>
    <3>1. durable = <<Stored(all, owner, auctions)>>
      BY <2>1 DEF all
    <3>2. Balanced(all, {}, auctions, 0)
      <4> DEFINE w == Gold * Cardinality(Players)
      <4>1. w \in Int /\ Total(all) = w
        BY <1>14
      <4> HIDE DEF w
      <4>2. Total(all) + Posted({}) + Staked({}) + 0 = w
        BY <1>15, <4>1
      <4> QED BY <1>15, <2>1, <4>2 DEF Balanced, BidsGood, w
    <3>3. Starts(all)
      BY <1>15, <2>1, <3>1, <3>2
    <3> HIDE DEF Starts
    <3> QED BY <1>14, <3>3
  <2>2. ASSUME NEW a \in OldAuctions(owner), auctions = {a},
               durable = <<Stored([p \in Players |-> Gold
                                      - (IF a.owner = p THEN Deposit ELSE 0)
                                      - (IF a.bidder = p THEN a.bid ELSE 0)], owner, {a})>>
        PROVE  \E money \in [Players -> Nat] : Starts(money)
    <3> DEFINE money == [p \in Players |-> Gold - (IF a.owner = p THEN Deposit ELSE 0)
                                                - (IF a.bidder = p THEN a.bid ELSE 0)]
    <3>1. /\ a \in [id : {1}, item : Items, owner : Visitors,
                     bidder : (Players \ Visitors) \cup {None},
                     bid : Amounts \cup {0}, buyout : Buyouts \cup {0}]
          /\ a.bid <= Gold
      BY DEF OldAuctions
    <3>2. /\ a \in Auctions /\ a.id = 1 /\ a.owner \in Visitors /\ a.bid \in Nat
          /\ a.bidder \in (Players \ Visitors) \cup {None}
      <4> DEFINE bids == Amounts \cup {0}
                 prices == Buyouts \cup {0}
                 away == (Players \ Visitors) \cup {None}
                 ones == {1}
      <4>1. /\ Visitors \subseteq Players /\ \A x \in bids : x \in Nat
            /\ \A x \in prices : x \in Nat
            /\ \A x \in ones : x = 1 /\ x \in Nat
            /\ \A x \in away : x \in Players \cup {None}
        BY HouseAssumption, PlayersAssumption
      <4>2. a \in [id : ones, item : Items, owner : Visitors, bidder : away, bid : bids,
                  buyout : prices]
        BY <3>1
      <4> HIDE DEF bids, prices, away, ones
      <4>3. /\ a \in Auctions /\ a.id = 1 /\ a.owner \in Visitors /\ a.bid \in Nat
            /\ a.bidder \in away
        BY <4>1, <4>2 DEF Auctions
      <4> QED BY <4>3 DEF away
    <3>3. money \in [Players -> Nat]
      <4>1. a.owner # a.bidder
        BY <3>2, PlayersAssumption
      <4>2. \A p \in Players : Gold - (IF a.owner = p THEN Deposit ELSE 0)
                                    - (IF a.bidder = p THEN a.bid ELSE 0) \in Nat
        BY <3>1, <3>2, <4>1, HouseAssumption
      <4> QED BY <4>2
    <3>4. durable = <<Stored(money, owner, auctions)>>
      BY <2>2
    <3>7. Balanced(money, {}, {a}, 0)
      <4> DEFINE owes == Gold - Deposit
                 had == IF a.bidder = None THEN 0 ELSE a.bid
                 rest == Gold - had
                 one == Put(all, a.owner, owes)
                 w == Gold * Cardinality(Players)
      <4>1. /\ a.owner \in Players /\ a.bidder \in Players \cup {None} /\ a.owner # a.bidder
            /\ a.bidder = None => a.bid = 0
        BY <3>1, <3>2, PlayersAssumption DEF OldAuctions
      <4>2. /\ owes \in Nat /\ rest \in Nat /\ had \in Nat /\ had = a.bid /\ owes - Gold = 0 - Deposit
            /\ rest - Gold = 0 - had
        BY <1>14, <3>1, <3>2, <4>1, HouseAssumption
      <4>3. all[a.owner] = Gold /\ w \in Int /\ Total(all) = w
        BY <1>14, <4>1 DEF all
      <4> HIDE DEF owes, w
      <4>4. one \in [Players -> Nat] /\ Total(one) = Total(all) + (owes - all[a.owner])
            /\ Total(one) \in Int
        <5>1. Total(one) = Total(all) + (owes - all[a.owner])
          BY <1>14, <4>1, <4>2, TotalOfPut
        <5>2. one \in [Players -> Nat]
          BY <1>14, <4>2 DEF Put
        <5> QED BY <4>1, <4>2, <5>1, <5>2, TotalOfPut
      <4>5. Total(money) = Total(one) + (0 - had)
        <5>1. CASE a.bidder = None
          <6>1. money = one
            BY <1>14, <4>1, <5>1 DEF Put, all, owes
          <6>2. had = 0
            BY <5>1
          <6> HIDE DEF money, had, one
          <6> QED BY <4>4, <6>1, <6>2
        <5>2. CASE a.bidder # None
          <6>1. a.bidder \in Players /\ one[a.bidder] = Gold
            BY <4>1, <5>2 DEF Put, all
          <6>2. money = Put(one, a.bidder, rest)
            BY <1>14, <4>1, <5>2, HouseAssumption DEF Put, all, owes
          <6> HIDE DEF money, had, one, rest
          <6>3. Total(money) = Total(one) + (rest - one[a.bidder])
            BY <4>2, <4>4, <6>1, <6>2, TotalOfPut
          <6> QED BY <4>2, <6>1, <6>3
        <5> QED BY <5>1, <5>2
      <4>6. Staked({a}) = a.bid + Deposit /\ IsFiniteSet({a})
        <5> DEFINE none == {}
                   single == {a}
                   stake == a.bid + Deposit
        <5>1. none \in SUBSET Auctions /\ IsFiniteSet(none) /\ a \notin none /\ Staked(none) = 0
          BY <1>15
        <5>2. none \cup {a} = single
          OBVIOUS
        <5> HIDE DEF none
        <5>3. IsFiniteSet(none \cup {a}) /\ Staked(none \cup {a}) = Staked(none) + (a.bid + Deposit)
          BY <3>2, <5>1, StakedAdds
        <5>4. a.bid + Deposit \in Int
          BY <1>14, <3>2
        <5> HIDE DEF single, stake
        <5>5. IsFiniteSet(single) /\ Staked(single) = 0 + stake
          BY <5>1, <5>2, <5>3 DEF stake
        <5>6. stake \in Int
          BY <5>4 DEF stake
        <5>7. Staked(single) = stake
          BY <5>5, <5>6
        <5> QED BY <5>5, <5>7 DEF single, stake
      <4>7. BidsGood({a})
        BY <4>1 DEF BidsGood
      <4> DEFINE bid == a.bid
      <4>8. had = bid /\ bid \in Nat /\ Staked({a}) = bid + Deposit
        BY <3>2, <4>2, <4>6
      <4> HIDE DEF money, had, one, rest, bid
      <4>9. Total(money) = w - Deposit - bid
        BY <1>14, <4>2, <4>3, <4>4, <4>5, <4>8
      <4>10. Total(money) + Posted({}) + Staked({a}) + 0 = w
        BY <1>14, <1>15, <4>3, <4>8, <4>9
      <4> QED BY <1>15, <4>6, <4>7, <4>10 DEF Balanced, w
    <3> HIDE DEF money
    <3>5. auctions \in SUBSET Auctions /\ (\A x \in auctions : x.id = 1)
          /\ \A x, c \in auctions : x = c
      BY <2>2, <3>2
    <3>6. Starts(money)
      BY <2>2, <3>4, <3>5, <3>7
    <3> HIDE DEF Starts
    <3> QED BY <3>3, <3>6
  <2> HIDE DEF Starts
  <2> QED BY <1>2, <2>1, <2>2
<1>4. PICK money \in [Players -> Nat] : Starts(money)
  BY <1>3
<1> DEFINE b == Stored(money, owner, auctions)
<1>5. nextAuction \in Nat /\ (auctions # {} => nextAuction = 2)
  BY <1>1
<1>6. b \in Books /\ BookGood(b, 1, nextAuction) /\ b.auctions = auctions /\ BookBalanced(b)
  BY <1>4, <1>5, StoredIs
<1>7. durable = <<b>>
  BY <1>4
<1> HIDE DEF b
<1>8. /\ durable \in Seq(Books) /\ durable # <<>> /\ Len(durable) = 1
      /\ DOMAIN durable = {1} /\ durable[1] = b
  BY <1>6, <1>7
<1>9. Last = b
  BY <1>8 DEF Last
<1>10. TypeOK
  <2>1. aitems \subseteq Items
    BY <1>1, <1>4 DEF Auctions
  <2>2. ahead \in [Players -> Nat] /\ gold \in [Players -> Nat]
    BY <1>1
  <2>3. bag \in [Players -> SUBSET Items] /\ box \in [Players -> SUBSET Mails]
    BY <1>1
  <2> QED BY <1>1, <1>4, <1>5, <1>8, <2>1, <2>2, <2>3 DEF TypeOK
<1>11. BooksGood /\ BooksBalanced
  BY <1>1, <1>6, <1>8 DEF BooksGood, BooksBalanced
<1>12. OnlineSaved /\ UnloadedCurrent /\ WaitingCurrent
  BY <1>1 DEF OnlineSaved, UnloadedCurrent, WaitingCurrent
<1>13. BoxSaved /\ HouseSaved
  <2>1. Agree(auctions, auctions, ~truncated)
    BY <1>4 DEF Agree, SameSale
  <2>2. HouseSaved
    BY <1>1, <1>6, <1>9, <2>1 DEF HouseSaved
  <2>3. BoxSaved
    BY <1>1 DEF BoxSaved
  <2> QED BY <2>2, <2>3
<1> QED BY <1>10, <1>11, <1>12, <1>13 DEF IInv

-----------------------------------------------------------------------------
LEMMA StepHolds ==
  ASSUME IInv, [Next]_vars
  PROVE  IInv'
<1>1. ASSUME NEW p \in Visitors, MailHandler(p)
      PROVE  IInv'
  <2>1. p \in Players /\ UNCHANGED houseVars
    BY <1>1, PlayersAssumption DEF MailHandler
  <2> QED BY <1>1, <2>1, LoginQueryStep, LoginStep, LogoutStep, HandleGetMailListStep,
             HandleSendMailStep, HandleMailTakeItemStep, HandleMailTakeMoneyStep,
             HandleMailReturnToSenderStep DEF MailHandler
<1>2. ASSUME NEW p \in Visitors, AuctionHandler(p)
      PROVE  IInv'
  <2>1. p \in Players
    BY PlayersAssumption
  <2> QED BY <1>2, <2>1, HandleAuctionSellItemStep, HandleAuctionPlaceBidStep, BuyoutStep,
             HandleAuctionRemoveItemStep DEF AuctionHandler
<1>3. CASE Update
  BY <1>3, LookingStep, EndAuctionStep DEF Update
<1>4. CASE Crash
  BY <1>4, CrashStep
<1>5. CASE Execute /\ UNCHANGED houseVars
  BY <1>5, ExecuteStep
<1>6. CASE UNCHANGED vars
  <2>1. Last' = Last
    BY <1>6 DEF Last
  <2> QED BY <1>6, <2>1 DEF IInv, TypeOK, BooksGood, BooksBalanced, BookBalanced, OnlineSaved,
                            UnloadedCurrent, WaitingCurrent, BoxSaved, HouseSaved, Shown, Agree
<1> QED BY <1>1, <1>2, <1>3, <1>4, <1>5, <1>6 DEF Next

LEMMA InvariantHolds == Spec => []IInv
<1>1. Init => IInv
  BY InitHolds
<1>2. IInv /\ [Next]_vars => IInv'
  BY StepHolds
<1> QED BY <1>1, <1>2, PTL DEF Spec

\* The memory and every book of the queue have their types.
THEOREM TypeCorrect == Spec => []TypeOK
<1>1. IInv => TypeOK
  BY DEF IInv
<1> QED BY <1>1, InvariantHolds, PTL

\* A mail and an auction without their amounts.
LEMMA SameButAmounts ==
  ASSUME NEW x \in Mails, NEW m \in Mails, SameMail(x, m)
  PROVE  [m EXCEPT !.money = 0, !.cod = 0] = [x EXCEPT !.money = 0, !.cod = 0]
<1>1. \A y \in Mails : [y EXCEPT !.money = 0, !.cod = 0]
        = [id |-> y.id, to |-> y.to, from |-> y.from, money |-> 0, item |-> y.item, cod |-> 0]
  <2> TAKE y \in Mails
  <2> DEFINE half == [y EXCEPT !.money = 0]
             whole == [half EXCEPT !.cod = 0]
  <2>1. [y EXCEPT !.money = 0, !.cod = 0] = whole
    OBVIOUS
  <2>2. half = [id |-> y.id, to |-> y.to, from |-> y.from, money |-> 0, item |-> y.item,
                cod |-> y.cod]
    BY DEF Mails
  <2> HIDE DEF half
  <2>3. whole = [id |-> y.id, to |-> y.to, from |-> y.from, money |-> 0, item |-> y.item,
                 cod |-> 0]
    BY <2>2
  <2> QED BY <2>1, <2>3
<1>2. x.id = m.id /\ x.to = m.to /\ x.from = m.from /\ x.item = m.item
  BY DEF SameMail
<1> QED BY <1>1, <1>2

LEMMA SameButBid ==
  ASSUME NEW c \in Auctions, NEW a \in Auctions, SameSale(c, a)
  PROVE  [c EXCEPT !.bid = 0] = [a EXCEPT !.bid = 0]
<1>1. \A y \in Auctions : [y EXCEPT !.bid = 0]
        = [id |-> y.id, item |-> y.item, owner |-> y.owner, bidder |-> y.bidder,
           bid |-> 0, buyout |-> y.buyout]
  BY DEF Auctions
<1>2. /\ c.id = a.id /\ c.item = a.item /\ c.owner = a.owner /\ c.bidder = a.bidder
      /\ c.buyout = a.buyout
  BY DEF SameSale
<1> QED BY <1>1, <1>2

\* What the players in the world have and see, and the auctions, are what the
\* database will hold when the queue is empty: with the same amounts, as long
\* as none was cut to 32 bits.
THEOREM SavedIsTrue == Spec => []MemoryIsSaved
<1>1. ASSUME IInv
      PROVE  MemoryIsSaved
  <2>0. /\ Last.mails \in SUBSET Mails /\ Last.auctions \in SUBSET Auctions
        /\ auctions \in SUBSET Auctions /\ loaded \subseteq Players
        /\ \A p \in loaded : box[p] \in SUBSET Mails
    BY <1>1, Found, BookIs, MemoryType DEF IInv
  <2>1. ASSUME NEW p \in loaded, NEW m \in box[p]
        PROVE  /\ [m EXCEPT !.money = 0, !.cod = 0] \in Unpriced(Last.mails)
               /\ ~truncated => m \in Last.mails
    <3>1. PICK x \in Last.mails : SameMail(x, m) /\ (~truncated => x = m)
      BY <1>1, <2>0, Found DEF Shown
    <3>2. [m EXCEPT !.money = 0, !.cod = 0] = [x EXCEPT !.money = 0, !.cod = 0]
      BY <2>0, <3>1, SameButAmounts
    <3> QED BY <3>1, <3>2 DEF Unpriced
  <2>2. \A p \in loaded : Unpriced(box[p]) \subseteq Unpriced(Last.mails)
    <3> SUFFICES ASSUME NEW p \in loaded, NEW y \in Unpriced(box[p])
                 PROVE  y \in Unpriced(Last.mails)
      OBVIOUS
    <3>1. PICK m \in box[p] : y = [m EXCEPT !.money = 0, !.cod = 0]
      BY DEF Unpriced
    <3> QED BY <2>1, <3>1
  <2>3. Unbid(auctions) = Unbid(Last.auctions)
    <3>1. ASSUME NEW y \in Unbid(auctions)
          PROVE  y \in Unbid(Last.auctions)
      <4>1. PICK a \in auctions : y = [a EXCEPT !.bid = 0]
        BY DEF Unbid
      <4>2. PICK c \in Last.auctions : SameSale(c, a)
        BY <1>1, Found DEF Agree
      <4> QED BY <2>0, <4>1, <4>2, SameButBid DEF Unbid
    <3>2. ASSUME NEW y \in Unbid(Last.auctions)
          PROVE  y \in Unbid(auctions)
      <4>1. PICK c \in Last.auctions : y = [c EXCEPT !.bid = 0]
        BY DEF Unbid
      <4>2. PICK a \in auctions : SameSale(c, a)
        BY <1>1, Found DEF Agree
      <4> QED BY <2>0, <4>1, <4>2, SameButBid DEF Unbid
    <3> QED BY <3>1, <3>2
  <2>4. {a.item : a \in auctions} \subseteq aitems /\ (~truncated => auctions = Last.auctions)
    BY <1>1, Found
  <2>5. \A p \in online : bag[p] = Last.bag[p] /\ (~truncated => gold[p] = Last.gold[p])
    BY <1>1, Found
  <2>6. ~truncated => \A p \in loaded : box[p] \subseteq Last.mails
    BY <2>1
  <2> QED BY <2>2, <2>3, <2>4, <2>5, <2>6 DEF MemoryIsSaved
<1> QED BY <1>1, InvariantHolds, PTL

LEMMA OnePlace ==
  ASSUME IInv, LogTrade, NEW i \in DOMAIN durable, NEW item \in Items
  PROVE  Cardinality(Places(durable[i], item)) = IF item \in durable[i].discarded THEN 0 ELSE 1
<1> DEFINE b == durable[i]
           bagPlaces == {<<"bag", p>> : p \in {q \in Players : item \in b.bag[q]}}
           mailPlaces == {<<"mail", m.id>> : m \in {x \in b.mails : x.item = item}}
           auctionPlaces == {<<"auction", a.id>> : a \in {x \in b.auctions : x.item = item}}
<1>1. BookGood(b, nextMail, nextAuction)
  BY DEF IInv, BooksGood
<1>2. Places(b, item) = bagPlaces \cup mailPlaces \cup auctionPlaces
  BY DEF Places
<1>3. /\ Alone(b.bag, b.mails, b.auctions, b.discarded)
      /\ Somewhere(b.bag, b.mails, b.auctions, b.discarded)
      /\ item # None
  BY <1>1, PlayersAssumption DEF BookGood
<1> HIDE DEF b
<1>4. CASE \E p \in Players : item \in b.bag[p]
  <2>1. PICK p \in Players : item \in b.bag[p]
    BY <1>4
  <2>2. bagPlaces = {<<"bag", p>>} /\ mailPlaces = {} /\ auctionPlaces = {}
        /\ item \notin b.discarded
    BY <1>3, <2>1 DEF Alone
  <2>3. Places(b, item) = {<<"bag", p>>}
    BY <1>2, <2>2
  <2> QED BY <2>2, <2>3, FS_Singleton DEF b
<1>5. CASE \E m \in b.mails : m.item = item
  <2>1. PICK m \in b.mails : m.item = item
    BY <1>5
  <2>2. bagPlaces = {} /\ mailPlaces = {<<"mail", m.id>>} /\ auctionPlaces = {}
        /\ item \notin b.discarded
    BY <1>3, <2>1 DEF Alone
  <2>3. Places(b, item) = {<<"mail", m.id>>}
    BY <1>2, <2>2
  <2> QED BY <2>2, <2>3, FS_Singleton DEF b
<1>6. CASE \E a \in b.auctions : a.item = item
  <2>1. PICK a \in b.auctions : a.item = item
    BY <1>6
  <2>2. bagPlaces = {} /\ mailPlaces = {} /\ auctionPlaces = {<<"auction", a.id>>}
        /\ item \notin b.discarded
    BY <1>3, <2>1 DEF Alone
  <2>3. Places(b, item) = {<<"auction", a.id>>}
    BY <1>2, <2>2
  <2> QED BY <2>2, <2>3, FS_Singleton DEF b
<1>7. CASE item \in b.discarded
  <2>1. bagPlaces = {} /\ mailPlaces = {} /\ auctionPlaces = {}
    BY <1>3, <1>7 DEF Alone
  <2>2. Places(b, item) = {}
    BY <1>2, <2>1
  <2> QED BY <1>7, <2>2, FS_EmptySet DEF b
<1> QED BY <1>3, <1>4, <1>5, <1>6, <1>7 DEF Somewhere

\* Whenever the server stops, what the players, the mails and the bids and
\* deposits hold, what the house has been paid and what was deleted with a
\* returned mail of an auction is what the players had when the server started:
\* until an amount is cut to 32 bits no handler, no end of an auction, no lag
\* of the database and no crash makes or loses money.
THEOREM MoneyIsConserved == Spec => []MoneyConserved
<1>1. ASSUME IInv
      PROVE  MoneyConserved
  <2> SUFFICES ASSUME ~truncated, NEW i \in DOMAIN durable
               PROVE  Worth(durable[i]) = Gold * Cardinality(Players)
    BY DEF MoneyConserved
  <2> DEFINE b == durable[i]
  <2>1. Balanced(b.gold, b.mails, b.auctions, b.sunk)
    BY <1>1 DEF IInv, BooksBalanced, BookBalanced
  <2> HIDE DEF b
  <2>2. Worth(b) = Gold * Cardinality(Players)
    BY <2>1 DEF Balanced, Worth
  <2> QED BY <2>2 DEF b
<1> QED BY <1>1, InvariantHolds, PTL

\* When trades are logged, whenever the server stops an item is in one bag, one
\* mail or one auction, or was deleted with a mail of an auction that its
\* receiver returned, and is then in none.
THEOREM NoItemIsLostOrDoubled == LogTrade => (Spec => []ItemInOnePlace)
<1>1. ASSUME IInv, LogTrade
      PROVE  ItemInOnePlace
  BY <1>1, OnePlace DEF ItemInOnePlace
<1>2. SUFFICES ASSUME LogTrade PROVE Spec => []ItemInOnePlace
  OBVIOUS
<1>3. IInv => ItemInOnePlace
  BY <1>1, <1>2
<1> QED BY <1>3, InvariantHolds, PTL
==============================================================================
