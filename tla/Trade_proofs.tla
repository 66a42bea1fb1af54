----------------------------- MODULE Trade_proofs -----------------------------
(* That the two sides of every trade stay together, that a trade moves what *)
(* the two have agreed on and that nothing gets lost in it, for any number  *)
(* of players, items, slots and places in the bags.                         *)
EXTENDS Trade, FiniteSetTheorems, NaturalsInduction, WellFoundedInduction, TLAPS

\* The part of the type invariant that the windows need.
WindowsOK ==
    /\ trader \in [Players -> Players \cup {None}]
    /\ items \in [Players -> [Slots -> Items \cup {None}]]
    /\ accepted \in [Players -> BOOLEAN]

IInv == WindowsOK /\ TradersPaired

\* The handlers that neither begin nor end a trade write the windows of the two who
\* trade only.
LEMMA WindowsKeepPairs ==
    ASSUME IInv, NEW p \in Players, trader[p] # None, trader' = trader,
           items' \in [Players -> [Slots -> Items \cup {None}]],
           accepted' \in [Players -> BOOLEAN],
           \A x \in Players \ {p, trader[p]} : items'[x] = items[x] /\ accepted'[x] = accepted[x]
    PROVE  IInv'
<1>1. WindowsOK' BY DEF IInv, WindowsOK
<1>2. trader[p] \in Players /\ trader[p] # p /\ trader[trader[p]] = p
  BY DEF IInv, WindowsOK, TradersPaired
<1>3. ASSUME NEW x \in Players
      PROVE  /\ trader'[x] # None => trader'[x] # x /\ trader'[trader'[x]] = x
             /\ trader'[x] = None => items'[x] = Empty /\ ~accepted'[x]
  <2>1. trader[x] # None => trader[x] # x /\ trader[trader[x]] = x BY DEF IInv, TradersPaired
  <2>2. CASE x \in {p, trader[p]} BY <1>2, <2>1, <2>2, NoneAssumption
  <2>3. CASE x \notin {p, trader[p]} BY <2>1, <2>3 DEF IInv, TradersPaired
  <2> QED BY <2>2, <2>3
<1>4. TradersPaired' BY <1>3 DEF TradersPaired, Empty, Slots
<1> QED BY <1>1, <1>4 DEF IInv

\* To take back what the two have accepted is to write their windows.
LEMMA UnacceptedType ==
    ASSUME IInv, NEW p \in Players, trader[p] # None
    PROVE  /\ Unaccepted(p) \in [Players -> BOOLEAN]
           /\ \A x \in Players \ {p, trader[p]} : Unaccepted(p)[x] = accepted[x]
  BY DEF IInv, WindowsOK, Unaccepted

\* The end of a trade clears both sides.
LEMMA ClosedKeepsPairs ==
    ASSUME IInv, NEW p \in Players, trader[p] # None, Closed(p)
    PROVE  IInv'
<1>1. trader[p] \in Players /\ trader[p] # p /\ trader[trader[p]] = p
  BY DEF IInv, WindowsOK, TradersPaired
<1>2. Empty \in [Slots -> Items \cup {None}] BY DEF Empty
<1>3. WindowsOK' BY <1>1, <1>2 DEF IInv, WindowsOK, Closed
<1>4. ASSUME NEW x \in Players
      PROVE  /\ trader'[x] # None => trader'[x] # x /\ trader'[trader'[x]] = x
             /\ trader'[x] = None => items'[x] = Empty /\ ~accepted'[x]
  <2>1. CASE x \in {p, trader[p]} BY <1>1, <2>1 DEF Closed, IInv, WindowsOK
  <2>2. CASE x \notin {p, trader[p]}
    <3>1. trader'[x] = trader[x] /\ items'[x] = items[x] /\ accepted'[x] = accepted[x]
      BY <2>2 DEF Closed, IInv, WindowsOK
    <3>2. ASSUME trader[x] # None PROVE trader[x] # x /\ trader'[trader[x]] = x
      <4>1. trader[x] \in Players /\ trader[x] # x /\ trader[trader[x]] = x
        BY <3>2 DEF IInv, WindowsOK, TradersPaired
      <4>2. trader[x] \notin {p, trader[p]} BY <1>1, <2>2, <4>1
      <4> QED BY <4>1, <4>2 DEF Closed, IInv, WindowsOK
    <3> QED BY <3>1, <3>2 DEF IInv, TradersPaired
  <2> QED BY <2>1, <2>2
<1>5. TradersPaired' BY <1>4 DEF TradersPaired, Empty, Slots
<1> QED BY <1>3, <1>5 DEF IInv

LEMMA InitiateTradePairs ==
    ASSUME IInv, NEW p \in Players, NEW q \in Players, InitiateTrade(p, q)
    PROVE  IInv'
<1>1. WindowsOK' BY DEF IInv, WindowsOK, InitiateTrade
<1>2. ASSUME NEW x \in Players
      PROVE  /\ trader'[x] # None => trader'[x] # x /\ trader'[trader'[x]] = x
             /\ trader'[x] = None => items'[x] = Empty /\ ~accepted'[x]
  <2>1. CASE x \in {p, q} BY <2>1, NoneAssumption DEF InitiateTrade, IInv, WindowsOK
  <2>2. CASE x \notin {p, q}
    <3>1. trader'[x] = trader[x] /\ items'[x] = items[x] /\ accepted'[x] = accepted[x]
      BY <2>2 DEF InitiateTrade, IInv, WindowsOK
    <3>2. ASSUME trader[x] # None PROVE trader[x] # x /\ trader'[trader[x]] = x
      <4>1. trader[x] \in Players /\ trader[x] # x /\ trader[trader[x]] = x
        BY <3>2 DEF IInv, WindowsOK, TradersPaired
      <4>2. trader[x] \notin {p, q} BY <4>1, NoneAssumption DEF InitiateTrade
      <4> QED BY <4>1, <4>2 DEF InitiateTrade, IInv, WindowsOK
    <3> QED BY <3>1, <3>2 DEF IInv, TradersPaired
  <2> QED BY <2>1, <2>2
<1>3. TradersPaired' BY <1>2 DEF TradersPaired, Empty, Slots
<1> QED BY <1>1, <1>3 DEF IInv

LEMMA SetItemPairs ==
    ASSUME IInv, NEW p \in Players, trader[p] # None, NEW s \in Slots,
           NEW i \in Items \cup {None}, SetItem(p, s, i)
    PROVE  IInv'
<1>1. trader' = trader BY DEF SetItem
<1>2. /\ items' \in [Players -> [Slots -> Items \cup {None}]]
      /\ \A x \in Players \ {p, trader[p]} : items'[x] = items[x]
  BY DEF SetItem, IInv, WindowsOK
<1>3. accepted' = Unaccepted(p) BY DEF SetItem
<1> QED BY <1>1, <1>2, <1>3, UnacceptedType, WindowsKeepPairs

\* Whatever AcceptTrade answers, it ends the trade for both or only sets who accepts.
LEMMA AcceptTradePairs ==
    ASSUME IInv, NEW p \in Players, AcceptTrade(p)
    PROVE  IInv'
<1>1. trader[p] # None /\ trader[p] \in Players BY DEF AcceptTrade, IInv, WindowsOK
<1>2. ASSUME UNCHANGED <<trader, items>>,
             accepted' \in [Players -> BOOLEAN],
             \A x \in Players \ {p, trader[p]} : accepted'[x] = accepted[x]
      PROVE  IInv'
  BY <1>1, <1>2, WindowsKeepPairs DEF IInv, WindowsOK
<1>3. CASE RefuseSelf(p) BY <1>1, <1>2, <1>3 DEF RefuseSelf, IInv, WindowsOK
<1>4. CASE RefusePartner(p) BY <1>1, <1>2, <1>4 DEF RefusePartner, IInv, WindowsOK
<1>5. CASE Wait(p) BY <1>1, <1>2, <1>5 DEF Wait, IInv, WindowsOK
<1>6. ASSUME NEW caster \in Players, SpellFails(p, caster) PROVE IInv'
  BY <1>1, <1>2, <1>6, UnacceptedType DEF SpellFails
<1>7. CASE NoRoom(p) BY <1>1, <1>2, <1>7, UnacceptedType DEF NoRoom
<1>8. CASE Complete(p) BY <1>1, <1>8, ClosedKeepsPairs DEF Complete
<1> QED BY <1>1, <1>3, <1>4, <1>5, <1>6, <1>7, <1>8 DEF AcceptTrade

-----------------------------------------------------------------------------
LEMMA InitPairs == ASSUME Init PROVE IInv
  BY NoneAssumption DEF Init, IInv, WindowsOK, TradersPaired, Empty

LEMMA NextPairs == ASSUME IInv, [Next]_vars PROVE IInv'
<1>1. ASSUME NEW p \in Players, NEW q \in Players, InitiateTrade(p, q) PROVE IInv'
  BY <1>1, InitiateTradePairs
<1>2. ASSUME NEW p \in Players, NEW n \in 0..MaxMoney, SetTradeGold(p, n) PROVE IInv'
  <2>1. trader[p] # None /\ UNCHANGED <<trader, items>> BY <1>2 DEF SetTradeGold
  <2>2. accepted' \in {Unaccepted(p), accepted} BY <1>2 DEF SetTradeGold
  <2> QED BY <2>1, <2>2, UnacceptedType, WindowsKeepPairs DEF IInv, WindowsOK
<1>3. ASSUME NEW p \in Players, NEW s \in Slots, ClearTradeItem(p, s) PROVE IInv'
  BY <1>3, SetItemPairs DEF ClearTradeItem
<1>4. ASSUME NEW p \in Players, NEW s \in Slots, NEW i \in Items, SetTradeItem(p, s, i) PROVE IInv'
  BY <1>4, SetItemPairs DEF SetTradeItem
<1>5. ASSUME NEW p \in Players, SetSpell(p) PROVE IInv'
  <2>1. trader[p] # None /\ UNCHANGED <<trader, items>> /\ accepted' = Unaccepted(p)
    BY <1>5 DEF SetSpell
  <2> QED BY <2>1, UnacceptedType, WindowsKeepPairs DEF IInv, WindowsOK
<1>6. ASSUME NEW p \in Players, UnacceptTrade(p) PROVE IInv'
  <2>1. /\ trader[p] # None /\ UNCHANGED <<trader, items>>
        /\ accepted' = [accepted EXCEPT ![p] = FALSE]
    BY <1>6 DEF UnacceptTrade
  <2> QED BY <2>1, WindowsKeepPairs DEF IInv, WindowsOK
<1>7. ASSUME NEW p \in Players, AcceptTrade(p) PROVE IInv' BY <1>7, AcceptTradePairs
<1>8. ASSUME NEW p \in Players, TradeCancel(p) PROVE IInv'
  BY <1>8, ClosedKeepsPairs DEF TradeCancel
<1>9. ASSUME UNCHANGED tradeVars PROVE IInv'
  BY <1>9 DEF tradeVars, IInv, WindowsOK, TradersPaired, Empty, Slots
<1>10. CASE Elsewhere
  BY <1>9, <1>10 DEF Elsewhere, Earn, Lose, Change, Happens
<1>11. CASE UNCHANGED vars BY <1>9, <1>11 DEF vars
<1> QED
  BY <1>1, <1>2, <1>3, <1>4, <1>5, <1>6, <1>7, <1>8, <1>10, <1>11 DEF Next

\* m_trade of two players point at each other or are null, and nothing is left of a trade
\* that is over, whatever the handlers of any number of sessions do.
THEOREM TradersArePaired == Spec => []TradersPaired
<1>1. Init => IInv BY InitPairs
<1>2. IInv /\ [Next]_vars => IInv' BY NextPairs
<1>3. IInv => TradersPaired BY DEF IInv
<1> QED BY <1>1, <1>2, <1>3, PTL DEF Spec

-----------------------------------------------------------------------------
(* What else is true of goods and windows.                                  *)

GoodsOK ==
    /\ owner \in [Items -> Players \cup {None}]
    /\ purse \in [Players -> Nat] /\ money \in [Players -> Nat]

\* No item lies in two slots of a window.
SlotsDistinct ==
    \A p \in Players : \A s, t \in Slots :
        items[p][s] # None /\ items[p][s] = items[p][t] => s = t

\* What lies in a window belongs to the player or is gone.
OwnInWindow ==
    \A p \in Players : \A s \in Slots :
        items[p][s] # None => owner[items[p][s]] \in {p, None}

\* No player has two items of which he may hold only one.
OneOfUnique == \A p \in Players : \A i, j \in Bag(p) \cap Unique : i = j

\* What is in both windows is what a player whose acceptance stands has seen.
AgreedIsShown == \A p \in Players : accepted[p] => agreed[p] = Shown(p) \cup Shown(trader[p])

GoodsInv == GoodsOK /\ SlotsDistinct /\ OwnInWindow /\ OneOfUnique /\ AgreedIsShown

-----------------------------------------------------------------------------
(* Recursion over the slots, by the least counterexample.                   *)

\* A set of natural numbers that is not empty has a least element.
LEMMA Least ==
  ASSUME NEW T \in SUBSET Nat, T # {}
  PROVE  \E n \in T : \A m \in T : n <= m
<1> DEFINE R == OpToRel(<, Nat)
<1>1. IsWellFoundedOn(R, Nat)
  BY NatLessThanWellFounded
<1>2. \A m, n \in Nat : m < n => <<m, n>> \in R
  BY DEF OpToRel
<1> HIDE DEF R
<1>3. PICK n \in T : \A m \in T : ~ (<<m, n>> \in R)
  BY <1>1, WFMin
<1>4. ASSUME NEW m \in T PROVE n <= m
  <2>1. m \in Nat /\ n \in Nat
    OBVIOUS
  <2>2. ~(m < n)
    BY <1>2, <1>3, <2>1
  <2> QED BY <2>1, <2>2
<1> QED BY <1>4

\* A set that holds 0 and the successor, up to N, of what it holds, holds 0..N.
LEMMA Induct ==
  ASSUME NEW N \in Nat, NEW T, 0 \in T,
         \A n \in 0..N : n \in T /\ n < N => n + 1 \in T
  PROVE  \A n \in 0..N : n \in T
<1> SUFFICES ASSUME NEW k \in 0..N, k \notin T PROVE FALSE
  OBVIOUS
<1> DEFINE Bad == {n \in 0..N : n \notin T}
<1>1. Bad \in SUBSET Nat /\ Bad # {}
  OBVIOUS
<1>2. PICK n \in Bad : \A m \in Bad : n <= m
  BY <1>1, Least
<1>3. n # 0 /\ n - 1 \in 0..N /\ n - 1 < N
  BY <1>2
<1>4. n - 1 \notin Bad
  BY <1>2, <1>3
<1>5. (n - 1) + 1 \in T
  BY <1>3, <1>4
<1> QED BY <1>2, <1>5

-----------------------------------------------------------------------------
(* The loop of moveItems.  As both have room for all that the other offers, *)
(* no round of it gives anything back.                                      *)

\* What p has given away after the first n slots,
Gone(p, n) == {GetItem(p, s) : s \in 0..n - 1} \ {None}

\* and who has each item then.
Held(p, q, n) ==
    [i \in Items |-> IF i \in Gone(p, n) THEN q
                     ELSE IF i \in Gone(q, n) THEN p
                     ELSE IF i \in Offered(p) \cup Offered(q) THEN None ELSE owner[i]]

Pair(p, q) == p # q /\ trader[p] = q /\ trader[q] = p

LEMMA CountIs == TradedCount \in Nat /\ Capacity \in Nat /\ MaxMoney \in Nat
  BY NumbersAssumption

LEMMA OfferedIs ==
  ASSUME NEW p \in Players
  PROVE  /\ Offered(p) \subseteq Items /\ None \notin Offered(p)
         /\ Bag(p) \subseteq Items /\ Offered(p) \subseteq Bag(p)
         /\ IsFiniteSet(Bag(p)) /\ IsFiniteSet(Offered(p))
<1>1. Bag(p) \subseteq Items /\ Offered(p) \subseteq Bag(p) /\ IsFiniteSet(Items)
  BY ItemsAssumption DEF Offered, Bag
<1>2. IsFiniteSet(Bag(p))
  BY <1>1, FS_Subset
<1>3. IsFiniteSet(Offered(p))
  BY <1>1, <1>2, FS_Subset
<1> QED BY <1>1, <1>2, <1>3, NoneAssumption

LEMMA GoneIs ==
  ASSUME SlotsDistinct, NEW p \in Players
  PROVE  /\ Gone(p, 0) = {} /\ Gone(p, TradedCount) = Offered(p)
         /\ \A n \in TradedSlots :
               /\ GetItem(p, n) \in Offered(p) \cup {None}
               /\ GetItem(p, n) \notin Gone(p, n)
               /\ Gone(p, n + 1) = Gone(p, n) \cup ({GetItem(p, n)} \ {None})
               /\ Gone(p, n) \subseteq Offered(p)
<1>1. TradedCount \in Nat /\ TradedSlots = 0..TradedCount - 1 /\ TradedSlots \subseteq Slots
  BY CountIs DEF TradedSlots, Slots
<1>2. None \notin Bag(p) /\ None \notin Offered(p)
  BY NoneAssumption DEF Bag, Offered
<1>3. Gone(p, 0) = {}
  BY DEF Gone
<1>4. \A s \in TradedSlots : GetItem(p, s) \in Offered(p) \cup {None}
  BY <1>2 DEF GetItem, Offered, Shown
<1>5. ASSUME NEW i \in Offered(p) PROVE \E s \in TradedSlots : GetItem(p, s) = i
  <2>1. i \in Shown(p) /\ i \in Bag(p)
    BY DEF Offered
  <2>2. PICK s \in TradedSlots : i = items[p][s]
    BY <2>1 DEF Shown
  <2> QED BY <2>1, <2>2 DEF GetItem
<1>6. Gone(p, TradedCount) = Offered(p)
  BY <1>1, <1>2, <1>4, <1>5 DEF Gone
<1>7. ASSUME NEW n \in TradedSlots PROVE /\ GetItem(p, n) \notin Gone(p, n)
                                        /\ Gone(p, n) \subseteq Offered(p)
                                        /\ Gone(p, n + 1) = Gone(p, n) \cup ({GetItem(p, n)} \ {None})
  <2>1. \A s \in 0..n - 1 : s \in TradedSlots /\ s # n
    BY <1>1
  <2>2. ASSUME GetItem(p, n) \in Gone(p, n) PROVE FALSE
    <3>1. PICK s \in 0..n - 1 : GetItem(p, s) = GetItem(p, n) /\ GetItem(p, n) # None
      BY <2>2 DEF Gone
    <3>2. items[p][s] = items[p][n] /\ items[p][s] # None
      BY <3>1, <1>2 DEF GetItem
    <3>3. s = n
      BY <1>1, <2>1, <3>2 DEF SlotsDistinct
    <3> QED BY <2>1, <3>3
  <2>3. Gone(p, n) \subseteq Offered(p)
    BY <1>4, <2>1 DEF Gone
  <2>4. 0..(n + 1) - 1 = (0..n - 1) \cup {n}
    BY <1>1
  <2>5. Gone(p, n + 1) = Gone(p, n) \cup ({GetItem(p, n)} \ {None})
    BY <2>4 DEF Gone
  <2> QED BY <2>2, <2>3, <2>5
<1> QED BY <1>3, <1>4, <1>6, <1>7

\* Whom everything belongs to meanwhile.
LEMMA HeldBags ==
  ASSUME SlotsDistinct, NEW p \in Players, NEW q \in Players, p # q, NEW n \in TradedSlots
  PROVE  /\ {j \in Items : Held(p, q, n)[j] = q} = (Bag(q) \ Offered(q)) \cup Gone(p, n)
         /\ {j \in Items : Held(p, q, n)[j] = p} = (Bag(p) \ Offered(p)) \cup Gone(q, n)
<1>1. /\ Gone(p, n) \subseteq Offered(p) /\ Gone(q, n) \subseteq Offered(q)
      /\ Offered(p) \subseteq Bag(p) /\ Offered(q) \subseteq Bag(q)
  BY GoneIs, OfferedIs
<1>2. \A i \in Items : (i \in Bag(p) <=> owner[i] = p) /\ (i \in Bag(q) <=> owner[i] = q)
  BY DEF Bag
<1>3. p # None /\ q # None /\ Bag(p) \subseteq Items /\ Bag(q) \subseteq Items
  BY NoneAssumption DEF Bag
<1>4. \A i \in Items : Held(p, q, n)[i] = IF i \in Gone(p, n) THEN q
                     ELSE IF i \in Gone(q, n) THEN p
                     ELSE IF i \in Offered(p) \cup Offered(q) THEN None ELSE owner[i]
  BY DEF Held
<1>5. ASSUME NEW i \in Items
      PROVE  /\ Held(p, q, n)[i] = q <=> i \in (Bag(q) \ Offered(q)) \cup Gone(p, n)
             /\ Held(p, q, n)[i] = p <=> i \in (Bag(p) \ Offered(p)) \cup Gone(q, n)
  BY <1>1, <1>2, <1>3, <1>4
<1> QED BY <1>1, <1>3, <1>5

\* There is room for the next item.
LEMMA CanGive ==
  ASSUME WindowsOK, SlotsDistinct, OneOfUnique, NEW p \in Players, NEW q \in Players, Pair(p, q),
         CanStoreItems(q), NEW n \in TradedSlots, NEW held,
         {j \in Items : held[j] = q} = (Bag(q) \ Offered(q)) \cup Gone(p, n)
  PROVE  CanStoreItem(held, q, GetItem(p, n))
<1> DEFINE i == GetItem(p, n)
           kept == Bag(q) \ Offered(q)
           bag == kept \cup Gone(p, n)
<1> SUFFICES ASSUME i # None
             PROVE  Cardinality(bag) < Capacity /\ (i \in Unique => bag \cap Unique = {})
  BY DEF CanStoreItem
<1>1. /\ i \in Offered(p) /\ i \notin Gone(p, n) /\ Gone(p, n) \subseteq Offered(p)
  BY GoneIs
<1>2. /\ Offered(p) \cap Unique # {} => Bag(q) \cap Unique = {}
      /\ Cardinality(kept) + Cardinality(Offered(p)) <= Capacity
  BY DEF CanStoreItems, Pair
<1>3. IsFiniteSet(Bag(q)) /\ IsFiniteSet(Offered(p)) /\ Offered(p) \subseteq Bag(p)
  BY OfferedIs
<1> HIDE DEF i
<1>4. Cardinality(bag) < Capacity
  <2> DEFINE others == Offered(p) \ {i}
  <2>1. /\ IsFiniteSet(others) /\ Cardinality(others) = Cardinality(Offered(p)) - 1
        /\ Gone(p, n) \subseteq others
    BY <1>1, <1>3, FS_RemoveElement
  <2>2. IsFiniteSet(kept) /\ IsFiniteSet(Gone(p, n))
    BY <1>3, <2>1, FS_Subset
  <2>3. Cardinality(Gone(p, n)) <= Cardinality(others)
    BY <2>1, FS_Subset
  <2>4. Cardinality(bag) <= Cardinality(kept) + Cardinality(Gone(p, n))
    <3>1. Cardinality(bag) = Cardinality(kept) + Cardinality(Gone(p, n))
                             - Cardinality(kept \cap Gone(p, n))
      BY <2>2, FS_Union
    <3>2. IsFiniteSet(kept \cap Gone(p, n))
      BY <2>2, FS_Subset
    <3>3. /\ Cardinality(kept) \in Nat /\ Cardinality(Gone(p, n)) \in Nat
          /\ Cardinality(kept \cap Gone(p, n)) \in Nat
      BY <2>2, <3>2, FS_CardinalityType
    <3> HIDE DEF bag, kept
    <3> QED BY <3>1, <3>3
  <2>5. /\ Cardinality(kept) \in Nat /\ Cardinality(Gone(p, n)) \in Nat
        /\ Cardinality(others) \in Nat /\ Cardinality(Offered(p)) \in Nat
        /\ Cardinality(bag) \in Nat /\ Capacity \in Nat
    <3>1. IsFiniteSet(bag)
      BY <2>2, FS_Union
    <3> HIDE DEF bag, kept, others
    <3> QED BY <1>3, <2>1, <2>2, <3>1, FS_CardinalityType, CountIs
  <2> HIDE DEF bag, kept, others
  <2> QED BY <1>2, <2>1, <2>3, <2>4, <2>5
<1>5. ASSUME i \in Unique PROVE bag \cap Unique = {}
  <2>1. Bag(q) \cap Unique = {}
    BY <1>1, <1>2, <1>5
  <2>2. \A j \in Offered(p) \cap Unique : j = i
    BY <1>1, <1>3, <1>5 DEF OneOfUnique
  <2> QED BY <1>1, <2>1, <2>2
<1> QED BY <1>4, <1>5

\* A round of the loop: both items of the slot change hands.
LEMMA MoveSlotIs ==
  ASSUME WindowsOK, SlotsDistinct, OneOfUnique, NEW p \in Players, NEW q \in Players, Pair(p, q),
         CanStoreItems(p), CanStoreItems(q), NEW n \in TradedSlots
  PROVE  MoveSlot(Held(p, q, n), p, n) = Held(p, q, n + 1)
<1> DEFINE held == Held(p, q, n)
           mine == GetItem(p, n)
           his == GetItem(q, n)
<1>1. Pair(q, p) /\ p # q /\ trader[p] = q
  BY DEF Pair
<1>2. /\ {j \in Items : held[j] = q} = (Bag(q) \ Offered(q)) \cup Gone(p, n)
      /\ {j \in Items : held[j] = p} = (Bag(p) \ Offered(p)) \cup Gone(q, n)
  BY <1>1, HeldBags
<1> HIDE DEF held
<1>3. CanStoreItem(held, q, mine) /\ CanStoreItem(held, p, his)
  BY <1>1, <1>2, CanGive
<1>4. MoveSlot(held, p, n) = Give(Give(held, q, mine), p, his)
  BY <1>1, <1>3 DEF MoveSlot
<1>5. /\ mine \in Offered(p) \cup {None} /\ his \in Offered(q) \cup {None}
      /\ Gone(p, n + 1) = Gone(p, n) \cup ({mine} \ {None})
      /\ Gone(q, n + 1) = Gone(q, n) \cup ({his} \ {None})
      /\ Gone(p, n) \subseteq Offered(p) /\ Gone(q, n) \subseteq Offered(q)
  BY GoneIs
<1>6. Offered(p) \cap Offered(q) = {} /\ None \notin Items
  BY <1>1, NoneAssumption DEF Offered, Bag
<1> DEFINE one == Give(held, q, mine)
           both == Give(one, p, his)
<1>7. DOMAIN held = Items /\ \A i \in Items : held[i] = IF i \in Gone(p, n) THEN q
                     ELSE IF i \in Gone(q, n) THEN p
                     ELSE IF i \in Offered(p) \cup Offered(q) THEN None ELSE owner[i]
  BY DEF held, Held
<1> DEFINE Fun(f) == f = [x \in DOMAIN f |-> f[x]]
<1>12. Fun(held)
  BY DEF held, Held
<1> HIDE DEF mine, his
<1>8. /\ Fun(one) /\ DOMAIN one = Items
      /\ \A i \in Items : one[i] = IF i = mine THEN q ELSE held[i]
  BY <1>6, <1>7, <1>12 DEF Give
<1> HIDE DEF one
<1>9. /\ Fun(both) /\ DOMAIN both = Items
      /\ \A i \in Items : both[i] = IF i = his THEN p ELSE one[i]
  BY <1>6, <1>8 DEF Give
<1> HIDE DEF both
<1>10. ASSUME NEW i \in Items
       PROVE  both[i] = Held(p, q, n + 1)[i]
  <2>1. Held(p, q, n + 1)[i] = IF i \in Gone(p, n + 1) THEN q
                     ELSE IF i \in Gone(q, n + 1) THEN p
                     ELSE IF i \in Offered(p) \cup Offered(q) THEN None ELSE owner[i]
    BY DEF Held
  <2>2. i # None
    BY <1>6
  <2>3. both[i] = IF i = his THEN p ELSE IF i = mine THEN q ELSE held[i]
    BY <1>8, <1>9
  <2>4. CASE i = his
    BY <1>5, <1>6, <2>1, <2>2, <2>3, <2>4
  <2>5. CASE i # his /\ i = mine
    BY <1>5, <1>6, <2>1, <2>2, <2>3, <2>5
  <2>6. CASE i # his /\ i # mine
    <3>1. (i \in Gone(p, n + 1) <=> i \in Gone(p, n)) /\ (i \in Gone(q, n + 1) <=> i \in Gone(q, n))
      BY <1>5, <2>6
    <3> QED BY <1>7, <2>1, <2>3, <2>6, <3>1
  <2> QED BY <2>4, <2>5, <2>6
<1>11. both = Held(p, q, n + 1)
  BY <1>9, <1>10 DEF Held
<1> QED BY <1>4, <1>11 DEF held, both, one

\* The loop moves all that the two offer to each other.
LEMMA MoveItemsIs ==
  ASSUME WindowsOK, SlotsDistinct, OneOfUnique, NEW p \in Players, NEW q \in Players, Pair(p, q),
         CanStoreItems(p), CanStoreItems(q)
  PROVE  MoveItems(p) = Held(p, q, TradedCount)
<1> DEFINE removed == [i \in Items |-> IF i \in Offered(p) \cup Offered(q) THEN None ELSE owner[i]]
           Body(f) == [n \in 0..TradedCount |->
                          IF n = 0 THEN removed ELSE MoveSlot(f[n - 1], p, n - 1)]
           F == [n \in 0..TradedCount |-> Held(p, q, n)]
           moved == CHOOSE f : f = Body(f)
<1>1. TradedCount \in Nat /\ TradedSlots = 0..TradedCount - 1 /\ trader[p] = q
  BY CountIs DEF TradedSlots, Pair
<1>2. Held(p, q, 0) = removed
  BY GoneIs DEF Held
<1>3. \A n \in TradedSlots : MoveSlot(Held(p, q, n), p, n) = Held(p, q, n + 1)
  BY MoveSlotIs
<1>4. MoveItems(p) = moved[TradedCount]
  BY <1>1 DEF MoveItems
<1> HIDE DEF removed
<1>5. F = Body(F)
  <2> SUFFICES ASSUME NEW n \in 0..TradedCount
               PROVE  Held(p, q, n) = IF n = 0 THEN removed ELSE MoveSlot(F[n - 1], p, n - 1)
    OBVIOUS
  <2>1. CASE n = 0
    BY <1>2, <2>1
  <2>2. CASE n # 0
    <3> DEFINE m == n - 1
    <3>1. m \in TradedSlots /\ m \in 0..TradedCount /\ m + 1 = n
      BY <1>1, <2>2
    <3>2. F[m] = Held(p, q, m)
      BY <3>1
    <3> HIDE DEF m, F
    <3>3. MoveSlot(F[m], p, m) = Held(p, q, n)
      BY <1>3, <3>1, <3>2
    <3> QED BY <2>2, <3>3 DEF m
  <2> QED BY <2>1, <2>2
<1>6. moved = Body(moved)
  <2>1. \E f : f = Body(f)
    BY <1>5
  <2> QED BY <2>1
<1> HIDE DEF moved, F
<1>7. \A n \in 0..TradedCount : moved[n] = IF n = 0 THEN removed ELSE MoveSlot(moved[n - 1], p, n - 1)
  BY <1>6
<1> DEFINE T == {n \in 0..TradedCount : moved[n] = Held(p, q, n)}
<1>8. 0 \in T
  BY <1>1, <1>2, <1>7
<1>9. ASSUME NEW n \in 0..TradedCount, n \in T, n < TradedCount PROVE n + 1 \in T
  <2> DEFINE m == n + 1
  <2>1. m \in 0..TradedCount /\ m # 0 /\ m - 1 = n /\ n \in TradedSlots
    BY <1>1, <1>9
  <2>2. moved[m] = MoveSlot(moved[n], p, n)
    <3> HIDE DEF m
    <3> QED BY <1>7, <2>1
  <2>3. moved[m] = Held(p, q, n + 1)
    BY <1>3, <1>9, <2>1, <2>2
  <2> QED BY <2>1, <2>3
<1> HIDE DEF T
<1>10. \A n \in 0..TradedCount : n \in T
  BY <1>1, <1>8, <1>9, Induct
<1>11. TradedCount \in 0..TradedCount
  BY <1>1
<1>12. moved[TradedCount] = Held(p, q, TradedCount)
  BY <1>10, <1>11 DEF T
<1> QED BY <1>4, <1>12

-----------------------------------------------------------------------------
(* A trade that is completed.                                               *)

LEMMA PairIs ==
  ASSUME IInv, NEW p \in Players, trader[p] # None
  PROVE  trader[p] \in Players /\ Pair(p, trader[p])
BY DEF IInv, WindowsOK, TradersPaired, Pair

LEMMA PaidIs ==
  ASSUME NEW amount \in Nat, NEW loss \in Nat, NEW gain \in Nat,
         loss <= amount, amount < MaxMoney - gain
  PROVE  Paid(amount, loss, gain) = (amount - loss) + gain /\ Paid(amount, loss, gain) \in Nat
<1> DEFINE rest == amount - loss
<1>1. (IF amount > loss THEN amount - loss ELSE 0) = rest /\ rest \in Nat /\ rest <= amount
  OBVIOUS
<1> HIDE DEF rest
<1>2. ~(rest >= MaxMoney - gain)
  BY <1>1, CountIs
<1>3. Paid(amount, loss, gain) = rest + gain
  BY <1>1, <1>2 DEF Paid
<1> QED BY <1>1, <1>3 DEF rest

\* What a completed trade does: everything offered changes hands, and the money too.
LEMMA CompleteIs ==
  ASSUME IInv, GoodsInv, NEW p \in Players, NEW q \in Players, Pair(p, q), Complete(p)
  PROVE  /\ \A i \in Items : owner'[i] = IF i \in Offered(p) THEN q
                                         ELSE IF i \in Offered(q) THEN p ELSE owner[i]
         /\ owner' \in [Items -> Players \cup {None}]
         /\ purse' \in [Players -> Nat]
         /\ purse'[p] + purse'[q] = purse[p] + purse[q]
         /\ \A x \in Players \ {p, q} : purse'[x] = purse[x]
<1>1. /\ trader[p] = q /\ trader[q] = p /\ p # q
      /\ MoneyOK(p) /\ CanStoreItems(p) /\ CanStoreItems(q) /\ owner' = MoveItems(p)
      /\ purse' = [purse EXCEPT ![p] = Paid(purse[p], money[p], money[q]),
                                ![q] = Paid(purse[q], money[q], money[p])]
  BY DEF Complete, Ready, Pair
<1>2. /\ WindowsOK /\ SlotsDistinct /\ OneOfUnique
      /\ owner \in [Items -> Players \cup {None}]
      /\ purse \in [Players -> Nat] /\ money \in [Players -> Nat]
  BY DEF IInv, GoodsInv, GoodsOK
<1>3. owner' = Held(p, q, TradedCount)
  BY <1>1, <1>2, MoveItemsIs
<1>4. Gone(p, TradedCount) = Offered(p) /\ Gone(q, TradedCount) = Offered(q)
  BY <1>2, GoneIs
<1>5. \A i \in Items : owner'[i] = IF i \in Offered(p) THEN q
                                   ELSE IF i \in Offered(q) THEN p ELSE owner[i]
  BY <1>3, <1>4 DEF Held
<1>6. owner' \in [Items -> Players \cup {None}]
  BY <1>2, <1>3 DEF Held
<1> DEFINE a == purse[p]
           b == purse[q]
           x == money[p]
           y == money[q]
<1>7. a \in Nat /\ b \in Nat /\ x \in Nat /\ y \in Nat
  BY <1>2
<1>8. x <= a /\ y <= b /\ a < MaxMoney - y /\ b < MaxMoney - x
  BY <1>1, <1>7, CountIs DEF MoneyOK, SelfAtFault, PartnerAtFault, Enough, HasRoomForGold
<1> HIDE DEF a, b, x, y
<1>9. /\ Paid(a, x, y) = (a - x) + y /\ Paid(a, x, y) \in Nat
      /\ Paid(b, y, x) = (b - y) + x /\ Paid(b, y, x) \in Nat
  BY <1>7, <1>8, PaidIs
<1>10. Paid(a, x, y) + Paid(b, y, x) = a + b
  BY <1>7, <1>9
<1>11. /\ purse'[p] = Paid(a, x, y) /\ purse'[q] = Paid(b, y, x)
       /\ \A z \in Players \ {p, q} : purse'[z] = purse[z]
       /\ purse' \in [Players -> Nat]
  BY <1>1, <1>2, <1>9 DEF a, b, x, y
<1>12. purse'[p] + purse'[q] = purse[p] + purse[q]
  BY <1>10, <1>11 DEF a, b
<1> QED BY <1>5, <1>6, <1>11, <1>12

-----------------------------------------------------------------------------
(* Every step keeps what is true of goods and windows.                      *)

Goods == GoodsOK /\ SlotsDistinct /\ OwnInWindow /\ OneOfUnique

LEMMA QuietKeepsGoods ==
  ASSUME GoodsInv, UNCHANGED <<items, owner, purse>>, money' \in [Players -> Nat]
  PROVE  Goods'
<1>1. GoodsOK'
  BY DEF GoodsInv, GoodsOK
<1>2. SlotsDistinct' /\ OwnInWindow'
  BY DEF GoodsInv, SlotsDistinct, OwnInWindow, Slots
<1>3. OneOfUnique'
  BY DEF GoodsInv, OneOfUnique, Bag
<1> QED BY <1>1, <1>2, <1>3 DEF Goods

\* Whose acceptance stands has not been shown anything else since.
LEMMA AgreedKeeps ==
  ASSUME AgreedIsShown,
         \A x \in Players : accepted'[x] =>
            /\ accepted[x] /\ agreed'[x] = agreed[x] /\ trader'[x] = trader[x]
            /\ items'[x] = items[x] /\ items'[trader[x]] = items[trader[x]]
  PROVE  AgreedIsShown'
<1> SUFFICES ASSUME NEW x \in Players, accepted'[x]
             PROVE  agreed'[x] = (Shown(x) \cup Shown(trader[x]))'
  BY DEF AgreedIsShown
<1>1. agreed[x] = Shown(x) \cup Shown(trader[x])
  BY DEF AgreedIsShown
<1> QED BY <1>1 DEF Shown, TradedSlots

LEMMA ForgetIs ==
  ASSUME Forget, NEW x \in Players, accepted'[x]
  PROVE  agreed'[x] = agreed[x]
BY DEF Forget

LEMMA InitiateTradeKeeps ==
  ASSUME IInv, GoodsInv, NEW p \in Players, NEW q \in Players, InitiateTrade(p, q)
  PROVE  GoodsInv'
<1>1. /\ UNCHANGED <<items, money, accepted, owner, purse, agreed>>
      /\ trader[p] = None /\ trader[q] = None
      /\ \A x \in Players \ {p, q} : trader'[x] = trader[x]
  BY DEF InitiateTrade, worldVars, IInv, WindowsOK
<1>2. Goods'
  BY <1>1, QuietKeepsGoods DEF GoodsInv, GoodsOK
<1>3. ~accepted[p] /\ ~accepted[q]
  BY <1>1 DEF IInv, TradersPaired
<1>4. AgreedIsShown'
  BY <1>1, <1>3, AgreedKeeps DEF GoodsInv
<1> QED BY <1>2, <1>4 DEF Goods, GoodsInv

\* Handlers that only change the money, the spell or who accepts.
LEMMA WindowsStay ==
  ASSUME IInv, GoodsInv, UNCHANGED <<trader, items, owner, purse>>, money' \in [Players -> Nat],
         \A x \in Players : accepted'[x] => accepted[x], Forget
  PROVE  GoodsInv'
<1>1. Goods'
  BY QuietKeepsGoods
<1>2. AgreedIsShown'
  BY ForgetIs, AgreedKeeps DEF GoodsInv
<1> QED BY <1>1, <1>2 DEF Goods, GoodsInv

LEMMA UnacceptedIs ==
  ASSUME IInv, NEW p \in Players, trader[p] # None, NEW x \in Players, Unaccepted(p)[x]
  PROVE  accepted[x] /\ x # p /\ trader[x] # p
<1>1. trader[p] \in Players /\ p # trader[p]
  BY PairIs DEF Pair
<1>2. accepted[x] /\ x # p /\ x # trader[p]
  BY <1>1 DEF Unaccepted, IInv, WindowsOK
<1>3. trader[x] # None
  BY <1>2 DEF IInv, TradersPaired
<1>4. trader[trader[x]] = x
  BY <1>3 DEF IInv, TradersPaired
<1> QED BY <1>2, <1>4

LEMMA SetItemKeeps ==
  ASSUME IInv, GoodsInv, NEW p \in Players, trader[p] # None, NEW s \in Slots,
         NEW i \in Items \cup {None}, SetItem(p, s, i),
         i # None => i \in Bag(p) /\ \A t \in Slots : items[p][t] # i
  PROVE  GoodsInv'
<1>1. /\ UNCHANGED <<trader, money, owner, purse>> /\ accepted' = Unaccepted(p) /\ Forget
      /\ items' = [items EXCEPT ![p][s] = i]
      /\ items \in [Players -> [Slots -> Items \cup {None}]]
  BY DEF SetItem, worldVars, IInv, WindowsOK
<1>2. /\ items'[p][s] = i
      /\ \A t \in Slots \ {s} : items'[p][t] = items[p][t]
      /\ \A x \in Players \ {p} : items'[x] = items[x]
  BY <1>1
<1>3. GoodsOK' /\ OneOfUnique'
  BY <1>1 DEF GoodsInv, GoodsOK, OneOfUnique, Bag
<1>4. SlotsDistinct'
  <2>1. Slots' = Slots
    BY DEF Slots
  <2>2. \A x \in Players : \A t, u \in Slots :
            items[x][t] # None /\ items[x][t] = items[x][u] => t = u
    BY DEF GoodsInv, SlotsDistinct
  <2>3. \A x \in Players : \A t, u \in Slots :
            items'[x][t] # None /\ items'[x][t] = items'[x][u] => t = u
    BY <1>2, <2>2
  <2> QED BY <2>1, <2>3 DEF SlotsDistinct
<1>5. OwnInWindow'
  <2>1. Slots' = Slots
    BY DEF Slots
  <2>2. \A x \in Players : \A t \in Slots : items[x][t] # None => owner[items[x][t]] \in {x, None}
    BY DEF GoodsInv, OwnInWindow
  <2>3. i # None => owner[i] = p
    BY DEF Bag
  <2>4. \A x \in Players : \A t \in Slots : items'[x][t] # None => owner[items'[x][t]] \in {x, None}
    BY <1>2, <2>2, <2>3
  <2> QED BY <1>1, <2>1, <2>4 DEF OwnInWindow
<1>6. AgreedIsShown'
  <2>1. ASSUME NEW x \in Players, accepted'[x]
        PROVE  /\ accepted[x] /\ agreed'[x] = agreed[x] /\ trader'[x] = trader[x]
               /\ items'[x] = items[x] /\ items'[trader[x]] = items[trader[x]]
    <3>1. accepted[x] /\ x # p /\ trader[x] # p
      BY <1>1, <2>1, UnacceptedIs
    <3>2. trader[x] \in Players
      BY <3>1, PairIs DEF IInv, TradersPaired
    <3> QED BY <1>1, <1>2, <2>1, <3>1, <3>2, ForgetIs
  <2> QED BY <2>1, AgreedKeeps DEF GoodsInv
<1> QED BY <1>3, <1>4, <1>5, <1>6 DEF GoodsInv

\* The windows of the two are empty afterwards, those of the others as before.
LEMMA ClosedIs ==
  ASSUME IInv, NEW p \in Players, trader[p] # None, Closed(p)
  PROVE  /\ \A x \in {p, trader[p]} : /\ items'[x] = Empty /\ ~accepted'[x]
         /\ \A x \in Players \ {p, trader[p]} :
               /\ items'[x] = items[x] /\ accepted'[x] = accepted[x] /\ trader'[x] = trader[x]
               /\ accepted[x] => trader[x] \in Players \ {p, trader[p]}
<1> DEFINE q == trader[p]
<1>1. q \in Players /\ p # q /\ trader[q] = p
  BY PairIs DEF Pair
<1>2. /\ items' = [items EXCEPT ![p] = Empty, ![q] = Empty]
      /\ accepted' = [accepted EXCEPT ![p] = FALSE, ![q] = FALSE]
      /\ trader' = [trader EXCEPT ![p] = None, ![q] = None]
  BY DEF Closed
<1>3. /\ DOMAIN items = Players /\ DOMAIN accepted = Players /\ DOMAIN trader = Players
  BY DEF IInv, WindowsOK
<1>4. ASSUME NEW x \in Players \ {p, q}, accepted[x] PROVE trader[x] \in Players \ {p, q}
  <2>1. trader[x] # None
    BY <1>4 DEF IInv, TradersPaired
  <2>2. trader[x] \in Players /\ trader[trader[x]] = x
    BY <2>1, PairIs DEF Pair
  <2> QED BY <1>1, <2>2
<1> HIDE DEF q
<1>5. /\ \A x \in {p, q} : /\ items'[x] = Empty /\ ~accepted'[x]
      /\ \A x \in Players \ {p, q} :
            items'[x] = items[x] /\ accepted'[x] = accepted[x] /\ trader'[x] = trader[x]
  BY <1>1, <1>2, <1>3
<1> QED BY <1>4, <1>5 DEF q

\* The end of a trade that leaves everything as it is but for what changes hands.
LEMMA ClosedKeepsGoods ==
  ASSUME IInv, GoodsInv, NEW p \in Players, trader[p] # None, Closed(p),
         owner' \in [Items -> Players \cup {None}], purse' \in [Players -> Nat],
         \A i \in Items : owner'[i] # owner[i] => owner[i] \in {p, trader[p]},
         OneOfUnique',
         \A x \in Players : accepted'[x] => agreed'[x] = agreed[x]
  PROVE  GoodsInv'
<1> DEFINE q == trader[p]
<1>1. /\ q \in Players /\ p # q
      /\ \A x \in {p, q} : /\ items'[x] = Empty /\ ~accepted'[x]
      /\ \A x \in Players \ {p, q} :
               /\ items'[x] = items[x] /\ accepted'[x] = accepted[x] /\ trader'[x] = trader[x]
               /\ accepted[x] => trader[x] \in Players \ {p, q}
  BY PairIs, ClosedIs DEF Pair
<1>2. Slots' = Slots /\ \A s \in Slots : Empty[s] = None
  BY DEF Slots, Empty
<1>3. GoodsOK'
  <2>1. money' \in [Players -> Nat]
    BY DEF Closed, GoodsInv, GoodsOK
  <2> QED BY <2>1 DEF GoodsOK
<1> HIDE DEF q
<1>4. SlotsDistinct'
  <2>1. \A x \in Players : \A s, t \in Slots :
          items'[x][s] # None /\ items'[x][s] = items'[x][t] => s = t
    BY <1>1, <1>2 DEF GoodsInv, SlotsDistinct
  <2> QED BY <1>2, <2>1 DEF SlotsDistinct
<1>5. OwnInWindow'
  <2>1. ASSUME NEW x \in Players, NEW s \in Slots, items'[x][s] # None
        PROVE  owner'[items'[x][s]] \in {x, None}
    <3>1. x \notin {p, q} /\ items'[x] = items[x]
      BY <1>1, <1>2, <2>1
    <3>2. items[x][s] \in Items /\ owner[items[x][s]] \in {x, None}
      BY <2>1, <3>1 DEF GoodsInv, OwnInWindow, IInv, WindowsOK
    <3>3. owner'[items[x][s]] = owner[items[x][s]]
      BY <1>1, <3>1, <3>2, NoneAssumption DEF q
    <3> QED BY <3>1, <3>2, <3>3
  <2> QED BY <1>2, <2>1 DEF OwnInWindow
<1>6. AgreedIsShown'
  BY <1>1, AgreedKeeps DEF GoodsInv
<1> QED BY <1>3, <1>4, <1>5, <1>6 DEF GoodsInv

LEMMA TradeCancelKeeps ==
  ASSUME IInv, GoodsInv, NEW p \in Players, TradeCancel(p)
  PROVE  GoodsInv'
<1>1. /\ trader[p] # None /\ Closed(p) /\ Forget /\ UNCHANGED <<owner, purse>>
  BY DEF TradeCancel, worldVars
<1>2. OneOfUnique'
  BY <1>1 DEF GoodsInv, OneOfUnique, Bag
<1> QED BY <1>1, <1>2, ForgetIs, ClosedKeepsGoods DEF GoodsInv, GoodsOK

\* The bags a trade fills from two others hold one item of the unique ones at most.
LEMMA OneOfUniqueIn ==
  ASSUME NEW B, NEW C, NEW O \in SUBSET C, NEW new \in SUBSET (B \cup O),
         \A i, j \in B \cap Unique : i = j, \A i, j \in C \cap Unique : i = j,
         O \cap Unique # {} => B \cap Unique = {}
  PROVE  \A i, j \in new \cap Unique : i = j
OBVIOUS

LEMMA CompleteKeeps ==
  ASSUME IInv, GoodsInv, NEW p \in Players, trader[p] # None, Complete(p), Remember(p)
  PROVE  GoodsInv'
<1> DEFINE q == trader[p]
<1>1. q \in Players /\ Pair(p, q) /\ Pair(q, p) /\ p # q /\ trader[q] = p
  BY PairIs DEF Pair
<1>2. Closed(p) /\ CanStoreItems(p) /\ CanStoreItems(q)
  BY DEF Complete
<1> HIDE DEF q
<1>3. /\ \A i \in Items : owner'[i] = IF i \in Offered(p) THEN q
                                      ELSE IF i \in Offered(q) THEN p ELSE owner[i]
      /\ owner' \in [Items -> Players \cup {None}] /\ purse' \in [Players -> Nat]
  BY <1>1, CompleteIs
<1>4. \A i \in Items : owner'[i] # owner[i] => owner[i] \in {p, q}
  BY <1>3 DEF Offered, Bag
<1>5. OneOfUnique'
  <2>1. /\ Offered(q) \cap Unique # {} => Bag(p) \cap Unique = {}
        /\ Offered(p) \cap Unique # {} => Bag(q) \cap Unique = {}
    BY <1>1, <1>2 DEF CanStoreItems, q
  <2>2. \A x \in Players : \A i, j \in Bag(x) \cap Unique : i = j
    BY DEF GoodsInv, OneOfUnique
  <2>3. Offered(p) \subseteq Bag(p) /\ Offered(q) \subseteq Bag(q)
    BY DEF Offered
  <2> DEFINE NewBag(x) == {i \in Items : owner'[i] = x}
  <2>4. /\ NewBag(p) \subseteq Bag(p) \cup Offered(q) /\ NewBag(q) \subseteq Bag(q) \cup Offered(p)
        /\ \A x \in Players \ {p, q} : NewBag(x) \subseteq Bag(x)
    BY <1>1, <1>3 DEF Bag
  <2> HIDE DEF NewBag
  <2>5. \A i, j \in NewBag(p) \cap Unique : i = j
    BY <1>1, <2>1, <2>2, <2>3, <2>4, OneOfUniqueIn
  <2>6. \A i, j \in NewBag(q) \cap Unique : i = j
    BY <1>1, <2>1, <2>2, <2>3, <2>4, OneOfUniqueIn
  <2>7. \A x \in Players : \A i, j \in NewBag(x) \cap Unique : i = j
    BY <2>2, <2>4, <2>5, <2>6
  <2> QED BY <2>7 DEF OneOfUnique, Bag, NewBag
<1>6. \A x \in Players : accepted'[x] => agreed'[x] = agreed[x]
  <2>1. ~accepted'[p]
    BY <1>2, ClosedIs
  <2> QED BY <2>1 DEF Remember
<1> QED BY <1>2, <1>3, <1>4, <1>5, <1>6, ClosedKeepsGoods DEF q

LEMMA AcceptTradeKeeps ==
  ASSUME IInv, GoodsInv, NEW p \in Players, AcceptTrade(p)
  PROVE  GoodsInv'
<1>1. trader[p] # None /\ trader[p] \in Players /\ p # trader[p] /\ Remember(p)
  BY PairIs DEF AcceptTrade, Pair
<1>2. ASSUME UNCHANGED <<trader, items, money, owner, purse>>,
             \A x \in Players \ {p} : accepted'[x] => accepted[x]
      PROVE  GoodsInv'
  <2>1. Goods'
    BY <1>2, QuietKeepsGoods DEF GoodsInv, GoodsOK
  <2>2. ASSUME NEW x \in Players, accepted'[x]
        PROVE  agreed'[x] = (Shown(x) \cup Shown(trader[x]))'
    <3>1. \A y : Shown(y)' = Shown(y)
      BY <1>2 DEF Shown, TradedSlots
    <3>2. (Shown(x) \cup Shown(trader[x]))' = Shown(x) \cup Shown(trader[x])
      BY <1>2 DEF Shown, TradedSlots
    <3>3. CASE x = p
      BY <1>1, <2>2, <3>2, <3>3 DEF Remember
    <3>4. CASE x # p
      <4>1. agreed'[x] = agreed[x] /\ accepted[x]
        BY <1>1, <1>2, <2>2, <3>4 DEF Remember
      <4> QED BY <3>2, <4>1 DEF GoodsInv, AgreedIsShown
    <3> QED BY <3>3, <3>4
  <2>3. AgreedIsShown'
    BY <2>2 DEF AgreedIsShown
  <2> QED BY <2>1, <2>3 DEF Goods, GoodsInv
<1>3. CASE RefuseSelf(p)
  BY <1>1, <1>2, <1>3 DEF RefuseSelf, worldVars, IInv, WindowsOK
<1>4. CASE RefusePartner(p)
  BY <1>1, <1>2, <1>4 DEF RefusePartner, worldVars, IInv, WindowsOK
<1>5. CASE Wait(p)
  BY <1>1, <1>2, <1>5 DEF Wait, worldVars, IInv, WindowsOK
<1>6. ASSUME NEW caster \in Players, SpellFails(p, caster) PROVE GoodsInv'
  BY <1>1, <1>2, <1>6, UnacceptedIs DEF SpellFails, worldVars
<1>7. CASE NoRoom(p)
  BY <1>1, <1>2, <1>7, UnacceptedIs DEF NoRoom, worldVars
<1>8. CASE Complete(p)
  BY <1>1, <1>8, CompleteKeeps
<1> QED BY <1>1, <1>3, <1>4, <1>5, <1>6, <1>7, <1>8 DEF AcceptTrade

\* What happens to the players besides: at most an item is gone.
LEMMA ElsewhereKeeps ==
  ASSUME IInv, GoodsInv, UNCHANGED <<tradeVars, agreed>>,
         owner' \in [Items -> Players \cup {None}], purse' \in [Players -> Nat],
         \A i \in Items : owner'[i] \in {owner[i], None}
  PROVE  GoodsInv'
<1>1. UNCHANGED <<trader, items, money, accepted, agreed>>
  BY DEF tradeVars
<1>2. GoodsOK' /\ SlotsDistinct'
  BY <1>1 DEF GoodsInv, GoodsOK, SlotsDistinct, Slots
<1>3. OwnInWindow'
  <2>1. ASSUME NEW x \in Players, NEW s \in Slots, items[x][s] # None
        PROVE  owner'[items[x][s]] \in {x, None}
    <3>1. items[x][s] \in Items /\ owner[items[x][s]] \in {x, None}
      BY <2>1 DEF GoodsInv, OwnInWindow, IInv, WindowsOK
    <3> QED BY <3>1
  <2>2. Slots' = Slots
    BY DEF Slots
  <2> QED BY <1>1, <2>1, <2>2 DEF OwnInWindow
<1>4. OneOfUnique'
  <2>1. \A x \in Players : Bag(x)' \subseteq Bag(x)
    BY NoneAssumption DEF Bag
  <2>2. \A x \in Players : \A i, j \in Bag(x)' \cap Unique : i = j
    BY <2>1 DEF GoodsInv, OneOfUnique
  <2> QED BY <2>2 DEF OneOfUnique, Bag
<1>5. AgreedIsShown'
  BY <1>1, AgreedKeeps DEF GoodsInv
<1> QED BY <1>2, <1>3, <1>4, <1>5 DEF GoodsInv

LEMMA InitGoods == ASSUME Init PROVE GoodsInv
<1>1. /\ owner = Owned /\ purse = Earned /\ money = [p \in Players |-> 0]
      /\ items = [p \in Players |-> Empty] /\ accepted = [p \in Players |-> FALSE]
  BY DEF Init
<1>2. GoodsOK
  BY <1>1, StartAssumption, CountIs DEF GoodsOK
<1>3. SlotsDistinct /\ OwnInWindow
  BY <1>1 DEF SlotsDistinct, OwnInWindow, Empty
<1>4. OneOfUnique
  <2> SUFFICES ASSUME NEW p \in Players, NEW i \in Bag(p) \cap Unique, NEW j \in Bag(p) \cap Unique,
                      i # j
               PROVE  FALSE
    BY DEF OneOfUnique
  <2> DEFINE both == Bag(p) \cap Unique
  <2>1. Bag(p) = {x \in Items : Owned[x] = p}
    BY <1>1 DEF Bag
  <2>2. Cardinality(both) <= 1
    BY <2>1, StartAssumption
  <2>3. IsFiniteSet(both)
    BY OfferedIs, FS_Subset
  <2>4. {i, j} \subseteq both
    OBVIOUS
  <2>5. Cardinality({i, j}) = 2
    <3> DEFINE one == {i}
    <3>1. IsFiniteSet(one) /\ Cardinality(one) = 1
      BY FS_Singleton
    <3>2. j \notin one /\ one \cup {j} = {i, j}
      OBVIOUS
    <3> HIDE DEF one
    <3>3. Cardinality(one \cup {j}) = Cardinality(one) + 1
      BY <3>1, <3>2, FS_AddElement
    <3> QED BY <3>1, <3>2, <3>3
  <2> HIDE DEF both
  <2>6. Cardinality({i, j}) <= Cardinality(both) /\ Cardinality(both) \in Nat
    BY <2>3, <2>4, FS_Subset, FS_CardinalityType
  <2> QED BY <2>2, <2>5, <2>6
<1>5. AgreedIsShown
  BY <1>1 DEF AgreedIsShown
<1> QED BY <1>2, <1>3, <1>4, <1>5 DEF GoodsInv

LEMMA NextGoods == ASSUME IInv, GoodsInv, [Next]_vars PROVE GoodsInv'
<1>1. money \in [Players -> Nat] /\ accepted \in [Players -> BOOLEAN]
      /\ owner \in [Items -> Players \cup {None}] /\ purse \in [Players -> Nat]
  BY DEF GoodsInv, GoodsOK, IInv, WindowsOK
<1>2. ASSUME NEW p \in Players, NEW n \in 0..MaxMoney, SetTradeGold(p, n) PROVE GoodsInv'
  <2>1. trader[p] # None /\ UNCHANGED <<trader, items, owner, purse>> /\ Forget
        /\ money' = [money EXCEPT ![p] = n] /\ accepted' \in {Unaccepted(p), accepted}
    BY <1>2 DEF SetTradeGold, worldVars
  <2>2. money' \in [Players -> Nat]
    BY <1>1, <2>1, CountIs
  <2> QED BY <2>1, <2>2, UnacceptedIs, WindowsStay
<1>3. ASSUME NEW p \in Players, NEW s \in Slots, ClearTradeItem(p, s) PROVE GoodsInv'
  BY <1>3, SetItemKeeps DEF ClearTradeItem
<1>4. ASSUME NEW p \in Players, NEW s \in Slots, NEW i \in Items, SetTradeItem(p, s, i)
      PROVE  GoodsInv'
  BY <1>4, SetItemKeeps DEF SetTradeItem
<1>5. ASSUME NEW p \in Players, SetSpell(p) PROVE GoodsInv'
  <2>1. trader[p] # None /\ UNCHANGED <<trader, items, money, owner, purse>> /\ Forget
        /\ accepted' = Unaccepted(p)
    BY <1>5 DEF SetSpell, worldVars
  <2> QED BY <1>1, <2>1, UnacceptedIs, WindowsStay
<1>6. ASSUME NEW p \in Players, UnacceptTrade(p) PROVE GoodsInv'
  <2>1. UNCHANGED <<trader, items, money, owner, purse>> /\ Forget
        /\ accepted' = [accepted EXCEPT ![p] = FALSE]
    BY <1>6 DEF UnacceptTrade, worldVars
  <2>2. \A x \in Players : accepted'[x] => accepted[x]
    BY <1>1, <2>1
  <2> QED BY <1>1, <2>1, <2>2, WindowsStay
<1>7. CASE Elsewhere
  <2>1. UNCHANGED <<tradeVars, agreed>>
    BY <1>7 DEF Elsewhere, Earn, Lose, Change, Happens
  <2>2. ASSUME NEW p \in Players, NEW n \in 0..MaxMoney, Earn(p, n) PROVE GoodsInv'
    <3>1. owner' = owner /\ purse' = [purse EXCEPT ![p] = n] /\ n \in Nat
      BY <2>2, CountIs DEF Earn
    <3>2. purse' \in [Players -> Nat]
      BY <1>1, <3>1
    <3> QED BY <1>1, <2>1, <3>1, <3>2, ElsewhereKeeps
  <2>3. ASSUME NEW i \in Items, Lose(i) PROVE GoodsInv'
    <3>1. purse' = purse /\ owner' = [owner EXCEPT ![i] = None]
      BY <2>3 DEF Lose
    <3>2. owner' \in [Items -> Players \cup {None}] /\ \A j \in Items : owner'[j] \in {owner[j], None}
      BY <1>1, <3>1
    <3> QED BY <1>1, <2>1, <3>1, <3>2, ElsewhereKeeps
  <2>4. ASSUME NEW i \in Items, NEW c \in {"free", "locked", "bound"}, Change(i, c) PROVE GoodsInv'
    <3>1. UNCHANGED <<owner, purse>>
      BY <2>4 DEF Change
    <3> QED BY <1>1, <2>1, <3>1, ElsewhereKeeps
  <2> QED BY <1>7, <2>2, <2>3, <2>4 DEF Elsewhere
<1>8. CASE UNCHANGED vars
  BY <1>1, <1>8, ElsewhereKeeps DEF vars, worldVars
<1> QED
  BY <1>2, <1>3, <1>4, <1>5, <1>6, <1>7, <1>8, InitiateTradeKeeps, AcceptTradeKeeps,
     TradeCancelKeeps DEF Next

LEMMA InvariantHolds == Spec => [](IInv /\ GoodsInv)
<1>1. Init => IInv /\ GoodsInv BY InitPairs, InitGoods
<1>2. IInv /\ GoodsInv /\ [Next]_vars => (IInv /\ GoodsInv)' BY NextPairs, NextGoods
<1> QED BY <1>1, <1>2, PTL DEF Spec

-----------------------------------------------------------------------------
LEMMA MovesOnlyAccepted ==
  ASSUME IInv, GoodsInv, NEW p \in Players, trader[p] # None, Complete(p)
  PROVE  LET q == trader[p]
             movedItems == {i \in Items : owner'[i] # owner[i]}
         IN  /\ movedItems \subseteq agreed[q]
             /\ agreed[q] \subseteq movedItems \cup {i \in Items : owner[i] \notin {p, q}}
<1> DEFINE q == trader[p]
           movedItems == {i \in Items : owner'[i] # owner[i]}
<1>1. q \in Players /\ Pair(p, q) /\ p # q /\ trader[q] = p
  BY PairIs DEF Pair
<1>2. agreed[q] = Shown(q) \cup Shown(p)
  BY <1>1 DEF Complete, Ready, GoodsInv, AgreedIsShown
<1> HIDE DEF q
<1>3. \A i \in Items : owner'[i] = IF i \in Offered(p) THEN q
                                   ELSE IF i \in Offered(q) THEN p ELSE owner[i]
  BY <1>1, CompleteIs
<1>4. movedItems = Offered(p) \cup Offered(q)
  BY <1>1, <1>3 DEF Offered, Bag
<1>5. movedItems \subseteq agreed[q]
  BY <1>2, <1>4 DEF Offered
<1>6. ASSUME NEW x \in {p, q}, NEW i \in Shown(x), i \notin Offered(x)
      PROVE  i \in Items /\ owner[i] \notin {p, q}
  <2>1. PICK s \in TradedSlots : i = items[x][s] /\ i # None
    BY DEF Shown
  <2>2. x \in Players /\ s \in Slots
    BY <1>1, CountIs DEF TradedSlots, Slots
  <2>3. i \in Items /\ owner[i] \in {x, None}
    BY <2>1, <2>2 DEF IInv, WindowsOK, GoodsInv, OwnInWindow
  <2>4. owner[i] # x
    BY <1>6, <2>3 DEF Offered, Bag
  <2> QED BY <1>1, <2>3, <2>4, NoneAssumption
<1>7. agreed[q] \subseteq movedItems \cup {i \in Items : owner[i] \notin {p, q}}
  BY <1>2, <1>4, <1>6
<1> QED BY <1>5, <1>7 DEF q

\* What a trade moves, in any number of slots, is what was in both windows when the one
\* who waited accepted: whatever the two do in between, nothing he has not seen is taken
\* or given, and of what he saw only what is gone stays out.
THEOREM TradesWhatWasAccepted == Spec => MovesWhatWasAccepted
<1> DEFINE Moves == \A p \in Players : trader[p] # None /\ Complete(p) =>
                        LET q == trader[p]
                            movedItems == {i \in Items : owner'[i] # owner[i]}
                        IN  /\ movedItems \subseteq agreed[q]
                            /\ agreed[q] \subseteq movedItems \cup {i \in Items : owner[i] \notin {p, q}}
<1>1. ASSUME IInv /\ GoodsInv PROVE Moves
  BY <1>1, MovesOnlyAccepted
<1>2. IInv /\ GoodsInv /\ [Next]_vars => [Moves]_vars
  BY <1>1
<1> HIDE DEF Moves
<1>3. Spec => [][Moves]_vars
  BY <1>2, InvariantHolds, PTL DEF Spec
<1> QED BY <1>3, PTL DEF MovesWhatWasAccepted, Moves

LEMMA NothingGoes ==
  ASSUME IInv, GoodsInv, [Next]_vars, ~Elsewhere
  PROVE  /\ \A i \in Items : owner'[i] = None => owner[i] = None
         /\ \A p \in Players : trader[p] # None =>
              purse'[p] + purse'[trader[p]] = purse[p] + purse[trader[p]]
<1>1. CASE UNCHANGED <<owner, purse>>
  BY <1>1
<1>2. ASSUME NEW p \in Players, AcceptTrade(p), Complete(p)
      PROVE  /\ \A i \in Items : owner'[i] = None => owner[i] = None
             /\ \A x \in Players : trader[x] # None =>
                  purse'[x] + purse'[trader[x]] = purse[x] + purse[trader[x]]
  <2> DEFINE q == trader[p]
  <2>1. q \in Players /\ Pair(p, q) /\ p # q /\ trader[q] = p
    BY <1>2, PairIs DEF Pair, AcceptTrade
  <2> HIDE DEF q
  <2>2. /\ \A i \in Items : owner'[i] = IF i \in Offered(p) THEN q
                                         ELSE IF i \in Offered(q) THEN p ELSE owner[i]
        /\ purse' \in [Players -> Nat]
        /\ purse'[p] + purse'[q] = purse[p] + purse[q]
        /\ \A x \in Players \ {p, q} : purse'[x] = purse[x]
    BY <1>2, <2>1, CompleteIs
  <2>3. \A i \in Items : owner'[i] = None => owner[i] = None
    BY <2>1, <2>2, NoneAssumption
  <2>4. ASSUME NEW x \in Players, trader[x] # None
        PROVE  purse'[x] + purse'[trader[x]] = purse[x] + purse[trader[x]]
    <3>1. trader[x] \in Players /\ trader[trader[x]] = x
      BY <2>4, PairIs DEF Pair
    <3>2. trader[p] = q
      BY DEF q
    <3>3. CASE x = p
      BY <2>2, <3>2, <3>3
    <3>4. CASE x = q
      <4>1. /\ purse'[p] \in Nat /\ purse'[q] \in Nat /\ purse[p] \in Nat /\ purse[q] \in Nat
        BY <2>1, <2>2 DEF GoodsInv, GoodsOK
      <4> QED BY <2>1, <2>2, <3>4, <4>1
    <3>5. CASE x \notin {p, q}
      <4>1. trader[x] \notin {p, q}
        BY <2>1, <3>1, <3>2, <3>5
      <4> QED BY <2>2, <3>1, <3>5, <4>1
    <3> QED BY <3>3, <3>4, <3>5
  <2> QED BY <2>3, <2>4
<1>3. ASSUME NEW p \in Players, AcceptTrade(p), ~Complete(p) PROVE UNCHANGED <<owner, purse>>
  BY <1>3 DEF AcceptTrade, RefuseSelf, RefusePartner, Wait, SpellFails, NoRoom, worldVars
<1>4. CASE \E p \in Players :
             \/ \E q \in Players : InitiateTrade(p, q)
             \/ \E n \in 0..MaxMoney : SetTradeGold(p, n)
             \/ \E s \in Slots : ClearTradeItem(p, s) \/ \E i \in Items : SetTradeItem(p, s, i)
             \/ SetSpell(p) \/ UnacceptTrade(p) \/ TradeCancel(p)
  <2>1. UNCHANGED <<owner, purse>>
    BY <1>4 DEF InitiateTrade, SetTradeGold, ClearTradeItem, SetTradeItem, SetItem, SetSpell,
                UnacceptTrade, TradeCancel, worldVars
  <2> QED BY <1>1, <2>1
<1>5. CASE UNCHANGED vars
  BY <1>1, <1>5 DEF vars, worldVars
<1> QED BY <1>1, <1>2, <1>3, <1>4, <1>5 DEF Next

\* No handler of a trade takes an item from its owner without giving it to another, and
\* the two who trade have as much money as before, whatever they offer and however full
\* their bags and purses are.
THEOREM TradesLoseNothing == Spec => NothingLost
<1> DEFINE Kept == Elsewhere \/
              /\ \A i \in Items : owner'[i] = None => owner[i] = None
              /\ \A p \in Players : trader[p] # None =>
                   purse'[p] + purse'[trader[p]] = purse[p] + purse[trader[p]]
<1>1. ASSUME IInv, GoodsInv, [Next]_vars PROVE Kept
  BY <1>1, NothingGoes
<1>2. IInv /\ GoodsInv /\ [Next]_vars => [Kept]_vars
  BY <1>1
<1> HIDE DEF Kept
<1>3. Spec => [][Kept]_vars
  BY <1>2, InvariantHolds, PTL DEF Spec
<1> QED BY <1>3 DEF NothingLost, Kept
=============================================================================
