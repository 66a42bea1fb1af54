-------------------------------- MODULE Trade --------------------------------
(***************************************************************************)
(* Trades between players: the handlers of WorldSession and the TradeData  *)
(* of each side.  A step is one handler of one session, or something that  *)
(* happens to a player meanwhile.                                          *)
(*                                                                         *)
(* A player's bags are a number of places, and of the items in Unique a    *)
(* player may hold one.  What InitiateTrade and CheckCast look at besides  *)
(* is left open, and so is the distance: they may say no at any time.      *)
(* _acceptProccess is set and cleared within AcceptTrade.                  *)
(***************************************************************************)
EXTENDS Integers, FiniteSets

CONSTANTS
    Players,
    Items,
    Unique,         \* the items a player may hold only one of
    TradedCount,    \* TRADE_SLOT_TRADED_COUNT; the slot after those is TRADE_SLOT_NONTRADED
    Capacity,       \* places in a player's bags
    MaxMoney,       \* MAX_MONEY_AMOUNT
    Owned, Earned,  \* who owns each item and the money each player has at first
    MaxEvents,      \* bound on what happens to the players besides
    None

ASSUME NoneAssumption == None \notin Players \cup Items
ASSUME ItemsAssumption == IsFiniteSet(Items) /\ Unique \subseteq Items
ASSUME NumbersAssumption == {TradedCount, Capacity, MaxMoney, MaxEvents} \subseteq Nat
ASSUME StartAssumption ==
    /\ Owned \in [Items -> Players] /\ Earned \in [Players -> 0..MaxMoney]
    /\ \A p \in Players : LET bag == {i \in Items : Owned[i] = p}
                          IN  Cardinality(bag) <= Capacity /\ Cardinality(bag \cap Unique) <= 1

NonTraded == TradedCount
Slots == 0..TradedCount
TradedSlots == 0..TradedCount - 1

VARIABLES
    trader,     \* _trader, None without m_trade
    items,      \* _items
    money,      \* _money
    spell,      \* _spell is not 0
    accepted,   \* _accepted
    owner,      \* the player who has each item, None if it is gone
    condition,  \* of each item: "free", "locked" (not CanBeTraded), "bound" (IsBindedNotWith)
    purse,      \* GetMoney
    events,     \* how much has happened besides
    agreed      \* history: the items in both windows when an accepting player did

tradeVars == <<trader, items, money, spell, accepted>>
worldVars == <<owner, condition, purse>>
vars == <<tradeVars, worldVars, events, agreed>>

Empty == [s \in Slots |-> None]

Init ==
    /\ trader = [p \in Players |-> None]
    /\ items = [p \in Players |-> Empty]
    /\ money = [p \in Players |-> 0]
    /\ spell = [p \in Players |-> FALSE]
    /\ accepted = [p \in Players |-> FALSE]
    /\ owner = Owned
    /\ condition = [i \in Items |-> "free"]
    /\ purse = Earned
    /\ events = 0
    /\ agreed = [p \in Players |-> {}]

-----------------------------------------------------------------------------
(* The windows.                                                            *)

Bag(p) == {i \in Items : owner[i] = p}

\* What lies in a slot: an item that has left the player's bags is not found.
GetItem(p, s) == IF items[p][s] \in Bag(p) THEN items[p][s] ELSE None
Shown(p) == {items[p][s] : s \in TradedSlots} \ {None}
Offered(p) == Shown(p) \cap Bag(p)

\* Mutant of Unaccepted: only the player who changes his offer has to accept again.
UnacceptedSelf(p) == [accepted EXCEPT ![p] = FALSE]

Unaccepted(p) == [accepted EXCEPT ![p] = FALSE, ![trader[p]] = FALSE]

Forget == agreed' = [p \in Players |-> IF accepted'[p] THEN agreed[p] ELSE {}]

InitiateTrade(p, q) ==
    /\ p # q
    /\ trader[p] = None /\ trader[q] = None
    /\ trader' = [trader EXCEPT ![p] = q, ![q] = p]
    /\ UNCHANGED <<items, money, spell, accepted, worldVars, events, agreed>>

\* The new amount stays even if the player does not have it; then nobody is told and
\* nobody has to accept again.
SetTradeGold(p, n) ==
    /\ trader[p] # None
    /\ n # money[p]
    /\ money' = [money EXCEPT ![p] = n]
    /\ accepted' = IF purse[p] >= n THEN Unaccepted(p) ELSE accepted
    /\ Forget
    /\ UNCHANGED <<trader, items, spell, worldVars, events>>

\* TradeData::SetItem.
SetItem(p, s, i) ==
    /\ items' = [items EXCEPT ![p][s] = i]
    /\ accepted' = Unaccepted(p)
    /\ spell' = IF s = NonTraded
                THEN [spell EXCEPT ![p] = FALSE, ![trader[p]] = FALSE]
                ELSE [spell EXCEPT ![p] = FALSE]
    /\ Forget
    /\ UNCHANGED <<trader, money, worldVars, events>>

SetTradeItem(p, s, i) ==
    /\ trader[p] # None
    /\ i \in Bag(p)
    /\ \A t \in Slots : items[p][t] # i
    /\ s # NonTraded => condition[i] = "free"
    /\ SetItem(p, s, i)

ClearTradeItem(p, s) ==
    /\ trader[p] # None
    /\ items[p][s] # None
    /\ SetItem(p, s, None)

\* A spell cast on the partner's item in the last slot waits for the trade.
SetSpell(p) ==
    /\ trader[p] # None /\ ~spell[p]
    /\ GetItem(trader[p], NonTraded) # None
    /\ spell' = [spell EXCEPT ![p] = TRUE]
    /\ accepted' = Unaccepted(p)
    /\ Forget
    /\ UNCHANGED <<trader, items, money, worldVars, events>>

\* Mutant of Closed: the partner's TradeData is forgotten.
ClosedSelf(p) ==
    /\ trader' = [trader EXCEPT ![p] = None]
    /\ items' = [items EXCEPT ![p] = Empty]
    /\ money' = [money EXCEPT ![p] = 0]
    /\ spell' = [spell EXCEPT ![p] = FALSE]
    /\ accepted' = [accepted EXCEPT ![p] = FALSE]

\* Both m_trade are deleted.
Closed(p) ==
    LET q == trader[p]
    IN  /\ trader' = [trader EXCEPT ![p] = None, ![q] = None]
        /\ items' = [items EXCEPT ![p] = Empty, ![q] = Empty]
        /\ money' = [money EXCEPT ![p] = 0, ![q] = 0]
        /\ spell' = [spell EXCEPT ![p] = FALSE, ![q] = FALSE]
        /\ accepted' = [accepted EXCEPT ![p] = FALSE, ![q] = FALSE]

\* The player cancels, logs out, takes a taxi or moves a bag.
TradeCancel(p) ==
    /\ trader[p] # None
    /\ Closed(p)
    /\ Forget
    /\ UNCHANGED <<worldVars, events>>

UnacceptTrade(p) ==
    /\ trader[p] # None
    /\ accepted' = [accepted EXCEPT ![p] = FALSE]
    /\ Forget
    /\ UNCHANGED <<trader, items, money, spell, worldVars, events>>

-----------------------------------------------------------------------------
(* HandleAcceptTrade.                                                      *)

Enough(p) == purse[p] >= money[p]

\* Mutant of HasRoomForGold: the limit may be passed.
AnyGold(p) == TRUE
HasRoomForGold(p) == purse[p] < MaxMoney - money[trader[p]]

SelfAtFault(p) == ~Enough(p) \/ (Enough(trader[p]) /\ ~HasRoomForGold(p))

PartnerAtFault(p) ==
    /\ Enough(p)
    /\ ~Enough(trader[p]) \/ (HasRoomForGold(p) /\ ~HasRoomForGold(trader[p]))

\* The player is too far away, or his money is wrong.
RefuseSelf(p) ==
    /\ accepted' = [accepted EXCEPT ![p] = FALSE]
    /\ UNCHANGED <<trader, items, money, spell, worldVars>>

\* The partner's money is wrong: he has to accept again.
RefusePartner(p) ==
    /\ PartnerAtFault(p)
    /\ accepted' = [accepted EXCEPT ![p] = TRUE, ![trader[p]] = FALSE]
    /\ UNCHANGED <<trader, items, money, spell, worldVars>>

MoneyOK(p) == ~SelfAtFault(p) /\ ~PartnerAtFault(p)

ItemsOK(p) ==
    /\ \A i \in Offered(p) : condition[i] = "free"
    /\ \A i \in Offered(trader[p]) : condition[i] # "locked"

\* An item that cannot be traded, or a partner who has not accepted.
Wait(p) ==
    /\ MoneyOK(p)
    /\ ~ItemsOK(p) \/ ~accepted[trader[p]]
    /\ accepted' = [accepted EXCEPT ![p] = TRUE]
    /\ UNCHANGED <<trader, items, money, spell, worldVars>>

Ready(p) == MoneyOK(p) /\ ItemsOK(p) /\ accepted[trader[p]]

\* The spell of a player has no target any more or its cast is refused.
SpellFails(p, caster) ==
    /\ Ready(p)
    /\ spell[caster]
    /\ spell' = [spell EXCEPT ![caster] = FALSE]
    /\ accepted' = Unaccepted(p)
    /\ UNCHANGED <<trader, items, money, worldVars>>

SpellOK(p) == spell[p] => GetItem(trader[p], NonTraded) # None

\* CanStoreItems with the offered items of both out of the bags.  Each item by itself
\* must not be one too many.
CanStoreItems(p) ==
    LET incoming == Offered(trader[p])
    IN  /\ \A i \in incoming : condition[i] # "bound"
        /\ incoming \cap Unique # {} => Bag(p) \cap Unique = {}
        /\ Cardinality(Bag(p) \ Offered(p)) + Cardinality(incoming) <= Capacity

NoRoom(p) ==
    /\ Ready(p)
    /\ SpellOK(p) /\ SpellOK(trader[p])
    /\ ~CanStoreItems(p) \/ ~CanStoreItems(trader[p])
    /\ accepted' = Unaccepted(p)
    /\ UNCHANGED <<trader, items, money, spell, worldVars>>

\* CanStoreItem, for a player and an item, when held says who has each.
CanStoreItem(held, p, i) ==
    i # None =>
        LET bag == {j \in Items : held[j] = p}
        IN  Cardinality(bag) < Capacity /\ (i \in Unique => bag \cap Unique = {})

Give(held, p, i) == IF i = None THEN held ELSE [held EXCEPT ![i] = p]
GiveBack(held, p, i) == IF CanStoreItem(held, p, i) THEN Give(held, p, i) ELSE held

\* One round of moveItems: both items of the slot change hands or both go back.
MoveSlot(held, p, s) ==
    LET q == trader[p]
        mine == GetItem(p, s)
        his == GetItem(q, s)
    IN  IF CanStoreItem(held, q, mine) /\ CanStoreItem(held, p, his)
        THEN Give(Give(held, q, mine), p, his)
        ELSE GiveBack(GiveBack(held, p, mine), q, his)

\* The items are removed from the bags of both and stored slot by slot.
MoveItems(p) ==
    LET removed == [i \in Items |-> IF i \in Offered(p) \cup Offered(trader[p]) THEN None ELSE owner[i]]
        moved[n \in 0..TradedCount] == IF n = 0 THEN removed ELSE MoveSlot(moved[n - 1], p, n - 1)
    IN  moved[TradedCount]

\* ModifyMoney: too much to take is not taken at all.
Paid(amount, loss, gain) ==
    LET rest == IF amount > loss THEN amount - loss ELSE 0
    IN  IF gain > 0 /\ rest >= MaxMoney - gain THEN rest ELSE rest + gain

\* Both spells are cast and the trade is saved in one transaction.
Complete(p) ==
    LET q == trader[p]
    IN  /\ Ready(p)
        /\ SpellOK(p) /\ SpellOK(q)
        /\ CanStoreItems(p) /\ CanStoreItems(q)
        /\ owner' = MoveItems(p)
        /\ purse' = [purse EXCEPT ![p] = Paid(purse[p], money[p], money[q]),
                                  ![q] = Paid(purse[q], money[q], money[p])]
        /\ Closed(p)
        /\ UNCHANGED condition

\* What is in both windows is remembered for a player whose acceptance stands.
Remember(p) ==
    agreed' = [x \in Players |-> CASE ~accepted'[x] -> {}
                                  [] accepted'[x] /\ x = p -> Shown(p) \cup Shown(trader[p])
                                  [] OTHER -> agreed[x]]

\* SetAccepted(true) comes first and is undone by most of the refusals.
AcceptTrade(p) ==
    /\ trader[p] # None
    /\ \/ RefuseSelf(p) \/ RefusePartner(p) \/ Wait(p)
       \/ SpellFails(p, p) \/ (SpellOK(p) /\ SpellFails(p, trader[p]))
       \/ NoRoom(p) \/ Complete(p)
    /\ Remember(p)
    /\ UNCHANGED events

-----------------------------------------------------------------------------
(* What happens to players while they trade.                               *)

Happens == events < MaxEvents /\ events' = events + 1 /\ UNCHANGED <<tradeVars, agreed>>

\* Money is earned or spent.
Earn(p, n) ==
    /\ Happens
    /\ purse' = [purse EXCEPT ![p] = n]
    /\ UNCHANGED <<owner, condition>>

\* An item is looted from, put to use or bound.
Change(i, c) ==
    /\ Happens
    /\ condition' = [condition EXCEPT ![i] = c]
    /\ UNCHANGED <<owner, purse>>

\* An item expires or is used up.
Lose(i) ==
    /\ Happens
    /\ owner[i] # None
    /\ owner' = [owner EXCEPT ![i] = None]
    /\ UNCHANGED <<condition, purse>>

Elsewhere ==
    \/ \E p \in Players, n \in 0..MaxMoney : Earn(p, n)
    \/ \E i \in Items : Lose(i) \/ \E c \in {"free", "locked", "bound"} : Change(i, c)

Next ==
    \/ \E p \in Players :
        \/ \E q \in Players : InitiateTrade(p, q)
        \/ \E n \in 0..MaxMoney : SetTradeGold(p, n)
        \/ \E s \in Slots : ClearTradeItem(p, s) \/ \E i \in Items : SetTradeItem(p, s, i)
        \/ SetSpell(p) \/ UnacceptTrade(p) \/ AcceptTrade(p) \/ TradeCancel(p)
    \/ Elsewhere

Spec == Init /\ [][Next]_vars

-----------------------------------------------------------------------------
(* Properties.                                                             *)

\* m_trade of two players point at each other or are null: no handler of one can reach
\* the deleted TradeData of the other, however trades begin, end and are cancelled.
TradersPaired ==
    \A p \in Players :
        /\ trader[p] # None => trader[p] # p /\ trader[trader[p]] = p
        /\ trader[p] = None => items[p] = Empty /\ ~accepted[p]

\* Whatever a trade moves was in the windows when the partner of the one who accepts last
\* accepted, and of what he saw then nothing is kept back but what is gone.
MovesWhatWasAccepted ==
    [][\A p \in Players : trader[p] # None /\ Complete(p) =>
        LET q == trader[p]
            movedItems == {i \in Items : owner'[i] # owner[i]}
        IN  /\ movedItems \subseteq agreed[q]
            /\ agreed[q] \subseteq movedItems \cup {i \in Items : owner[i] \notin {p, q}}]_vars

\* A trade neither creates nor destroys anything: no item loses its owner, and the money
\* of the two is as much as before.
NothingLost ==
    [][Elsewhere \/
        /\ \A i \in Items : owner'[i] = None => owner[i] = None
        /\ \A p \in Players : trader[p] # None =>
            purse'[p] + purse'[trader[p]] = purse[p] + purse[trader[p]]]_vars
=============================================================================
