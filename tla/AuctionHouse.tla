---------------------------- MODULE AuctionHouse ----------------------------
(* An auction house whose auctions are in memory and in the database, with *)
(* the mails that carry its items and money.  A handler is one step: it    *)
(* makes its checks, changes the memory and enqueues its transaction.      *)
(* World::Update first asks the database which auctions are over and then  *)
(* ends them one by one, while handlers run.                               *)
EXTENDS Mail, FiniteSetsExt

CONSTANTS
    Amounts,        \* what players bid
    Buyouts,        \* what sellers ask for at least
    Gold,           \* what every player starts with
    Deposit,        \* GetAuctionDeposit
    CutPercent,     \* of GetAuctionCut
    LogTrade,       \* CONFIG_GM_LOG_TRADE
    MaxAuctions,    \* bound on the auctions created
    MaxCrashes      \* bound on the crashes

ASSUME HouseAssumption ==
    /\ Amounts \subseteq Nat \ {0} /\ Buyouts \subseteq Nat \ {0} /\ Deposit <= Gold
    /\ Gold \in Nat /\ Deposit \in Nat /\ CutPercent \in 0..100 /\ LogTrade \in BOOLEAN
    /\ MaxAuctions \in Nat /\ MaxCrashes \in Nat

VARIABLES
    auctions,       \* AuctionsMap
    aitems,         \* mAitems
    over,           \* what is left of the result of CHAR_SEL_AUCTION_BY_TIME
    nextAuction,    \* _auctionId
    crashes         \* how many there have been

houseVars == <<auctions, aitems, over, nextAuction, crashes>>
vars == <<mailVars, houseVars>>

Auctions == [id : Nat, item : Items, owner : Players, bidder : Players \cup {None},
             bid : Nat, buyout : Nat]
Books == [gold : [Players -> Nat], bag : [Players -> SUBSET Items], mails : SUBSET Mails,
          auctions : SUBSET Auctions,
          sunk : Nat,                   \* money that no player has any more
          discarded : SUBSET Items]     \* items deleted with the mail they came in

\* The server has started: the items are with the visitors, or one of them is
\* in an auction on which a player who is away may have bid.
OldAuctions(owner) ==
    {a \in [id : {1}, item : Items, owner : Visitors, bidder : (Players \ Visitors) \cup {None},
            bid : Amounts \cup {0}, buyout : Buyouts \cup {0}] :
        /\ a.owner = owner[a.item] /\ a.bid <= Gold
        /\ a.bidder = None <=> a.bid = 0
        /\ a.buyout > 0 => a.bid < a.buyout}

Stored(money, owner, old) ==
    [gold |-> money,
     bag |-> [p \in Players |-> {i \in Items : owner[i] = p} \ {a.item : a \in old}],
     mails |-> {}, auctions |-> old, sunk |-> 0, discarded |-> {}]

Init ==
    /\ \E owner \in [Items -> Visitors] :
        \/ auctions = {} /\ durable = <<Stored([p \in Players |-> Gold], owner, {})>>
        \/ \E a \in OldAuctions(owner) :
            /\ auctions = {a}
            /\ durable = <<Stored([p \in Players |-> Gold
                                      - (IF a.owner = p THEN Deposit ELSE 0)
                                      - (IF a.bidder = p THEN a.bid ELSE 0)], owner, {a})>>
    /\ aitems = {a.item : a \in auctions}
    /\ nextAuction = IF auctions = {} THEN 1 ELSE 2
    /\ online = {} /\ loaded = {} /\ waiting = {}
    /\ ahead = [p \in Players |-> 0]
    /\ gold = [p \in Players |-> 0]
    /\ bag = [p \in Players |-> {}]
    /\ box = [p \in Players |-> {}]
    /\ nextMail = 1 /\ truncated = FALSE /\ over = {} /\ crashes = 0

\* "mAitems.erase(i)" and "AuctionsMap.erase(auction->Id)".
Without(entries, a) == {x \in entries : x.id # a.id}
\* The auction is deleted from the database; the house keeps some of the money.
Ended(b, a, kept) == [b EXCEPT !.auctions = Without(@, a), !.sunk = @ + kept]
Cut(bid) == (bid * CutPercent) \div 100
OutBid(bid) == IF (bid * 5) \div 100 = 0 THEN 1 ELSE (bid * 5) \div 100

\* SendAuctionWonMail: who is not in the world is known by his account, which
\* is looked up for the log.
WonMail(a, winner, id) ==
    IF a.item \in aitems /\ (winner \in online \/ LogTrade)
    THEN {Letter(id, winner, House, 0, a.item, 0)} ELSE {}
\* SendAuctionSuccessfulMail.
SuccessfulMail(a, bid, id) ==
    IF a.item \in aitems
    THEN {Letter(id, a.owner, House, bid + Deposit - Cut(bid), None, 0)} ELSE {}
\* SendAuctionExpiredMail.
ExpiredMail(a, id) ==
    IF a.item \in aitems THEN {Letter(id, a.owner, House, 0, a.item, 0)} ELSE {}
\* SendAuctionOutbiddedMail, to everybody but the new bidder.
OutbiddedForgotten(a, p, id) == {}
OutbiddedMail(a, p, id) ==
    IF a.bidder \in Players \ {p} THEN {Letter(id, a.bidder, House, a.bid, None, 0)} ELSE {}

\* What a bidder who has already paid his own last bid still has to pay.
FullPrice(a, p, price) == price
Price(a, p, price) == IF a.bidder = p THEN price - a.bid ELSE price

-----------------------------------------------------------------------------
HandleAuctionSellItem(p) ==
    /\ p \in online /\ nextAuction <= MaxAuctions /\ gold[p] >= Deposit
    /\ \E item \in bag[p] \ aitems, buyout \in Buyouts \cup {0}, change \in Charges(Deposit) :
        LET a == [id |-> nextAuction, item |-> item, owner |-> p, bidder |-> None,
                  bid |-> 0, buyout |-> buyout]
        IN /\ aitems' = aitems \cup {item}
           /\ auctions' = auctions \cup {a}
           /\ gold' = [gold EXCEPT ![p] = Modified(@, change)]
           /\ bag' = [bag EXCEPT ![p] = @ \ {item}]
           /\ Commit([Saved(Last, p, gold'[p], bag'[p]) EXCEPT !.auctions = @ \cup {a}])
           /\ truncated' = (truncated \/ change # -Deposit)
    /\ nextAuction' = nextAuction + 1
    /\ UNCHANGED <<online, loaded, waiting, ahead, box, nextMail, over, crashes>>

BidOnCredit(p, a, amount) ==
    /\ p \in online /\ a.owner # p
    /\ amount > a.bid
    /\ amount >= a.bid + OutBid(a.bid) \/ (a.buyout > 0 /\ amount >= a.buyout)

CanBid(p, a, amount) ==
    /\ p \in online /\ a.owner # p
    /\ amount > a.bid
    /\ amount >= a.bid + OutBid(a.bid) \/ (a.buyout > 0 /\ amount >= a.buyout)
    /\ gold[p] >= amount

IsBuyout(a, amount) == a.buyout > 0 /\ amount >= a.buyout

\* The bid is written with 32 bits.
HandleAuctionPlaceBid(p) ==
    \E a \in auctions, amount \in Amounts :
        LET outbid == OutbiddedMail(a, p, nextMail)
            raised == [a EXCEPT !.bidder = p, !.bid = amount]
        IN /\ CanBid(p, a, amount) /\ ~IsBuyout(a, amount)
           /\ outbid # {} => nextMail <= MaxMails
           /\ gold' = [gold EXCEPT ![p] = @ - Price(a, p, amount)]
           /\ auctions' = Rewrite(auctions, a, raised)
           /\ box' = Deliver(outbid)
           /\ Commit(Inserted([Saved(Last, p, gold'[p], bag[p])
                                 EXCEPT !.auctions = Rewrite(@, a, [raised EXCEPT !.bid = Low(@)])],
                              outbid))
           /\ truncated' = (truncated \/ Low(amount) # amount)
           /\ nextMail' = nextMail + Cardinality(outbid)
           /\ UNCHANGED <<online, loaded, waiting, ahead, bag, aitems, over,
                          nextAuction, crashes>>

\* The second half of HandleAuctionPlaceBid: the auction ends at once.
Buyout(p) ==
    /\ nextMail + 2 <= MaxMails
    /\ \E a \in auctions, amount \in Amounts :
        LET mails == OutbiddedMail(a, p, nextMail)
                     \cup SuccessfulMail(a, a.buyout, nextMail + 1)
                     \cup WonMail(a, p, nextMail + 2)
        IN /\ CanBid(p, a, amount) /\ IsBuyout(a, amount)
           /\ gold' = [gold EXCEPT ![p] = @ - Price(a, p, a.buyout)]
           /\ auctions' = Without(auctions, a)
           /\ aitems' = aitems \ {a.item}
           /\ box' = Deliver(mails)
           /\ Commit(Inserted(Ended(Saved(Last, p, gold'[p], bag[p]), a, Cut(a.buyout)),
                              mails))
    /\ nextMail' = nextMail + 3
    /\ UNCHANGED <<online, loaded, waiting, ahead, bag, truncated, over, nextAuction,
                   crashes>>

\* The owner takes the auction back and pays the cut, a uint32, if there is a
\* bidder.
HandleAuctionRemoveItem(p) ==
    /\ p \in online /\ nextMail + 1 <= MaxMails
    /\ \E a \in auctions :
        LET cut == IF a.bidder = None THEN 0 ELSE Low(Cut(a.bid))
            mails == OutbiddedMail(a, p, nextMail)
                     \cup {Letter(nextMail + 1, p, House, 0, a.item, 0)}
        IN /\ a.owner = p /\ a.item \in aitems /\ gold[p] >= cut
           /\ gold' = [gold EXCEPT ![p] = @ - cut]
           /\ auctions' = Without(auctions, a)
           /\ aitems' = aitems \ {a.item}
           /\ box' = Deliver(mails)
           /\ Commit(Inserted(Ended(Saved(Last, p, gold'[p], bag[p]), a, cut + Deposit),
                              mails))
    /\ nextMail' = nextMail + 2
    /\ UNCHANGED <<online, loaded, waiting, ahead, bag, truncated, over, nextAuction,
                   crashes>>

-----------------------------------------------------------------------------
\* AuctionHouseObject::Update asks the database, which may be behind.
FindExpired ==
    /\ auctions # {} /\ over = {}
    /\ over' \in SUBSET {a.id : a \in Now.auctions} \ {{}}
    /\ UNCHANGED <<mailVars, auctions, aitems, nextAuction, crashes>>

\* "if (!auction) continue;"
SkipExpired ==
    /\ \E id \in over :
        /\ \A a \in auctions : a.id # id
        /\ over' = over \ {id}
    /\ UNCHANGED <<mailVars, auctions, aitems, nextAuction, crashes>>

\* The entry is deleted before its item is read to be taken out of mAitems:
\* the item may stay there.
EndAuction ==
    /\ nextMail + 1 <= MaxMails
    /\ \E a \in auctions :
        LET mails == IF a.bidder = None THEN ExpiredMail(a, nextMail)
                     ELSE SuccessfulMail(a, a.bid, nextMail)
                          \cup WonMail(a, a.bidder, nextMail + 1)
            kept == IF a.bidder = None THEN Deposit ELSE Cut(a.bid)
        IN /\ a.id \in over /\ over' = over \ {a.id}
           /\ box' = Deliver(mails)
           /\ Commit(Inserted(Ended(Last, a, kept), mails))
           /\ auctions' = Without(auctions, a)
           /\ aitems' \in {aitems, aitems \ {a.item}}
    /\ nextMail' = nextMail + 2
    /\ UNCHANGED <<online, loaded, waiting, ahead, gold, bag, truncated, nextAuction,
                   crashes>>

\* The server stops, and what waits in the queue is lost; LoadAuctionItems,
\* LoadAuctions and SetHighestGuids start from the database.
Crash ==
    /\ crashes < MaxCrashes /\ crashes' = crashes + 1
    /\ online' = {} /\ loaded' = {} /\ waiting' = {}
    /\ ahead' = [p \in Players |-> 0]
    /\ gold' = [p \in Players |-> 0]
    /\ bag' = [p \in Players |-> {}]
    /\ box' = [p \in Players |-> {}]
    /\ durable' = <<Now>>
    /\ UNCHANGED truncated
    /\ nextMail' = Max({m.id : m \in Now.mails} \cup {0}) + 1
    /\ auctions' = Now.auctions
    /\ aitems' = {a.item : a \in Now.auctions}
    /\ over' = {}
    /\ nextAuction' = Max({a.id : a \in Now.auctions} \cup {0}) + 1

-----------------------------------------------------------------------------
MailHandler(p) ==
    /\ \/ LoginQuery(p) \/ Login(p) \/ Logout(p)
       \/ HandleGetMailList(p) \/ HandleSendMail(p) \/ HandleMailTakeItem(p)
       \/ HandleMailTakeMoney(p) \/ HandleMailReturnToSender(p)
    /\ UNCHANGED houseVars

AuctionHandler(p) ==
    \/ HandleAuctionSellItem(p) \/ HandleAuctionPlaceBid(p) \/ Buyout(p)
    \/ HandleAuctionRemoveItem(p)

Update == FindExpired \/ SkipExpired \/ EndAuction

Next ==
    \/ \E p \in Visitors : MailHandler(p) \/ AuctionHandler(p)
    \/ Update \/ Crash
    \/ Execute /\ UNCHANGED houseVars

Spec == Init /\ [][Next]_vars

-----------------------------------------------------------------------------
(* Properties.                                                             *)

TypeOK ==
    /\ online \subseteq Players /\ loaded \subseteq online /\ waiting \subseteq Players
    /\ ahead \in [Players -> Nat]
    /\ gold \in [Players -> Nat] /\ bag \in [Players -> SUBSET Items]
    /\ box \in [Players -> SUBSET Mails]
    /\ durable \in Seq(Books) /\ durable # <<>>
    /\ nextMail \in Nat /\ truncated \in BOOLEAN /\ nextAuction \in Nat /\ crashes \in Nat
    /\ auctions \subseteq Auctions /\ aitems \subseteq Items /\ over \subseteq Nat

\* Where an item can be.
Places(b, item) ==
    {<<"bag", p>> : p \in {q \in Players : item \in b.bag[q]}}
    \cup {<<"mail", m.id>> : m \in {x \in b.mails : x.item = item}}
    \cup {<<"auction", a.id>> : a \in {x \in b.auctions : x.item = item}}

\* Whenever the server stops, an item is in one bag, one mail or one auction:
\* none is there twice, and none is lost but those deleted with a mail of an
\* auction that its receiver has returned.
ItemInOnePlace ==
    \A i \in DOMAIN durable, item \in Items :
        Cardinality(Places(durable[i], item)) = IF item \in durable[i].discarded THEN 0 ELSE 1

\* Whenever the server stops, the money is with the players, in mails, in the
\* bids and deposits, or has been paid to the house or deleted with a mail of
\* an auction that was returned: as long as no amount was cut to 32 bits.
Total(f) == MapThenSumSet(LAMBDA x : f[x], DOMAIN f)
Posted(mails) == Total([m \in mails |-> m.money])
Staked(entries) == Total([a \in entries |-> a.bid + Deposit])
Worth(b) == Total(b.gold) + Posted(b.mails) + Staked(b.auctions) + b.sunk
MoneyConserved ==
    ~truncated => \A i \in DOMAIN durable : Worth(durable[i]) = Gold * Cardinality(Players)

\* What the players in the world have and see is what will be saved: nobody
\* takes out of the box what the database says is gone already, and nobody buys
\* what it says is sold.  Amounts agree as long as none was cut to 32 bits.
Unpriced(mails) == {[m EXCEPT !.money = 0, !.cod = 0] : m \in mails}
Unbid(entries) == {[a EXCEPT !.bid = 0] : a \in entries}
MemoryIsSaved ==
    /\ \A p \in online : bag[p] = Last.bag[p]
    /\ \A p \in loaded : Unpriced(box[p]) \subseteq Unpriced(Last.mails)
    /\ Unbid(auctions) = Unbid(Last.auctions)
    /\ {a.item : a \in auctions} \subseteq aitems
    /\ ~truncated =>
        /\ \A p \in online : gold[p] = Last.gold[p]
        /\ \A p \in loaded : box[p] \subseteq Last.mails
        /\ auctions = Last.auctions
=============================================================================
