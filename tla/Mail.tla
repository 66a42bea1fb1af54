-------------------------------- MODULE Mail --------------------------------
(* Players, their mails and the database of the characters, which is       *)
(* written asynchronously.  Every handler changes the players in memory and *)
(* enqueues one transaction; one worker executes the queue in order.       *)
(* durable is what the database holds now, followed by what it will hold   *)
(* after each transaction of the queue.  Money has 64 bits, and some of the *)
(* code cuts it to 32: HalfWord stands for 2^31.                           *)
EXTENDS Integers, Sequences, FiniteSets

CONSTANTS
    Players,
    Visitors,   \* those of them who log in; the others are away all the time
    House,      \* the sender of the mails of an auction
    None,       \* no item, no player
    Items,
    Prices,     \* amounts of money that players send or ask for
    Postage,    \* the cost of a mail
    HalfWord,   \* one more than the largest int32
    MaxMoney,   \* MAX_MONEY_AMOUNT
    MaxMails,   \* bound on the mails
    MaxLetters, \* bound on those that players write
    MaxLag      \* bound on the transactions that wait

ASSUME PlayersAssumption ==
    /\ None \notin Players \cup Items /\ House \notin Players /\ Visitors \subseteq Players
    /\ IsFiniteSet(Players)
ASSUME PricesAssumption == Prices \subseteq Nat \ {0} /\ Postage \in Nat
ASSUME WordsAssumption == HalfWord \in Nat \ {0} /\ MaxMoney \in Nat
ASSUME MailBoundsAssumption == MaxMails \in Nat /\ MaxLetters \in Nat /\ MaxLag \in Nat

VARIABLES
    online,     \* players in the world
    loaded,     \* those whose mails are loaded, m_mailsLoaded
    waiting,    \* players whose login queries are in the queue
    ahead,      \* how many transactions are before them
    gold, bag,  \* the players' money and items
    box,        \* m_mail
    durable,    \* the database, now and after each transaction
    nextMail,   \* _mailId
    truncated   \* an amount was charged or stored that is not the one meant

mailVars == <<online, loaded, waiting, ahead, gold, bag, box, durable, nextMail, truncated>>

Mails == [id : Nat, to : Players, from : Players \cup {House}, money : Nat,
          item : Items \cup {None}, cod : Nat]
Letter(id, to, from, money, item, cod) ==
    [id |-> id, to |-> to, from |-> from, money |-> money, item |-> item, cod |-> cod]

\* What is left of an amount in a uint32.
Word == 2 * HalfWord
Low(n) == n % Word
\* "-int32(n)": the negation of the smallest int32 is undefined, and either
\* wraps or is made after the widening to 64 bits.
Charges(n) == {k \in {-Low(n), Word - Low(n)} : k \in -HalfWord..HalfWord}

\* ModifyMoney.  MAX_MONEY_AMOUNT less the amount is a uint64: it wraps.
Fits(money, n) == n > MaxMoney \/ money + n < MaxMoney
Spent(money, n) == IF money > n THEN money - n ELSE 0
Modified(money, n) ==
    IF n < 0 THEN Spent(money, -n) ELSE IF Fits(money, n) THEN money + n ELSE money

Now == durable[1]
Last == durable[Len(durable)]

Commit(b) == Len(durable) <= MaxLag /\ durable' = Append(durable, b)

\* SaveInventoryAndGoldToDB.
SavedGold(b, p, money, items) == [b EXCEPT !.gold[p] = money]
Saved(b, p, money, items) == [b EXCEPT !.gold[p] = money, !.bag[p] = items]
Inserted(b, mails) == [b EXCEPT !.mails = @ \cup mails]
\* _SaveMail writes the amounts of a mail that has changed with 32 bits.
Narrow(m) == [m EXCEPT !.money = Low(@), !.cod = Low(@)]
Rewrite(entries, e, new) == {IF x.id = e.id THEN new ELSE x : x \in entries}
\* The mails after something was taken out of m, which leaves new and is
\* written as row: who carries nothing any more is left out of the model.
Lighten(mails, m, new, row) ==
    IF new.item = None /\ new.money = 0 THEN {x \in mails : x.id # m.id}
    ELSE Rewrite(mails, m, row)
\* Who is in the world and has looked at the mails gets new ones at once.
Deliver(mails) == [p \in Players |-> box[p] \cup {m \in mails : m.to = p /\ p \in loaded}]

-----------------------------------------------------------------------------
\* LoadFromDB waits for a query that goes through the queue.
LoginQuery(p) ==
    /\ p \notin online \cup waiting
    /\ waiting' = waiting \cup {p}
    /\ ahead' = [ahead EXCEPT ![p] = Len(durable) - 1]
    /\ UNCHANGED <<online, loaded, gold, bag, box, durable, nextMail, truncated>>

\* LoadFromDB: nobody has more than MAX_MONEY_AMOUNT.
LoginAtOnce(p) ==
    /\ p \in waiting
    /\ waiting' = waiting \ {p} /\ online' = online \cup {p}
    /\ gold' = [gold EXCEPT ![p] = IF Now.gold[p] > MaxMoney THEN MaxMoney ELSE Now.gold[p]]
    /\ bag' = [bag EXCEPT ![p] = Now.bag[p]]
    /\ truncated' = (truncated \/ Now.gold[p] > MaxMoney)
    /\ UNCHANGED <<loaded, ahead, box, durable, nextMail>>

Login(p) ==
    /\ p \in waiting /\ ahead[p] = 0
    /\ waiting' = waiting \ {p} /\ online' = online \cup {p}
    /\ gold' = [gold EXCEPT ![p] = IF Now.gold[p] > MaxMoney THEN MaxMoney ELSE Now.gold[p]]
    /\ bag' = [bag EXCEPT ![p] = Now.bag[p]]
    /\ truncated' = (truncated \/ Now.gold[p] > MaxMoney)
    /\ UNCHANGED <<loaded, ahead, box, durable, nextMail>>

\* SaveToDB; the player is deleted.
Logout(p) ==
    /\ p \in online
    /\ Commit(Saved(Last, p, gold[p], bag[p]))
    /\ online' = online \ {p} /\ loaded' = loaded \ {p}
    /\ gold' = [gold EXCEPT ![p] = 0]
    /\ bag' = [bag EXCEPT ![p] = {}]
    /\ box' = [box EXCEPT ![p] = {}]
    /\ UNCHANGED <<waiting, ahead, nextMail, truncated>>

\* The worker of the database executes the first transaction.
Execute ==
    /\ Len(durable) > 1
    /\ durable' = Tail(durable)
    /\ ahead' = [p \in Players |-> IF ahead[p] > 0 THEN ahead[p] - 1 ELSE 0]
    /\ UNCHANGED <<online, loaded, waiting, gold, bag, box, nextMail, truncated>>

-----------------------------------------------------------------------------
\* _LoadMail asks the database itself and does not wait for the queue.
HandleGetMailList(p) ==
    /\ p \in online \ loaded
    /\ loaded' = loaded \cup {p}
    /\ box' = [box EXCEPT ![p] = {m \in Now.mails : m.to = p}]
    /\ UNCHANGED <<online, waiting, ahead, gold, bag, durable, nextMail, truncated>>

HandleSendMail(p) ==
    /\ p \in online /\ nextMail <= MaxLetters
    /\ \E q \in Players \ {p}, item \in bag[p] \cup {None}, money, cod \in Prices \cup {0} :
        LET mail == Letter(nextMail, q, p, money, item, cod)
        IN /\ item # None \/ (money > 0 /\ cod = 0)
           /\ gold[p] >= Postage + money
           /\ gold' = [gold EXCEPT ![p] = @ - Postage - money]
           /\ bag' = [bag EXCEPT ![p] = @ \ {item}]
           /\ box' = Deliver({mail})
           /\ Commit([Inserted(Saved(Last, p, gold'[p], bag'[p]), {mail})
                        EXCEPT !.sunk = @ + Postage])
    /\ nextMail' = nextMail + 1
    /\ UNCHANGED <<online, loaded, waiting, ahead, truncated>>

\* The item is paid for, if it has to be, with a mail to the sender.
HandleMailTakeItem(p) ==
    \E m \in box[p] : \E change \in Charges(m.cod) :
        LET taken == [m EXCEPT !.item = None, !.cod = 0]
            payment == IF m.cod > 0 THEN {Letter(nextMail, m.from, p, m.cod, None, 0)} ELSE {}
        IN /\ m.item # None /\ gold[p] >= m.cod
           /\ m.cod > 0 => nextMail <= MaxMails
           /\ gold' = [gold EXCEPT ![p] = Modified(@, change)]
           /\ bag' = [bag EXCEPT ![p] = @ \cup {m.item}]
           /\ box' = [Deliver(payment) EXCEPT ![p] = Lighten(@, m, taken, taken)]
           /\ Commit(Inserted([Saved(Last, p, gold'[p], bag'[p])
                                 EXCEPT !.mails = Lighten(@, m, taken, Narrow(taken))],
                              payment))
           /\ nextMail' = nextMail + Cardinality(payment)
           /\ truncated' = (truncated \/ change # -m.cod \/ Narrow(taken) # taken)
           /\ UNCHANGED <<online, loaded, waiting, ahead>>

HandleMailTakeMoney(p) ==
    \E m \in box[p] :
        LET taken == [m EXCEPT !.money = 0]
        IN /\ m.money > 0 /\ Fits(gold[p], m.money)
           /\ gold' = [gold EXCEPT ![p] = @ + m.money]
           /\ box' = [box EXCEPT ![p] = Lighten(@, m, taken, taken)]
           /\ Commit([Last EXCEPT !.gold[p] = gold'[p],
                                  !.mails = Lighten(@, m, taken, Narrow(taken))])
           /\ truncated' = (truncated \/ Narrow(taken) # taken)
           /\ UNCHANGED <<online, loaded, waiting, ahead, bag, nextMail>>

\* The old mail goes.  If a player wrote it, a new one brings what is in it
\* back, without its price; what an auction has sent is gone.
HandleMailReturnToSender(p) ==
    \E m \in box[p] :
        LET back == IF m.from \in Players
                    THEN {Letter(nextMail, m.from, p, m.money, m.item, 0)} ELSE {}
            lost == IF back = {} THEN m.money ELSE 0
            gone == IF back = {} THEN {m.item} \ {None} ELSE {}
        IN /\ back # {} => nextMail <= MaxMails
           /\ box' = [Deliver(back) EXCEPT ![p] = {x \in @ : x.id # m.id}]
           /\ Commit([Last EXCEPT !.mails = {x \in @ : x.id # m.id} \cup back,
                                  !.sunk = @ + lost, !.discarded = @ \cup gone])
           /\ nextMail' = nextMail + Cardinality(back)
           /\ UNCHANGED <<online, loaded, waiting, ahead, gold, bag, truncated>>
=============================================================================
