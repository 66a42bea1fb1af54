# TLA+ models of the LegionLegacy server

LegionLegacy is a server for one version of an online game: a world server
(`src/server/worldserver`, `src/server/game`, `src/server/scripts`), a Battle.net
login server (`src/server/bnetserver`), what both share (`src/server/shared`,
`src/server/database`), and a base library (`src/common`). Paths below start at the
repository's `src/`. This directory holds TLA+ modules of the parts where the order of
events is the difficulty, the TLC configurations that check them, and proofs that
TLAPS checks.

    tlc -workers 2 -config DatabaseWorkerPool.cfg MCDatabaseWorkerPool
    tlapm DatabaseWorkerPool_proofs.tla

`PROJECT.json` lists, for every definition, the lines it stands for, for every run its
properties, and for every property a plausible mistake in the code (a mutant operator in
the module) with which TLC finds it violated.

## 1. Inventory

The threads: the world thread (`World::Update` every few milliseconds), one update
thread per map (`Map::UpdateLoop`), some of them with a pool of workers, some network threads,
the workers of three database pools, the thread of the command line, and a main thread
that starts and stops everything. They share memory and locks; nothing is sent between
processes but SQL and the packets of the clients.

| component | state | operations | interacts through | what is hard | what makes it correct |
|---|---|---|---|---|---|
| `ProducerConsumerQueue`, `DatabaseWorkerPool`, `DatabaseWorker` (`common/Threading`, `common/Database`) | one queue of raw pointers for all asynchronous connections, a condition variable, a token and a handle per connection | Open, Enqueue, WorkerThread, Close, destructors | game threads enqueue, workers pop, main thread opens and closes | wakeups, closing while workers wait or operate, Open that fails half way | one owner per operation, no lost wakeup, Close returns, execution in order |
| `MySQLConnection`, `Transaction` | the session on the server, the handle | ExecuteTransaction, retries, reconnection | called by a worker or synchronously | deadlocks, rejected statements, a connection lost at any command | all or nothing, the caller is told the truth, a clean session |
| `QueryCallback`, `QueryHolder` | futures and chains of callbacks | polled by the world and the maps | workers set the futures | chains, futures nobody sets | callbacks in order and once |
| `Socket`, `WorldSocket` send path (`server/shared/Networking`, `game/Server`) | `_bufferQueue`, `_writeQueue`, `_isWritingAsync`, `_closing`, `_closed` | SendPacket, Update, HandleQueue, DelayedCloseSocket, CloseSocket, completion handlers | any thread sends, one network thread writes | partial writes, two callers of HandleQueue, closing with data left | a packet is sent once and in order; a socket asked to close closes, after its data |
| `NetworkThread`, `SocketMgr`, `AsyncAcceptor` | lists of new and of running sockets | accept, add, remove | main and network threads | two acceptors and one accept socket | every socket has one thread |
| `WorldSocket` authentication | states of the handshake and two connections | handshake, AuthSession, ContinuedSession | database callbacks, `World::AddSession` | a close between query and callback | only authenticated clients become sessions |
| `World` sessions and login queue | `addSessQueue`, `m_sessions`, `m_QueuedPlayer`, `m_sessionCount`, `m_disconnects` | AddSession_, AddQueuedPlayer, RemoveQueuedPlayer, UpdateSessions, KickAll | network threads construct sessions, world thread admits them | reconnection, closed sockets, a counter without a lock | limit respected, nobody forgotten |
| `WorldSession` packets | `_recvQueue`, `m_sUpdate`, `m_map`, the lists of the world and of every map | QueuePacket, Update, UpdateSessions, login, logout, the teleports | the world's thread, the threads of two maps, the client, the database | three threads look at one session; packets put back; a handler that moves the session | one thread at a time, in order, never forgotten, destroyed in the end |
| `Map`, `ThreadPoolMap`, `SynchronizedQueue`, `MapManager` | requests and their count, b_isMapStop, b_isMapUnload | schedule, wait, stop, UpdateLoop, UnloadAll | map thread, its workers, the world's thread at the shutdown | two waiters, phases, exceptions, a deleted map | phases do not overlap, wait means done, no use after the end |
| Trades (`Handlers/TradeHandler.cpp`, `TradeData`) | `m_trade` of two players, the bags, the money | eleven handlers | two sessions | acceptances taken back or not, storing that fails half way | what moves was accepted; nothing is lost |
| Dungeon finder, battleground queues | states of players and groups, timers | join, propose, answer, expire | world thread, maps | answers that race timeouts | no player in two places |
| Auction house, mail (`game/AuctionHouse`, `game/Mails` and their handlers) | `AuctionsMap`, `mAitems`, `m_mail`, bags and money; the same in the database | sell, bid, buy out, cancel, expire; send, list, take, return | handlers enqueue transactions; the list of mails and the expired auctions are read from the database itself | memory ahead of the database, a crash between them, two reads that go past the queue | an item is in one place, the money adds up, what is seen is what gets saved |
| Instances, groups, guilds, spells, AI and others | | | | rules of the game | |

`PROJECT.json` has every component with its files and the reason when it is not
modelled, and under `hazards` the places in this code that are hard to test.

## 2. What is modelled

### DatabaseWorkerPool, ProducerConsumerQueue, AsyncExecution

`ProducerConsumerQueue` has the queue (`queue`, `shutdown`, `sleeping` for who is blocked
on the condition variable) with `Push`, `WaitPop` and `Cancel`; a step is what a mutex
protects. `DatabaseWorkerPool` adds the worker threads (`workerPc`: in WaitAndPop, between
the pop and the test of the token, in `call`), the connections, and the main thread that
opens, closes and destroys the pool. Undefined behaviour is a step `Crash` where the code
can reach it: `mysql_close` on a handle a worker is using, a queue deleted under its
workers. Submitting is allowed whenever game threads may still do so. An operation is
executed at most once, but what it does with MySQL is left to `SqlTransaction`.

`AsyncExecution` is what the game threads may rely on: operations are taken in submission
order, at most `MaxInFlight` at a time, and are dropped only once the pool closes. The
pool is shown to implement it with `Async`: the queue is `pending`, the workers' local
variables `inFlight`.

### SqlTransaction, AtomicTransaction

One connection and the session the server keeps for it. A step is one command
(START TRANSACTION, a statement, ROLLBACK, COMMIT) with what `Execute`,
`_HandleMySQLErrno` and `ExecuteTransaction` make of its answer. The server is external:
a session has at most one open transaction; a deadlock rolls it back; a lost connection
loses it, and a new one is in autocommit. Statements are counted, so that "executed
twice" and "executed outside of the transaction" are visible in `durable`.

`AtomicTransaction` says: effects appear in one step, success is reported only after it,
failure only without it, and nothing is promised of a lost connection.

### Socket

The sending and closing side in the build without IOCP. `Update` is split where another
thread can come between (`BaseUpdate`, `HandleQueue` per buffer); `write_some` takes any
number of packets, a write that would block leaves `isWriting` and a completion handler.
Two sizes of buffers make packets that fit, that do not, and that need a buffer of their
own. The bytes, compression and encryption are left out.

### LoginQueue

Network threads construct sessions, the world thread takes them in
(`StartAdding`, `FinishAdding` are two halves of `AddSession_`, between which the counter
can change), `StartErasing`/`FinishErasing` are the removal in `UpdateSessions`. The
counter is modelled as the plain integer it is: an increment or decrement of another thread
can be lost (`lost`, bounded by `MaxLost`), and it wraps at `Width`.

### Trade

Every handler of `TradeHandler.cpp` with the setters of `TradeData` it calls. Bags are
places, and some items may be held once only (`Unique`), so that a trade can find no room
for an item while it stores another. `Elsewhere` is what happens to a player besides: he
earns or spends, an item expires, becomes bound or locked. `agreed` is a history variable:
what was in both windows when a player accepted.

### ThreadPoolMap, MapThreads

`ThreadPoolMap` is the pool with the queue below it. `pop` is two steps (`Check`, `Block`),
because `freeze` does not take the mutex: the notification can come between. `MapThreads`
adds the map thread (the phases of `Map::Update`: cells of even and odd rows and columns,
then the data for clients) and `MapManager::UnloadAll`, which stops, unloads and deletes the
map while its thread runs. Once the map is deleted the model of its thread ends (`Freed`):
anything might happen. Two flags are read where the code reads them. An exception is possible
where requests have been scheduled and not yet waited for.

### WorldSession

One session and the threads that may update it: `World` is the world's thread and the
null `m_map`, the others are maps with their threads. `Update` is split at every place
where another thread's step can change what it has read: the look at `m_sUpdate`
(`TestBusy`), the write (`SetBusy`), each packet (`Take` with a handler), the return of the
packets that came too early (`LeaveLoop`), the callbacks of queries (`HandlePlayerLogin`,
`HandOver`), the clean-up (`Finish`, `Dead`). `GoOn` is the test of `GetMap()` between the
sections. `SafeTeleport` and `ZoneTeleport` are the steps that give the session to another
map, from a handler (`ret = "loop"`) or from `Map::Update` (`ret = "idle"`). The handlers are
kinds: a packet of the game, one that teleports, a logout, the login, the two answers to
loading screens. `clash` is a history variable: the player was deleted, or teleported again,
while a teleport of his was under way on some thread. The code has no answer to that (the
second `SetMap` overwrites the first, the first thread goes on with a deleted player), and
the properties exclude it by name.

### Mail, AuctionHouse

`durable` is the database of the characters: what it holds now and what it will hold after
each transaction that waits, so that a crash is simply the loss of all but the first
(`Crash`). A handler is a step: it checks, changes the memory, and enqueues one transaction
(`Commit`), which is atomic (that is what `SqlTransaction` shows). One worker executes them in
order, as `CharacterDatabase.WorkerThreads = 1`, the default, does. Two reads do not wait for
that queue: `_LoadMail` (`HandleGetMailList`) and the query for expired auctions
(`FindExpired`). The login does wait (`ahead` counts the transactions before its query), and
everything depends on it. `AuctionHouse` adds the four handlers, `World::Update`, which ends
one auction of a result it got earlier at a time (`EndAuction`, `SkipExpired`), and the start
of the server (`Init`, `Crash`: `LoadAuctionItems`, `LoadAuctions`, `SetHighestGuids`).

`HandleMailReturnToSender` tests only that the client names the sender the mail has. It
always deletes the mail, and sends its content back only if a player wrote it: a mail of an
auction that is returned is deleted with its item (`discarded`) and its money, which goes to
`sunk`, as what the house keeps does.

Money has 64 bits, and the model cuts it to 32 where the code does: the price of a mail
paid on delivery is charged as an `int32` and credited in full, a deposit is charged as an
`int32` (`Charges`, `Modified`), `_SaveMail` and a bid are written with 32 bits (`Narrow`,
`Low`), the cut of a cancelled auction is a `uint32`. `HalfWord` is 2^31. `Fits` and `Login`
have `MAX_MONEY_AMOUNT`. The history variable `truncated` says that one of them changed an
amount that was stored or charged. The cut of a cancelled auction does not set it: a
smaller one is charged and the same is kept.

A mail that carries nothing is not kept. A mail under way may be opened or not, so its delay
has no clock. Left out: `ReturnOrDeleteOldMails` and deletion, `HandleMailMarkAsRead` (it
marks a mail that is then written with 32 bits too, though nothing was taken from it), donated
mails (which cannot be returned), the sale of a part of a stack (`CloneItem`), the bot,
starting bids, the notices of a sale that is pending, the rate and the floats of the cut;
gold comes from nowhere else.

## 3. What the runs show

| run | module | bounds | result |
|---|---|---|---|
| `pool` | MCDatabaseWorkerPool | 2 connections, 3 operations | passes |
| `pool_close_saves` | | 2 connections, 2 operations | `SavesAreExecuted` violated |
| `trans` | MCSqlTransaction | 3 statements, 2 transactions, 2 losses, all faults | passes |
| `trans_success` | | the same, lost connections only | `SuccessMeansDurable` violated |
| `socket` | MCSocket | 3 packets of two sizes, buffers of 1 and 2 | passes |
| `socket_delayed_close` | | the same | `DelayedCloseCloses` violated |
| `login` | MCLoginQueue | 3 sessions of 2 accounts, limits 1 and 2, one lost update | passes |
| `trade` | MCTrade | 2 players, 3 items, 2 places each, money 0..2, one event | passes |
| `maps` | MCMapThreads | 3 workers, 2 phases and the data, 2 requests each, one exception | passes |
| `session` | MCWorldSession | the world and 2 maps, 2 packets of the game, one teleport, one exception | passes |
| `auction` | MCAuctionHouse | 2 players and one who is away, one item, gold 5, a word of 4, 3 mails, one of a player's, 2 auctions, one crash, 2 transactions behind | passes |
| `auction_won` | | the same with `LogTrade = FALSE` | `ItemInOnePlace` violated |

**pool.** Raw pointers have one owner (`SingleOwner`), no wakeup is lost or stolen
(`WorkConserving`), `Close` cannot hang on a worker that sleeps (`NoSleeperAfterCancel`,
`CloseTerminates`), operations run in order and are executed
(`ImplementsAsyncExecution`, `OperationsAreExecuted`). Two workers are the least with which
a wakeup can go to the wrong one and a close can meet another's wait; three operations are
one more than workers, so that the queue is not empty while all are busy. The first
connection's destructor cancels the shared queue, hence `SavesAreExecuted` fails: the
saves `KickAll` enqueues at the shutdown are deleted if the workers are not quick enough.

**trans.** `AllOrNothing`, `ResultIsTruthful`, `SessionClean`, `Terminates` and the
refinement hold under every mixture of deadlocks, rejected statements and failed
reconnections, for transactions whose connection lived. Three statements give a first, a
middle and a last; two transactions show what the first leaves to the second; the number
of retries is the code's own. `SuccessMeansDurable` fails: after a reconnection only the
current statement is repeated and the COMMIT of nothing is reported as a success.

**socket.** `InOrder`, `OneWriter` and `PacketsAreDelivered` are about the stream,
`DelayedCloseDelivers` and `ClosingEnds` about the end.
A delayed close of a socket with nothing to write never closes it (`DelayedCloseCloses`).

**login.** `QueueOK` and `HeldBack` relate the queue, the world and the flag;
`LimitRespected` is exact: the limit is exceeded by lost updates of the counter and by
tolerated disconnections and by nothing else. `OthersFillTheServer` says that nobody queues
while there are fewer others than the limit. `IsServed` is the liveness, of those who wait
and of those who go. With three sessions of two accounts one account can log in again while its older
session waits or plays and another account competes for the place.

**trade.** `TradersPaired`, `MovesWhatWasAccepted`, `NothingLost`: with two places for
three items, some of which may be held once only, `CanStoreItems` does refuse trades both
have accepted. What the code does when it then fails to store an item after all is in the
model (`GiveBack`) and is never needed: `MoveItemsIs` of `Trade_proofs` shows why.

**maps.** `PhasesSeparated` (objects of two phases are never updated at once, and none
while the sessions are), `WaitMeansDone`, `WaitReturns`. Three workers
and two requests per phase make workers that sleep while others run; the map thread and the
world thread can wait on the same condition variable.

**session.** `OneUpdater`: the flag is tested and set in two steps, and the model has them
apart; it is `m_map` and the hand-over that keep two threads from being in `Update` at once.
`NotLost`: the thread that `m_map` names has the session, or will find it in its queue, or
the thread that moves it is about to put it there. `InOrder`: packets that were put back are
handled before those that came later, across threads, until two threads teleport the player at once. `DisconnectedIsDestroyed`: whatever
the session is in the middle of when its client goes, it leaves all lists and its character
the game, unless an exception left `m_sUpdate` set or a clash occurred. Two maps are needed
for a hand-over between maps that both run, and one teleport with a login and a logout
gives three; two packets of the game are one that is put back and one behind it. The safety
properties were also checked with two teleports (686,309 states).

**auction.** `ItemInOnePlace` and `MoneyConserved` speak of every book in `durable`, that is of
what a crash may leave at any moment. An item is in one place, or it was deleted with a mail
of an auction that was returned, and is in none. The money adds up as long as no amount was
cut (`truncated`); with the cuts it does not, and nothing is claimed. `MemoryIsSaved` is why
both hold: what the players in the world have, what they see in their mailboxes and the
auctions are what the database will hold; items, mails and auctions always, amounts until the
first cut.

Two visitors are a seller and a buyer, or two bidders; the player who is away is a bidder of
an earlier run and the addressee of what nobody opens. `MaxLag` is 2: with 1 a login
never finds a transaction between its own and the end of the queue. One item is enough for
what is said of each item by itself; three mails are an outbid bidder, the seller and the
winner, or one that is sent on. With a word of 4 the amount 4 is cut, 2 is the price whose
negation is undefined, and 1 is safe: a bid, a price and the money left in a mail occur with
a cut and without one. The deposit is 1 and is never cut, and nobody gets above
`MAX_MONEY_AMOUNT`; these two are for the theorems only. A crash needs `nextMail` and `nextAuction` to start again from what the database has.

`auction_won`: with `GM.LogTrade = 0`, an option described as one of a log, an auction won by
a player who is away ends without a mail for him; the entry of the item is erased and the
auction deleted, and no bag, mail or auction of the database has the item any more.

The four violations are under `findings`, each with the line of a comment, of the code or of
the configuration that says otherwise.

Seen while modelling, in the models, and without a line that says otherwise:
- `SynchronizedQueue::freeze` can miss a worker between its look at the flag and its wait;
  `ThreadPoolMap::stop` then joins for ever. In `MapThreads` the world thread stays in
  `"joining"`; this is also why `CHECK_DEADLOCK` is off there.
- An exception between the scheduling of the data and `wait` lets requests run into the
  next round (`Throw`), which is why `PhasesSeparated` is about a map that caught none.
- Disconnections are tolerated for ever: `difftime(stored, now)` is never positive.
- `TradeData::SetMoney` keeps an amount the player does not have without taking acceptances
  back, and `HandleAcceptTrade` returns at an untradable item with one's own side accepted.
- `mysql_close` may close a handle its worker is operating on.
- A place that gets free while a session only authenticates is not given to the first of the
  queue: nobody looks at it again when such a session disappears (`LoginQueue`).
- `MapManager::UnloadAll` sleeps for a second where a comment says it waits, deletes the maps,
  and joins their threads afterwards; in `MapThreads` the map is freed while its thread is in
  `UpdateLoop`.
- The comment in `WorldSession::Update` says that packets that came too early go to the bottom
  of the queue; `readd` puts them in front, and `InOrder` depends on that.
- A player who logs out while another thread is in `SafeTeleport` for him is deleted under it;
  two teleports at once leave `IsChangeMap` set; a `CanEnter` that refuses leaves a player who
  is in no map and whom no thread updates. These are the `clash` and the `left` branch of
  `HandleWorldPortAck` in `WorldSession`.
- An exception that is not one of the two `Update` catches leaves `m_sUpdate` set; the session
  is kicked but never updated again, so it is not destroyed.
- A mail of an auction that its receiver returns is deleted with its item and its money
  (`MailHandler.cpp:390`). The comment before the test speaks only of a sender who does not
  exist; `Mail.h:50` says that a returned mail cannot be returned again, and the handler does
  not look at `checked`.
- A price above 2^31 pays the taker instead of charging him, and what is mailed to the sender
  is the full price (`MailHandler.cpp:494,496`).
- `AuctionHouseObject::Update` deletes the auction and then reads its item to take it out of
  `mAitems`: it may stay there.
- `worldserver.conf.dist:193` excludes staff from the limit, `m_sessionCount` does not.

Deadlock is checked in `pool` and `pool_close_saves`. In the others it is off: the
connection stops after its bounded transactions, a removed socket, a map that was deleted
and the bounded sessions and events do stop.

## 4. Fairness

- `DatabaseWorkerPool`: weak fairness of each worker's `Progress` and of the main thread's steps.
  A thread that can run is scheduled, an SQL command ends. Nobody has to submit or to close.
- `SqlTransaction`: weak fairness of the connection's `Step`: a command is answered, by an
  error if need be.
- `Socket`: weak fairness of the timer that calls `Update` and of senders past their test;
  strong fairness of the completion handlers, which are enabled only between two updates:
  the io_service runs a ready handler before it comes back to its timer again. For a pending
  write this assumes a peer that reads or goes away, which is the network's part.
- `LoginQueue`: weak fairness of the world thread's loop (it goes through all sessions), of the
  database callback and of the destruction of a session nobody holds. Clients and the limit
  are free.
- `MapThreads`: weak fairness of workers, of the map thread without its crashes and exceptions, and of
  the unloading once it began. A mutex is not fair by itself; the steps of the map thread that
  need one compete with finitely many requests.
- `WorldSession`: weak fairness of each thread's own steps (`UpdateSessions`, `Update`, the rest of a
  teleport, taking a player off the map) and of the database's answer. The world's loop and
  those of the maps go round for ever, and visit every session they list. Packets, teleports,
  exceptions and the disconnection are free.
- `Trade`, `AuctionHouse` have no liveness: players may do nothing, and the time at which an
  auction ends is not modelled.

## 5. What is proved

The theorems hold for all values of the constants under the `ASSUME`s of the modules.

- **`DatabaseWorkerPool_proofs`**: `TypeOK`; `SingleOwner` from `Ownership` (queued
  operations are fresh, distinct and held by nobody; held ones are not deleted; counters are
  at most one); `WorkConserving` and `NoSleeperAfterCancel` from `Wakeups` (who sleeps is in
  WaitAndPop and the queue is not cancelled), with the cardinality of `Alert` followed step by
  step; `ImplementsAsyncExecution` from those and `TokensClose` (a token is set only while
  closing), step by step: every action is a step of `AsyncExecution` or leaves its variables.
- **`SqlTransaction_proofs`**: `IInv == TypeOK /\ SessionInv /\ ClientInv /\
  (~reconnected => EffectsInv)`. `EffectsInv` is what the code relies on without saying it:
  while statements are sent, the open transaction holds exactly the statements before the
  iterator and nothing is durable. `AllOrNothing`, `ResultIsTruthful` and `SessionClean` do
  not imply themselves one step later, it does. Then the refinement of `AtomicTransaction`.
- **`LoginQueue_proofs`**: `IInv == TypeOK /\ KeysOK /\ ArrivalsOK /\ OpenOK /\ QueueOK /\
  HeldBack`. Sessions under way are new and distinct, a session is filed under its account,
  and an admitted session with a socket stays in the world: without these a session could be
  handed over or queued a second time. For `LimitRespected` and `OthersFillTheServer`,
  `CountOK`: `m_sessionCount` is, up to a multiple of its width, a number that differs from
  the number of objects by at most the lost updates and never exceeds the sessions ever made.
  So whoever reads it learns a lower bound, also after an underflow; each of the four readers
  is then a count of those who neither wait nor leave. Assumes fewer sessions than the width.
- **`Trade_proofs`**: `TradersPaired` from `WindowsOK`, the types of the windows. The other
  two need `GoodsInv`: no item lies in two slots (`SlotsDistinct`), what lies in a window is
  its player's or gone (`OwnInWindow`), nobody holds two of what one may hold once
  (`OneOfUnique`), and what an accepting player remembers is what is shown (`AgreedIsShown`).
  The heart is `MoveItemsIs`: if `CanStoreItems` found room for all of both sides, then after
  n rounds the items of the first n slots have changed hands and no round gave anything back
  (`CanGive`: what has arrived, with what is to come, is what was counted). Hence
  `MovesWhatWasAccepted` and, with the tests of the money before it (`CompleteIs`),
  `NothingLost`. Assumes that players start within the room of their bags and purses.
- **`Socket_proofs`**: `IInv == Types /\ InOrder /\ OneWriter /\ PromiseTaken`. That packing
  keeps the order for any sizes is `FoldPacks`: after n packets the buffers made, with the
  current one, are the first n packets, whichever branch of `Pack` was taken. A partial write
  or the removal of the first buffer moves packets from the queue to the wire (`WritesKeep`).
  `PromiseTaken` is what a delayed close relies on: what was stored before it was asked for has
  been taken out of `_bufferQueue`, or the thread is idle with no write pending, and so will
  take it with its next `Update`, before anything can be written. Without it
  `DelayedCloseDelivers` does not follow: the queue could be empty with packets left behind.
- **`MapThreads_proofs`**: `TypeOK`, `PhasesSeparated`, `WaitMeansDone`, from `IInv`:
  `requestCount` is exactly the length of the queue plus the number of running workers
  (`CountIsExact`), and what is pending is of the current phase as long as no exception came.
- **`WorldSession_proofs`**: types in five parts, each kept by every step. For `OneUpdater`:
  `clash`, or the player is updated by whoever his map says (`FollowsMap`), one thread
  teleports (`TeleportAlone`) and one updates (`UpdatesAlone`): `m_sUpdate` is tested before
  it is set, so it is not what keeps the threads apart; the place of the player is. For
  `NotLost`: a destroyed session has no socket (`DeadHasNoSocket`). For `InOrder`: `Ordered`,
  what is to be put back comes before the queue and after the last packet handled, and
  `Requeued`, packets wait to be put back only in the loop and while no character is in the
  game, so nothing is handled meanwhile. The last needs `OneUpdater`'s invariant, hence the
  exception for a clash in both.
- **`AuctionHouse_proofs`**: `IInv == TypeOK /\ BooksGood /\ BooksBalanced /\ OnlineSaved /\
  UnloadedCurrent /\ WaitingCurrent /\ BoxSaved /\ HouseSaved`. A book is what the database
  says at one moment; `durable`, and every book of a transaction on the way, has unique ids
  and each item in one place, or among the discarded and in none. What is in memory agrees with
  the last of them, except for who is away: a mail in a box and an auction is one of the
  last book's but for its amounts (`Shown`, `Agree`), and the same one until the first cut.
  What a login reads is current because nothing behind its query in the queue concerns its
  player (`UnloadedCurrent`, `WaitingCurrent`). Every handler is a change of the last book
  (`CommitKeeps`), then a change of memory by the same sets (`HandlerKeeps`). That an item is
  somewhere, not only nowhere twice, assumes `LogTrade`: `auction_won` shows why.
  `MoneyConserved` is `BooksBalanced`, which says nothing once `truncated` is set: it is
  proved of the book each handler commits (a mail more or fewer, a bid replaced, a player's
  gold changed), from lemmas on sums over finite sets, and does not need `LogTrade`: only the
  item is lost with it, never the money. What is cut is any amount that does not fit, with any
  `HalfWord`; items are followed through all of it.

Functions defined by recursion, and the folds of the community modules, are a `CHOOSE` of a
function that satisfies its equation. `JoinsExist`, `PackBodyExists`, `MoveItemsIs` and
`SumExists` therefore first exhibit a function that does; what is said then is said of every
function that does. The induction in all of them is over a set of numbers, through the least
counterexample (`Least`, from `NatLessThanWellFounded`, and `Induct`): the library's
induction theorems take a predicate as a parameter, which the provers here cannot
instantiate. A sum over a set takes out an element `CHOOSE` picks; that any other
could be taken out instead is `SumAnyOrder`.

Every invariant, action property and refinement of the passing runs is the statement of a
theorem. Assumed beyond the types of constants: finitely many players (`Mail`, `Trade`'s
items), fewer sessions than the width of the counter (`LoginQueue`), and in one theorem
`LogTrade`.

Only model-checked: liveness and the fairness it needs, which are out of TLAPS's reach:
`OperationsAreExecuted` and `CloseTerminates` (`pool`), `Terminates` (`trans`),
`PacketsAreDelivered` and `ClosingEnds` (`socket`), `IsServed` (`login`), `WaitReturns`
(`maps`), `DisconnectedIsDestroyed` (`session`).

## 6. Plan

Done, in this order: DatabaseWorkerPool with AsyncExecution; SqlTransaction with
AtomicTransaction; Socket; LoginQueue; Trade; ThreadPoolMap and MapThreads; WorldSession;
Mail and AuctionHouse.

Left, the most important first:
1. `QueryCallback`: chains of callbacks over futures, composed with `AsyncExecution`, which
   drops operations when it closes.
2. `WorldSocket` authentication: composes `Socket` with the constructors of `LoginQueue`.
3. `NetworkThread` and acceptors; then the battleground queue and the dungeon finder, whose
   timeouts race answers; then the instance saves.

Theorems still worth proving: that `Socket` implements a queue from which only the front
leaves, in place of `InOrder`; that `WorldSession` implements a session one thread at a time
works on; how far `durable` is from what a crash restores, as an abstract store that loses
only a suffix.

The number of runs is kept small on purpose: a new module takes over the
place of shallower properties rather than adding to them.

## 7. What is not modelled, and why

Rules of the game (spells, auras, AI, quests, scripts), geometry (collision, pathfinding,
movement), conversions and buffers of bytes, cryptography, logging, configuration and the
loading of tables: either numeric, or content, or sequential code on tables, with no
protocol between actors. The Battle.net server has a protocol of its own and comes after
the world server. Within the modelled components, `PROJECT.json` says what is left out.
