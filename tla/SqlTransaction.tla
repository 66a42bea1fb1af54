--------------------------- MODULE SqlTransaction ---------------------------
(***************************************************************************)
(* One MySQLConnection executing transactions one after the other, as a    *)
(* TransactionTask of the worker does (caller "task") or as                *)
(* DirectCommitTransaction does ("direct"), and the session the server     *)
(* keeps for it.  A step is one command sent to the server together with   *)
(* what the connection does about its answer.                              *)
(*                                                                         *)
(* Statements are numbered by their place in m_queries; the model counts   *)
(* how often the effect of each is in the session's open transaction and   *)
(* how often it is durable.                                                *)
(***************************************************************************)
EXTENDS Naturals

CONSTANTS
    MaxStatements,     \* bound: the longest m_queries
    MaxTransactions,   \* bound: transactions one connection executes
    MaxLosses,         \* bound: connections lost
    Faults             \* what may go wrong, of {"deadlock", "duplicate", "lost", "reopen"}

ASSUME BoundsAssumption ==
    /\ MaxStatements \in Nat \ {0}
    /\ MaxTransactions \in Nat \ {0}
    /\ MaxLosses \in Nat

ASSUME FaultsAssumption == Faults \subseteq {"deadlock", "duplicate", "lost", "reopen"}

Statements == 1..MaxStatements
Nothing == [s \in Statements |-> 0]
LoopBreaker == 5

VARIABLES
    pc,             \* "idle", the command to send next, or "return"
    caller,         \* who called ExecuteTransaction
    size,           \* m_queries.size()
    next,           \* the statement the iterator is at
    retries,        \* how often ExecuteTransaction was called again
    errorCode,      \* what ExecuteTransaction is about to return
    handle,         \* m_Mysql: "open", "unprepared" (statements are missing), "null"
    inTransaction,  \* the server's session is inside a transaction
    uncommitted,    \* effects in that transaction
    durable,        \* effects of this transaction that survive
    result,         \* how the caller ended: "none", "success", "failure"
    executed,       \* transactions so far
    losses,         \* connections lost so far
    reconnected     \* the connection was lost during this transaction

clientVars == <<pc, caller, size, next, retries, errorCode, result, executed>>
serverVars == <<inTransaction, uncommitted, durable>>
faultVars == <<handle, losses, reconnected>>
vars == <<clientVars, serverVars, faultVars>>

Init ==
    /\ pc = "idle"
    /\ caller = "task"
    /\ size = 0
    /\ next = 1
    /\ retries = 0
    /\ errorCode = "none"
    /\ handle = "open"
    /\ inTransaction = FALSE
    /\ uncommitted = Nothing
    /\ durable = Nothing
    /\ result = "none"
    /\ executed = 0
    /\ losses = 0
    /\ reconnected = FALSE

-----------------------------------------------------------------------------
(* The server.                                                             *)

Plus(f, g) == [s \in Statements |-> f[s] + g[s]]
Once(s) == [Nothing EXCEPT ![s] = 1]

\* The session runs the command pc stands for.  START TRANSACTION commits what is
\* open; outside a transaction every statement commits by itself (autocommit is on).
Apply ==
    \/ /\ pc = "begin"
       /\ inTransaction' = TRUE
       /\ uncommitted' = Nothing
       /\ durable' = Plus(durable, uncommitted)
    \/ /\ pc = "statement" /\ inTransaction
       /\ uncommitted' = Plus(uncommitted, Once(next))
       /\ UNCHANGED <<inTransaction, durable>>
    \/ /\ pc = "statement" /\ ~inTransaction
       /\ durable' = Plus(durable, Once(next))
       /\ UNCHANGED <<inTransaction, uncommitted>>
    \/ /\ pc = "rollback"
       /\ inTransaction' = FALSE
       /\ uncommitted' = Nothing
       /\ UNCHANGED durable
    \/ /\ pc = "commit"
       /\ inTransaction' = FALSE
       /\ uncommitted' = Nothing
       /\ durable' = Plus(durable, uncommitted)

\* The session's transaction is rolled back: the victim of a deadlock.
RollBack ==
    /\ inTransaction' = FALSE
    /\ uncommitted' = Nothing
    /\ UNCHANGED durable

\* The session ends and rolls back, before or after it ran the command.
EndSession ==
    /\ inTransaction' = FALSE
    /\ uncommitted' = Nothing
    /\ \/ UNCHANGED durable
       \/ pc = "commit" /\ durable' = Plus(durable, uncommitted)
       \/ pc = "begin" /\ durable' = Plus(durable, uncommitted)
       \/ pc = "statement" /\ ~inTransaction /\ durable' = Plus(durable, Once(next))

-----------------------------------------------------------------------------
(* ExecuteTransaction.                                                     *)

Sending == pc \in {"begin", "statement", "rollback", "commit"}

\* What ExecuteTransaction does after Execute returned true.
Advance ==
    /\ \/ pc = "begin" /\ next' = 1 /\ pc' = "statement" /\ UNCHANGED errorCode
       \/ pc = "statement" /\ next < size /\ next' = next + 1 /\ UNCHANGED <<pc, errorCode>>
       \/ pc = "statement" /\ next = size /\ pc' = "commit" /\ UNCHANGED <<next, errorCode>>
       \/ pc = "rollback" /\ pc' = "return" /\ UNCHANGED <<next, errorCode>>
       \/ pc = "commit" /\ pc' = "return" /\ errorCode' = "none" /\ UNCHANGED next
    /\ UNCHANGED <<caller, size, retries, result, executed>>

\* Mutants of Abort: the transaction goes on; the rollback is forgotten.
IgnoreError(error) == Advance

ReturnAtOnce(error) ==
    IF pc = "statement"
    THEN /\ errorCode' = error
         /\ pc' = "return"
         /\ UNCHANGED <<next, caller, size, retries, result, executed>>
    ELSE Advance

\* What it does after Execute returned false: only the statements' result is looked
\* at, the other three go on as if the server had obeyed.
Abort(error) ==
    IF pc = "statement"
    THEN /\ errorCode' = error
         /\ pc' = "rollback"
         /\ UNCHANGED <<next, caller, size, retries, result, executed>>
    ELSE Advance

Succeed ==
    /\ Sending
    /\ handle # "null"
    /\ Apply
    /\ Advance
    /\ UNCHANGED faultVars

\* ER_LOCK_DEADLOCK: the server has rolled the transaction back.
Deadlock ==
    /\ "deadlock" \in Faults
    /\ pc = "statement" /\ handle # "null"
    /\ RollBack
    /\ Abort("deadlock")
    /\ UNCHANGED faultVars

\* ER_DUP_ENTRY, ER_WRONG_VALUE_COUNT: only this statement fails.
Duplicate ==
    /\ "duplicate" \in Faults
    /\ pc = "statement" /\ handle # "null"
    /\ Abort("duplicate")
    /\ UNCHANGED <<serverVars, faultVars>>

\* The connection is lost and _HandleMySQLErrno opens another one, on which Execute
\* sends the same command again.  m_prepareError is never reset: once preparing a
\* statement failed, Open fails too.
Reconnect ==
    /\ "lost" \in Faults
    /\ Sending /\ handle = "open"
    /\ losses < MaxLosses
    /\ EndSession
    /\ losses' = losses + 1
    /\ reconnected' = TRUE
    /\ UNCHANGED <<clientVars, handle>>

\* Open fails: there is no handle any more, or one whose statements could not be
\* prepared.  _HandleMySQLErrno calls itself with the code of that, which for no
\* handle is 0 unless the client library says otherwise, and gives up.
ReconnectFails ==
    /\ {"lost", "reopen"} \subseteq Faults
    /\ Sending /\ handle # "null"
    /\ losses < MaxLosses
    /\ EndSession
    /\ losses' = losses + 1
    /\ reconnected' = TRUE
    /\ \/ handle' = "null" /\ Abort("none")
       \/ handle' \in {"null", "unprepared"} /\ Abort("other")

\* Execute without a handle, or of a statement that was not prepared, returns false at
\* once; mysql_errno still is the code of the last call that reached the library.
NotExecuted ==
    /\ \/ Sending /\ handle = "null"
       \/ pc = "statement" /\ handle = "unprepared"
    /\ Abort("none") \/ Abort("other")
    /\ UNCHANGED <<serverVars, faultVars>>

-----------------------------------------------------------------------------
(* The callers.                                                            *)

\* CommitTransaction or DirectCommitTransaction with a transaction of n statements;
\* ExecuteTransaction returns -1 at once when there are none.
Start(c, n) ==
    /\ pc = "idle"
    /\ executed < MaxTransactions
    /\ caller' = c
    /\ size' = n
    /\ pc' = IF n = 0 THEN "return" ELSE "begin"
    /\ errorCode' = IF n = 0 THEN "empty" ELSE "none"
    /\ next' = 1
    /\ retries' = 0
    /\ result' = "none"
    /\ executed' = executed + 1
    /\ durable' = Nothing
    /\ reconnected' = FALSE
    /\ UNCHANGED <<inTransaction, uncommitted, handle, losses>>

\* Mutant of Succeeded: every error but a deadlock is taken for a skipped query.
DuplicateIsSkipped == errorCode # "deadlock"

Succeeded == errorCode = "none" \/ (errorCode = "empty" /\ caller = "task")

\* The callback of a task runs; a direct caller unlocks the connection.
ReturnSuccess ==
    /\ pc = "return" /\ Succeeded
    /\ result' = "success"
    /\ pc' = "idle"
    /\ UNCHANGED <<caller, size, next, retries, errorCode, executed, serverVars, faultVars>>

\* Mutant of MayRetry: one round too many.
MayRetryOnce == ~Succeeded /\ retries <= LoopBreaker /\ (errorCode = "deadlock" \/ retries > 0)

\* Only a first deadlock starts the loop, but then any error goes round again.
MayRetry ==
    /\ ~Succeeded
    /\ retries < LoopBreaker
    /\ errorCode = "deadlock" \/ retries > 0

\* Mutants of Retry: on the open transaction, without START TRANSACTION; uncounted.
RetryStatements ==
    /\ pc = "return" /\ MayRetry
    /\ retries' = retries + 1
    /\ pc' = "statement"
    /\ next' = 1
    /\ errorCode' = "none"
    /\ UNCHANGED <<caller, size, result, executed, serverVars, faultVars>>

RetryUncounted ==
    /\ pc = "return" /\ MayRetry
    /\ pc' = "begin"
    /\ next' = 1
    /\ errorCode' = "none"
    /\ UNCHANGED <<retries, caller, size, result, executed, serverVars, faultVars>>

Retry ==
    /\ pc = "return" /\ MayRetry
    /\ retries' = retries + 1
    /\ pc' = "begin"
    /\ next' = 1
    /\ errorCode' = "none"
    /\ UNCHANGED <<caller, size, result, executed, serverVars, faultVars>>

\* The statements are freed; nobody is told.
GiveUp ==
    /\ pc = "return" /\ ~Succeeded /\ ~MayRetry
    /\ result' = "failure"
    /\ pc' = "idle"
    /\ UNCHANGED <<caller, size, next, retries, errorCode, executed, serverVars, faultVars>>

Step ==
    \/ Succeed \/ Deadlock \/ Duplicate \/ Reconnect \/ ReconnectFails \/ NotExecuted
    \/ ReturnSuccess \/ Retry \/ GiveUp

Next ==
    \/ \E c \in {"task", "direct"}, n \in 0..MaxStatements : Start(c, n)
    \/ Step

Spec == Init /\ [][Next]_vars

\* The server answers and the thread that executes the transaction runs.
FairSpec == Spec /\ WF_vars(Step)

-----------------------------------------------------------------------------
(* Properties.                                                             *)

\* The type invariant.
TypeOK ==
    /\ pc \in {"idle", "begin", "statement", "rollback", "commit", "return"}
    /\ caller \in {"task", "direct"}
    /\ size \in 0..MaxStatements
    /\ next \in Statements
    /\ retries \in 0..LoopBreaker
    /\ errorCode \in {"none", "empty", "deadlock", "duplicate", "other"}
    /\ handle \in {"open", "unprepared", "null"}
    /\ inTransaction \in BOOLEAN
    /\ uncommitted \in [Statements -> Nat]
    /\ durable \in [Statements -> Nat]
    /\ result \in {"none", "success", "failure"}
    /\ executed \in 0..MaxTransactions
    /\ losses \in 0..MaxLosses
    /\ reconnected \in BOOLEAN

All == [s \in Statements |-> IF s <= size THEN 1 ELSE 0]

\* At every moment, whatever deadlocks, retries and rejected statements came before,
\* either nothing of the transaction is durable or each statement is exactly once,
\* unless the connection was lost on the way.
AllOrNothing == durable \in {Nothing, All} \/ reconnected

\* What the caller is told is what happened: success means that every statement is
\* durable, failure that none is, unless the connection was lost, now or for good by
\* an earlier transaction.
ResultIsTruthful ==
    pc = "idle" /\ ~reconnected /\ handle = "open"
        => /\ result = "success" => durable = All
           /\ result = "failure" => durable = Nothing

\* A transaction leaves no open transaction behind in the session, however it ended,
\* lost connections included: the next operation on the connection would become part
\* of it, and the next START TRANSACTION would commit it.
SessionClean == pc = "idle" => ~inTransaction /\ uncommitted = Nothing

Abstract == INSTANCE AtomicTransaction WITH
    running <- pc # "idle",
    effects <- IF durable = Nothing THEN "none" ELSE IF durable = All THEN "all" ELSE "some",
    empty <- size = 0,
    broken <- reconnected \/ handle # "open"

\* Transactions are atomic in the sense of AtomicTransaction, except those whose
\* connection is lost: the effects appear in one step, and only while the transaction
\* runs, deadlocks, retries and rejected statements or not.
ImplementsAtomicTransaction == Abstract!Spec

\* A transaction ends, deadlocks and lost connections or not.
Terminates == pc # "idle" ~> pc = "idle"

\* The comment in DirectCommitTransaction takes the error code 0 for a successful
\* operation: then the statements are durable.
SuccessMeansDurable == pc = "idle" /\ result = "success" => durable = All
=============================================================================
