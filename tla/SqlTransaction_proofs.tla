------------------------ MODULE SqlTransaction_proofs ------------------------
(***************************************************************************)
(* The safety properties of SqlTransaction for any number of statements,   *)
(* transactions and lost connections, and any set of faults.               *)
(***************************************************************************)
EXTENDS SqlTransaction, TLAPS

-----------------------------------------------------------------------------
(* What the effects of a session add up to.                                *)

\* The effects of the first n statements.
Prefix(n) == [s \in Statements |-> IF s <= n THEN 1 ELSE 0]

LEMMA PlusType ==
  ASSUME NEW f \in [Statements -> Nat], NEW g \in [Statements -> Nat]
  PROVE  Plus(f, g) \in [Statements -> Nat]
BY DEF Plus

LEMMA NothingType == Nothing \in [Statements -> Nat]
BY DEF Nothing

LEMMA OnceType == \A s \in Statements : Once(s) \in [Statements -> Nat]
BY DEF Once, Nothing

LEMMA NothingPlus ==
  ASSUME NEW f \in [Statements -> Nat]
  PROVE  Plus(Nothing, f) = f /\ Plus(f, Nothing) = f
<1>1. \A s \in Statements : 0 + f[s] = f[s] /\ f[s] + 0 = f[s]
  OBVIOUS
<1> QED BY <1>1 DEF Plus, Nothing

LEMMA PrefixStart == Prefix(0) = Nothing
BY DEF Prefix, Nothing, Statements

LEMMA PrefixStep ==
  ASSUME NEW n \in Statements
  PROVE  Plus(Prefix(n - 1), Once(n)) = Prefix(n)
<1>1. ASSUME NEW s \in Statements
      PROVE  Prefix(n - 1)[s] + Once(n)[s] = Prefix(n)[s]
  BY BoundsAssumption DEF Prefix, Once, Nothing, Statements
<1> QED BY <1>1 DEF Plus, Prefix

LEMMA PrefixSize == Prefix(size) = All
BY DEF Prefix, All

LEMMA PrefixType == \A n \in Nat : Prefix(n) \in [Statements -> Nat]
BY DEF Prefix

-----------------------------------------------------------------------------
(* Types.                                                                  *)

LEMMA ErrorType ==
  ASSUME TypeOK, NEW error \in {"none", "deadlock", "duplicate", "other"},
         Abort(error) \/ Advance, Sending
  PROVE  /\ pc' \in {"idle", "begin", "statement", "rollback", "commit", "return"}
         /\ next' \in Statements
         /\ errorCode' \in {"none", "empty", "deadlock", "duplicate", "other"}
         /\ UNCHANGED <<caller, size, retries, result, executed>>
<1>1. 1 \in Statements
  BY BoundsAssumption DEF Statements
<1>2. CASE Advance
  BY <1>1, <1>2, BoundsAssumption DEF Advance, TypeOK, Statements
<1>3. CASE Abort(error) /\ pc = "statement"
  BY <1>3 DEF Abort, TypeOK
<1>4. CASE Abort(error) /\ pc # "statement"
  BY <1>4, <1>2 DEF Abort
<1> QED BY <1>2, <1>3, <1>4

LEMMA ServerType ==
  ASSUME TypeOK, Apply \/ RollBack \/ EndSession \/ UNCHANGED serverVars
  PROVE  /\ inTransaction' \in BOOLEAN
         /\ uncommitted' \in [Statements -> Nat]
         /\ durable' \in [Statements -> Nat]
BY PlusType, NothingType, OnceType
   DEF TypeOK, Apply, RollBack, EndSession, serverVars

LEMMA TypeInit == Init => TypeOK
<1>1. 1 \in Statements
  BY BoundsAssumption DEF Statements
<1>2. 0 \in 0..MaxStatements /\ 0 \in 0..MaxTransactions /\ 0 \in 0..MaxLosses /\ 0 \in 0..LoopBreaker
  BY BoundsAssumption DEF LoopBreaker
<1> QED BY <1>1, <1>2, NothingType DEF Init, TypeOK

\* Sending a command keeps the types of everything but the handle.
LEMMA TypeSend ==
  ASSUME TypeOK, Sending,
         NEW error \in {"none", "deadlock", "duplicate", "other"}, Abort(error) \/ Advance,
         Apply \/ RollBack \/ EndSession \/ UNCHANGED serverVars,
         handle' \in {"open", "unprepared", "null"},
         losses' \in 0..MaxLosses, reconnected' \in BOOLEAN
  PROVE  TypeOK'
<1>1. /\ pc' \in {"idle", "begin", "statement", "rollback", "commit", "return"}
      /\ next' \in Statements
      /\ errorCode' \in {"none", "empty", "deadlock", "duplicate", "other"}
      /\ UNCHANGED <<caller, size, retries, result, executed>>
  BY ErrorType
<1>2. /\ inTransaction' \in BOOLEAN
      /\ uncommitted' \in [Statements -> Nat]
      /\ durable' \in [Statements -> Nat]
  BY ServerType
<1> QED BY <1>1, <1>2 DEF TypeOK, Statements

LEMMA TypeStep == TypeOK /\ [Next]_vars => TypeOK'
<1> SUFFICES ASSUME TypeOK, [Next]_vars PROVE TypeOK'
  OBVIOUS
<1>1. losses \in 0..MaxLosses /\ reconnected \in BOOLEAN
      /\ handle \in {"open", "unprepared", "null"}
  BY DEF TypeOK
<1>2. losses < MaxLosses => losses + 1 \in 0..MaxLosses
  BY <1>1, BoundsAssumption
<1>3. CASE Succeed
  BY <1>1, <1>3, TypeSend DEF Succeed, faultVars
<1>4. CASE Deadlock
  <2>1. Sending
    BY <1>4 DEF Deadlock, Sending
  <2> QED BY <1>1, <1>4, <2>1, TypeSend DEF Deadlock, faultVars
<1>5. CASE Duplicate
  <2>1. Sending
    BY <1>5 DEF Duplicate, Sending
  <2> QED BY <1>1, <1>5, <2>1, TypeSend DEF Duplicate, faultVars
<1>6. CASE Reconnect
  BY <1>2, <1>6, ServerType DEF Reconnect, TypeOK, clientVars, Statements
<1>7. CASE ReconnectFails
  BY <1>1, <1>2, <1>7, TypeSend DEF ReconnectFails
<1>8. CASE NotExecuted
  <2>1. Sending
    BY <1>8 DEF NotExecuted, Sending
  <2> QED BY <1>1, <1>8, <2>1, TypeSend DEF NotExecuted, faultVars
<1>9. ASSUME NEW c \in {"task", "direct"}, NEW n \in 0..MaxStatements, Start(c, n)
      PROVE TypeOK'
  <2>1. 1 \in Statements /\ executed + 1 \in 0..MaxTransactions
    BY <1>9, BoundsAssumption DEF Start, TypeOK, Statements
  <2>2. 0 \in 0..LoopBreaker
    BY DEF LoopBreaker
  <2>3. pc' \in {"begin", "return"} /\ errorCode' \in {"none", "empty"}
    BY <1>9 DEF Start
  <2> QED BY <1>9, <2>1, <2>2, <2>3, NothingType DEF Start, TypeOK
<1>10. CASE ReturnSuccess
  BY <1>10 DEF ReturnSuccess, TypeOK, serverVars, faultVars, Statements
<1>11. CASE Retry
  <2>1. 1 \in Statements
    BY BoundsAssumption DEF Statements
  <2>2. retries + 1 \in 0..LoopBreaker
    BY <1>11 DEF Retry, MayRetry, TypeOK, LoopBreaker
  <2> QED BY <1>11, <2>1, <2>2 DEF Retry, TypeOK, serverVars, faultVars
<1>12. CASE GiveUp
  BY <1>12 DEF GiveUp, TypeOK, serverVars, faultVars, Statements
<1>13. CASE UNCHANGED vars
  BY <1>13 DEF TypeOK, vars, clientVars, serverVars, faultVars, Statements
<1> QED
  BY <1>3, <1>4, <1>5, <1>6, <1>7, <1>8, <1>9, <1>10, <1>11, <1>12, <1>13
  DEF Next, Step

\* The types of the model of transactions are preserved, for all constants.
THEOREM TransactionTypeCorrect == Spec => []TypeOK
<1> QED BY TypeInit, TypeStep, PTL DEF Spec

-----------------------------------------------------------------------------
(* The inductive invariant.                                                *)

\* Where the server's session is, whatever happened: outside a transaction nothing is
\* uncommitted, and there is no transaction without a connection, nor before the
\* first command and after the last.
SessionInv ==
    /\ ~inTransaction => uncommitted = Nothing
    /\ handle = "null" => ~inTransaction
    /\ pc \in {"idle", "begin", "return"} => ~inTransaction

\* What the iterator of ExecuteTransaction and the errors look like.
ClientInv ==
    /\ Sending => size > 0 /\ errorCode # "empty"
    /\ pc = "statement" => next <= size
    /\ pc = "return" /\ errorCode = "empty" => size = 0
    /\ pc = "return" /\ errorCode # "empty" => size > 0
    /\ pc # "idle" /\ retries > 0 => size > 0

\* While no connection was lost in this transaction: its statements so far are
\* uncommitted until COMMIT makes all of them durable, and what is returned says so.
EffectsInv ==
    /\ Sending => durable = Nothing
    /\ pc = "statement" /\ handle # "null" => inTransaction /\ uncommitted = Prefix(next - 1)
    /\ pc = "commit" /\ handle # "null" => inTransaction /\ uncommitted = All
    /\ pc = "rollback" /\ handle = "open" => errorCode # "none"
    /\ pc \in {"return", "idle"} => durable \in {Nothing, All}
    /\ pc = "return" /\ errorCode # "none" => durable = Nothing
    /\ pc = "return" /\ errorCode = "none" /\ handle = "open" => durable = All
    /\ pc = "idle" /\ handle = "open" =>
          /\ result = "success" => durable = All
          /\ result = "failure" => durable = Nothing

IInv == TypeOK /\ SessionInv /\ ClientInv /\ (~reconnected => EffectsInv)

-----------------------------------------------------------------------------
(* Every step preserves it.                                                *)

LEMMA InitInv == Init => IInv
BY TypeInit DEF Init, IInv, SessionInv, ClientInv, EffectsInv, Sending

\* The session, when a command is sent and the caller goes on.
LEMMA SucceedSession ==
  ASSUME IInv, Succeed
  PROVE  SessionInv'
<1>1. CASE pc = "begin"
  BY <1>1 DEF IInv, SessionInv, Succeed, Apply, Advance, faultVars
<1>2. CASE pc = "statement"
  BY <1>2 DEF IInv, SessionInv, Succeed, Apply, Advance, faultVars
<1>3. CASE pc = "rollback"
  BY <1>3 DEF IInv, SessionInv, Succeed, Apply, Advance, faultVars
<1>4. CASE pc = "commit"
  BY <1>4 DEF IInv, SessionInv, Succeed, Apply, Advance, faultVars
<1> QED BY <1>1, <1>2, <1>3, <1>4 DEF Succeed, Sending

\* The iterator, when the caller goes on or takes the way out.
LEMMA SendClient ==
  ASSUME TypeOK, ClientInv, Sending,
         NEW error \in {"none", "deadlock", "duplicate", "other"}, Abort(error) \/ Advance
  PROVE  ClientInv'
<1>1. size \in Nat /\ next \in Nat
  BY BoundsAssumption DEF TypeOK, Statements
<1>2. ASSUME Advance PROVE ClientInv'
  BY <1>1, <1>2 DEF ClientInv, Sending, Advance
<1>3. ASSUME Abort(error), pc = "statement" PROVE ClientInv'
  BY <1>3 DEF ClientInv, Sending, Abort
<1> QED BY <1>2, <1>3 DEF Abort

LEMMA SucceedEffects ==
  ASSUME IInv, Succeed, ~reconnected
  PROVE  EffectsInv'
<1> USE DEF Succeed, faultVars
<1>1. EffectsInv /\ TypeOK /\ SessionInv /\ ClientInv /\ Sending
  BY DEF IInv
<1>2. size \in Nat /\ next \in Statements /\ next \in Nat /\ All \in [Statements -> Nat]
  BY <1>1, BoundsAssumption DEF TypeOK, Statements, All
<1>3. All' = All
  BY <1>1 DEF Advance, All
<1>4. CASE pc = "begin"
  <2>1. durable' = Nothing
    BY <1>1, <1>4, NothingPlus, NothingType DEF EffectsInv, SessionInv, Sending, Apply
  <2>2. pc' = "statement" /\ next' = 1 /\ inTransaction' /\ uncommitted' = Nothing
    BY <1>4 DEF Apply, Advance
  <2>3. uncommitted' = Prefix(next' - 1)
    BY <2>2, PrefixStart
  <2> QED BY <2>1, <2>2, <2>3 DEF EffectsInv
<1>5. CASE pc = "statement"
  <2>1. inTransaction /\ uncommitted = Prefix(next - 1) /\ durable = Nothing
    BY <1>1, <1>5 DEF EffectsInv
  <2>2. inTransaction' /\ uncommitted' = Prefix(next) /\ durable' = Nothing
    BY <1>2, <1>5, <2>1, PrefixStep DEF Apply
  <2>3. CASE next < size
    <3>1. pc' = "statement" /\ next' = next + 1
      BY <1>5, <2>3, <1>2 DEF Advance
    <3>2. uncommitted' = Prefix(next' - 1)
      <4>1. next' - 1 = next
        BY <1>2, <3>1
      <4> QED BY <2>2, <4>1
    <3> QED BY <2>2, <3>1, <3>2 DEF EffectsInv
  <2>4. CASE next = size
    <3>1. pc' = "commit" /\ uncommitted' = All'
      BY <1>3, <1>5, <2>2, <2>4, <1>2, PrefixSize DEF Advance
    <3> QED BY <2>2, <3>1 DEF EffectsInv
  <2> QED BY <1>1, <1>2, <1>5, <2>3, <2>4 DEF ClientInv
<1>6. CASE pc = "rollback"
  <2>1. durable' = Nothing /\ pc' = "return" /\ errorCode' = errorCode
    BY <1>1, <1>6 DEF EffectsInv, Sending, Apply, Advance
  <2>2. handle = "open" => errorCode # "none"
    BY <1>1, <1>6 DEF EffectsInv
  <2> QED BY <2>1, <2>2 DEF EffectsInv, Sending
<1>7. CASE pc = "commit"
  <2>1. durable' = All
    BY <1>1, <1>2, <1>7, NothingPlus DEF EffectsInv, Sending, Apply
  <2>2. pc' = "return" /\ errorCode' = "none"
    BY <1>7 DEF Advance
  <2> QED BY <1>3, <2>1, <2>2 DEF EffectsInv, Sending
<1> QED BY <1>1, <1>4, <1>5, <1>6, <1>7 DEF Sending

\* A statement that fails on a connection that is not lost: nothing durable, on to
\* ROLLBACK.
LEMMA FailEffects ==
  ASSUME IInv, ~reconnected, pc = "statement", UNCHANGED <<durable, handle>>,
         NEW error \in {"none", "deadlock", "duplicate", "other"}, Abort(error),
         handle = "open" => error # "none"
  PROVE  EffectsInv'
BY DEF IInv, EffectsInv, Sending, Abort

LEMMA NotExecutedEffects ==
  ASSUME IInv, NotExecuted, ~reconnected
  PROVE  EffectsInv'
<1> USE DEF NotExecuted, serverVars, faultVars
<1>1. EffectsInv /\ TypeOK /\ SessionInv /\ ClientInv /\ handle # "open" /\ Sending
  BY DEF IInv, Sending
<1>2. CASE pc = "statement"
  BY <1>2, FailEffects
<1>3. CASE pc # "statement"
  <2>1. handle = "null" /\ Advance
    BY <1>3 DEF Abort
  <2> QED BY <1>1, <1>3, <2>1 DEF EffectsInv, Sending, Advance
<1> QED BY <1>2, <1>3

LEMMA StartInv ==
  ASSUME IInv, NEW c \in {"task", "direct"}, NEW n \in 0..MaxStatements, Start(c, n)
  PROVE  SessionInv' /\ ClientInv' /\ EffectsInv'
<1>1. ~inTransaction /\ uncommitted = Nothing /\ durable' = Nothing /\ n \in Nat /\ size' = n
  BY DEF IInv, SessionInv, Start
<1>2. CASE n = 0
  <2>1. All' = Nothing
    BY <1>1, <1>2 DEF All, Nothing, Statements
  <2>2. pc' = "return" /\ errorCode' = "empty"
    BY <1>2 DEF Start
  <2> QED BY <1>1, <1>2, <2>1, <2>2 DEF Start, SessionInv, ClientInv, EffectsInv, Sending
<1>3. CASE n # 0
  <2>1. pc' = "begin" /\ errorCode' = "none" /\ n > 0
    BY <1>1, <1>3 DEF Start
  <2> QED BY <1>1, <2>1 DEF Start, SessionInv, ClientInv, EffectsInv, Sending
<1> QED BY <1>2, <1>3

LEMMA ReturnInv ==
  ASSUME IInv, ReturnSuccess \/ GiveUp
  PROVE  SessionInv' /\ ClientInv' /\ (~reconnected => EffectsInv')
<1> USE DEF serverVars, faultVars
<1>1. SessionInv /\ ClientInv /\ pc = "return"
  BY DEF IInv, ReturnSuccess, GiveUp
<1>2. SessionInv' /\ ClientInv'
  BY <1>1 DEF ReturnSuccess, GiveUp, SessionInv, ClientInv, Sending
<1>3. ASSUME ~reconnected, ReturnSuccess PROVE EffectsInv'
  <2>1. All' = All /\ errorCode \in {"none", "empty"}
    BY <1>3 DEF ReturnSuccess, Succeeded, All
  <2>2. errorCode = "empty" => All = Nothing
    BY <1>1 DEF ClientInv, All, Nothing, Statements
  <2> QED BY <1>1, <1>3, <2>1, <2>2 DEF IInv, EffectsInv, ReturnSuccess, Sending
<1>4. ASSUME ~reconnected, GiveUp PROVE EffectsInv'
  <2>1. All' = All /\ errorCode # "none"
    BY <1>4 DEF GiveUp, Succeeded, All
  <2> QED BY <1>1, <1>4, <2>1 DEF IInv, EffectsInv, GiveUp, Sending
<1> QED BY <1>2, <1>3, <1>4

LEMMA RetryInv ==
  ASSUME IInv, Retry
  PROVE  SessionInv' /\ ClientInv' /\ (~reconnected => EffectsInv')
<1> USE DEF Retry, serverVars, faultVars
<1>1. SessionInv /\ ClientInv /\ errorCode # "none"
  BY DEF IInv, MayRetry, Succeeded
<1>2. SessionInv'
  BY <1>1 DEF SessionInv
<1>3. ~reconnected => EffectsInv'
  BY <1>1 DEF IInv, EffectsInv, Sending
<1>4. errorCode # "empty" /\ size > 0
  <2>1. size \in Nat /\ retries \in Nat
    BY DEF IInv, TypeOK, LoopBreaker
  <2> QED BY <1>1, <2>1 DEF ClientInv, MayRetry
<1> QED BY <1>1, <1>2, <1>3, <1>4 DEF ClientInv, Sending

LEMMA NextInv == IInv /\ [Next]_vars => IInv'
<1> SUFFICES ASSUME IInv, [Next]_vars
             PROVE  TypeOK' /\ SessionInv' /\ ClientInv' /\ (~reconnected' => EffectsInv')
  BY DEF IInv
<1>1. TypeOK'
  BY TypeStep DEF IInv
<1>2. TypeOK /\ SessionInv /\ ClientInv
  BY DEF IInv
<1>3. CASE Succeed
  BY <1>2, <1>3, SucceedSession, SendClient, SucceedEffects, <1>1 DEF Succeed, faultVars
<1>4. CASE Deadlock \/ Duplicate
  <2>1. Sending /\ UNCHANGED <<durable, handle, reconnected>> /\ pc = "statement"
    BY <1>4 DEF Deadlock, Duplicate, RollBack, serverVars, faultVars, Sending
  <2>2. PICK error \in {"deadlock", "duplicate"} : Abort(error)
    BY <1>4 DEF Deadlock, Duplicate
  <2>3. SessionInv'
    BY <1>2, <1>4, <2>1, <2>2
    DEF SessionInv, Deadlock, Duplicate, RollBack, Abort, serverVars, faultVars
  <2>4. ClientInv'
    BY <1>2, <2>1, <2>2, SendClient
  <2>5. ~reconnected => EffectsInv'
    BY <2>1, <2>2, FailEffects
  <2> QED BY <1>1, <2>1, <2>3, <2>4, <2>5
<1>5. CASE Reconnect
  <2>1. UNCHANGED clientVars /\ reconnected' /\ Sending /\ handle' = "open"
        /\ ~inTransaction' /\ uncommitted' = Nothing
    BY <1>5 DEF Reconnect, EndSession
  <2> QED BY <1>1, <1>2, <2>1 DEF SessionInv, ClientInv, Sending, clientVars
<1>6. CASE ReconnectFails
  <2>1. reconnected' /\ Sending /\ ~inTransaction' /\ uncommitted' = Nothing
    BY <1>6 DEF ReconnectFails, EndSession
  <2>2. PICK error \in {"none", "other"} : Abort(error)
    BY <1>6 DEF ReconnectFails
  <2>3. ClientInv'
    BY <1>2, <2>1, <2>2, SendClient
  <2> QED BY <1>1, <2>1, <2>3 DEF SessionInv
<1>7. CASE NotExecuted
  <2>1. Sending /\ UNCHANGED <<serverVars, handle, reconnected>>
    BY <1>7 DEF NotExecuted, Sending, faultVars
  <2>2. PICK error \in {"none", "other"} : Abort(error)
    BY <1>7 DEF NotExecuted
  <2>3. ClientInv'
    BY <1>2, <2>1, <2>2, SendClient
  <2>4. SessionInv'
    <3>1. CASE handle = "null"
      BY <1>2, <2>1, <3>1 DEF SessionInv, serverVars
    <3>2. CASE pc = "statement"
      BY <1>2, <2>1, <2>2, <3>2 DEF SessionInv, serverVars, Abort
    <3> QED BY <1>7, <3>1, <3>2 DEF NotExecuted
  <2>5. ~reconnected => EffectsInv'
    BY <1>7, NotExecutedEffects
  <2> QED BY <1>1, <2>1, <2>3, <2>4, <2>5
<1>8. ASSUME NEW c \in {"task", "direct"}, NEW n \in 0..MaxStatements, Start(c, n)
      PROVE  SessionInv' /\ ClientInv' /\ EffectsInv'
  BY <1>8, StartInv
<1>9. CASE ReturnSuccess \/ GiveUp
  <2>1. UNCHANGED reconnected
    BY <1>9 DEF ReturnSuccess, GiveUp, faultVars
  <2> QED BY <1>1, <1>9, <2>1, ReturnInv
<1>10. CASE Retry
  <2>1. UNCHANGED reconnected
    BY <1>10 DEF Retry, faultVars
  <2> QED BY <1>1, <1>10, <2>1, RetryInv
<1>11. CASE UNCHANGED vars
  <2>1. UNCHANGED <<clientVars, serverVars, faultVars>>
    BY <1>11 DEF vars
  <2>2. All' = All
    BY <2>1 DEF All, clientVars
  <2>3. SessionInv' /\ ClientInv'
    BY <1>2, <2>1 DEF SessionInv, ClientInv, Sending, clientVars, serverVars, faultVars
  <2>4. ~reconnected' => EffectsInv'
    BY <2>1, <2>2 DEF IInv, EffectsInv, Sending, Prefix, clientVars, serverVars, faultVars
  <2> QED BY <1>1, <2>3, <2>4
<1> QED
  BY <1>1, <1>3, <1>4, <1>5, <1>6, <1>7, <1>8, <1>9, <1>10, <1>11 DEF Next, Step

-----------------------------------------------------------------------------
(* The theorems.                                                           *)

LEMMA Inductive == Spec => []IInv
BY InitInv, NextInv, PTL DEF Spec

\* No interleaving of deadlocks, rejected statements and retries makes part of a
\* transaction durable, or a statement twice, while its connection lives.
THEOREM AtomicityCorrect == Spec => []AllOrNothing
<1>1. IInv => AllOrNothing
  <2> SUFFICES ASSUME IInv, ~reconnected PROVE durable \in {Nothing, All}
    BY DEF AllOrNothing
  <2> QED BY DEF IInv, EffectsInv, Sending, TypeOK
<1> QED BY <1>1, Inductive, PTL

\* What the callers are told about a transaction is true while its connection lives.
THEOREM TruthfulCorrect == Spec => []ResultIsTruthful
<1>1. IInv => ResultIsTruthful
  BY DEF IInv, EffectsInv, ResultIsTruthful
<1> QED BY <1>1, Inductive, PTL

\* The session is never left inside a transaction, lost connections included.
THEOREM SessionCleanCorrect == Spec => []SessionClean
<1>1. IInv => SessionClean
  BY DEF IInv, SessionInv, SessionClean
<1> QED BY <1>1, Inductive, PTL

-----------------------------------------------------------------------------
(* The refinement mapping.                                                 *)

LEMMA InitRefines == Init => Abstract!Init
BY DEF Init, Abstract!Init

LEMMA AllIsSomething ==
  ASSUME size \in 0..MaxStatements, size > 0
  PROVE  All # Nothing
<1>1. 1 \in Statements /\ 1 <= size
  BY BoundsAssumption DEF Statements
<1>2. All[1] = 1 /\ Nothing[1] = 0
  BY <1>1 DEF All, Nothing
<1> QED BY <1>2

\* Whatever leaves the effects and the callers alone is not seen.
LEMMA Unseen ==
  ASSUME pc # "idle", pc' # "idle", UNCHANGED <<size, durable, result>>,
         ~reconnected, handle = "open", UNCHANGED <<reconnected, handle>>
  PROVE  UNCHANGED Abstract!vars
<1>1. All' = All
  BY DEF All
<1> QED BY <1>1 DEF Abstract!vars

LEMMA SucceedRefines ==
  ASSUME IInv, Succeed, ~reconnected, handle = "open"
  PROVE  Abstract!Commit \/ UNCHANGED Abstract!vars
<1> USE DEF Succeed, faultVars
<1>1. /\ TypeOK /\ SessionInv /\ ClientInv /\ EffectsInv /\ Sending
      /\ pc # "idle" /\ pc' # "idle" /\ UNCHANGED <<size, result>>
  BY DEF IInv, Sending, Advance
<1>2. CASE pc = "commit"
  <2>1. durable = Nothing /\ durable' = All
    <3>1. uncommitted = All /\ durable = Nothing /\ All \in [Statements -> Nat]
      BY <1>1, <1>2 DEF EffectsInv, All
    <3> QED BY <1>2, <3>1, NothingPlus DEF Apply
  <2>2. All # Nothing /\ All' = All /\ size > 0
    BY <1>1, AllIsSomething DEF ClientInv, TypeOK, All
  <2> QED BY <1>1, <2>1, <2>2 DEF Abstract!Commit, TypeOK
<1>3. CASE pc # "commit"
  <2>1. UNCHANGED durable
    <3>1. CASE pc = "begin"
      <4>1. uncommitted = Nothing /\ durable = Nothing
        BY <1>1, <3>1 DEF SessionInv, EffectsInv
      <4> QED BY <3>1, <4>1, NothingPlus, NothingType DEF Apply
    <3>2. CASE pc = "statement"
      BY <1>1, <3>2 DEF EffectsInv, Apply
    <3>3. CASE pc = "rollback"
      BY <3>3 DEF Apply
    <3> QED BY <1>1, <1>3, <3>1, <3>2, <3>3 DEF Sending
  <2> QED BY <1>1, <2>1, Unseen
<1> QED BY <1>2, <1>3

LEMMA ReportRefines ==
  ASSUME IInv, ReturnSuccess \/ GiveUp, ~reconnected, handle = "open"
  PROVE  \E outcome \in {"success", "failure"} : Abstract!Report(outcome)
<1>1. TypeOK /\ ClientInv /\ EffectsInv
  BY DEF IInv
<1>2. /\ pc = "return" /\ pc' = "idle"
      /\ UNCHANGED <<size, durable, reconnected, handle>> /\ All' = All
  BY DEF ReturnSuccess, GiveUp, serverVars, faultVars, All
<1>3. CASE ReturnSuccess
  <2>1. CASE errorCode = "none"
    <3>1. durable = All /\ size > 0
      BY <1>1, <1>2, <2>1 DEF EffectsInv, ClientInv
    <3>2. All # Nothing
      BY <1>1, <3>1, AllIsSomething DEF TypeOK
    <3>3. Abstract!Report("success")
      BY <1>2, <1>3, <3>1, <3>2 DEF Abstract!Report, ReturnSuccess
    <3> QED BY <3>3
  <2>2. CASE errorCode = "empty"
    <3>1. size = 0
      BY <1>1, <1>2, <2>2 DEF ClientInv
    <3>2. Abstract!Report("success")
      BY <1>2, <1>3, <3>1 DEF Abstract!Report, ReturnSuccess
    <3> QED BY <3>2
  <2> QED BY <1>3, <2>1, <2>2 DEF ReturnSuccess, Succeeded
<1>4. CASE GiveUp
  <2>1. durable = Nothing
    BY <1>1, <1>2, <1>4 DEF EffectsInv, GiveUp, Succeeded
  <2>2. Abstract!Report("failure")
    BY <1>2, <1>4, <2>1 DEF Abstract!Report, GiveUp
  <2> QED BY <2>2
<1> QED BY <1>3, <1>4

LEMMA StepRefines == IInv /\ [Next]_vars => [Abstract!Next]_(Abstract!vars)
<1> SUFFICES ASSUME IInv, [Next]_vars, ~reconnected', handle' = "open"
             PROVE  [Abstract!Next]_(Abstract!vars)
  BY DEF Abstract!Next, Abstract!Lost
<1>1. CASE Succeed
  BY <1>1, SucceedRefines DEF Succeed, faultVars, Abstract!Next
<1>2. CASE Deadlock \/ Duplicate
  <2>1. /\ pc # "idle" /\ pc' # "idle" /\ UNCHANGED <<size, durable, result, reconnected, handle>>
    BY <1>2 DEF Deadlock, Duplicate, RollBack, Abort, serverVars, faultVars
  <2> QED BY <2>1, Unseen
<1>3. CASE Reconnect \/ ReconnectFails \/ NotExecuted
  BY <1>3 DEF Reconnect, ReconnectFails, NotExecuted, faultVars
<1>4. ASSUME NEW c \in {"task", "direct"}, NEW n \in 0..MaxStatements, Start(c, n)
      PROVE  Abstract!Next
  BY <1>4 DEF Start, Abstract!Next, Abstract!Start
<1>5. CASE ReturnSuccess \/ GiveUp
  <2>1. ~reconnected /\ handle = "open"
    BY <1>5 DEF ReturnSuccess, GiveUp, faultVars
  <2> QED BY <1>5, <2>1, ReportRefines DEF Abstract!Next
<1>6. CASE Retry
  BY <1>6, Unseen DEF Retry, serverVars, faultVars
<1>7. CASE UNCHANGED vars
  <2>1. All' = All
    BY <1>7 DEF All, vars, clientVars
  <2> QED BY <1>7, <2>1 DEF vars, clientVars, serverVars, faultVars, Abstract!vars
<1> QED
  BY <1>1, <1>2, <1>3, <1>4, <1>5, <1>6, <1>7 DEF Next, Step

\* ImplementsAtomicTransaction: the effects of a transaction appear in one step while it
\* runs, and its caller is told the truth, unless its connection is lost.
THEOREM SqlTransactionIsAtomic == Spec => ImplementsAtomicTransaction
BY Inductive, InitRefines, StepRefines, PTL DEF Spec, ImplementsAtomicTransaction, Abstract!Spec
=============================================================================
