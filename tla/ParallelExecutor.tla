-------------------------- MODULE ParallelExecutor --------------------------
(***************************************************************************)
(* ParallelExecutor: ExecuteBatch with its worker pool and its channels.   *)
(* The caller is ExecuteBlock, one call at a time under ExecutionMutex,    *)
(* with a new executor and thus a new pool each time.  A worker takes a    *)
(* task, executes it on the task's own copy of the accounts and sends the  *)
(* result; the caller collects the results as they arrive and applies the  *)
(* write sets in that order.                                               *)
(* A transaction is its index in the list.  How the list is cut up into    *)
(* batches is left open here (module Scheduling has it): any way will do.  *)
(***************************************************************************)
EXTENDS Accounts, Sequences

CONSTANTS
    NumWorkers,
    ChannelFactor,            \* room in workChan per worker, 10 in the code
    MinBatchSizeForParallel,
    TxSet, MaxTxs,            \* the lists ExecuteBatch is called with
    MaxCalls,                 \* calls: a bound
    InitialAccounts

Lists == UNION {[1 .. n -> TxSet] : n \in 1 .. MaxTxs}

ASSUME ExecutorAssumption ==
    /\ NumWorkers \in Nat \ {0} /\ ChannelFactor \in Nat \ {0}
    /\ MinBatchSizeForParallel \in Nat /\ MaxTxs \in Nat /\ MaxCalls \in Nat
    /\ TxSet \subseteq Transaction
    /\ InitialAccounts \in AccountMap /\ NoAccount \notin Account
    /\ \A t \in TxSet : Exists(InitialAccounts, t.Sender) /\ t.Amount > 0

VARIABLES
    State,          \* pe.State.Accounts, which is bc.State.Accounts
    calls, goroutines, \* calls so far, and workers started so far
    pc,             \* where the caller is; "idle" outside ExecuteBatch
    transactions,   \* the argument
    todo,           \* transactions that are in no batch yet
    stateCopy,
    toSubmit, batchSize, batchResults, \* of the batch under way
    results,        \* results so far, allResults in executeParallel
    workChan, handling, resultChan \* tasks waiting, tasks in the hands of workers

callVars  == <<calls, goroutines, transactions>>
poolVars  == <<workChan, handling, resultChan>>
batchVars == <<toSubmit, batchSize, batchResults>>

vars == <<State, callVars, pc, todo, stateCopy, batchVars, results, poolVars>>

-----------------------------------------------------------------------------
Index == DOMAIN transactions

Least(S) == CHOOSE i \in S : \A j \in S : i <= j

Task(i) == [Index |-> i, State |-> stateCopy]

(* Mutant: nothing is verified.                                            *)
ExecuteUnchecked(i, acc, timed) ==
    [Index |-> i, Success |-> TRUE, WriteSet |-> WriteKeys(transactions[i]),
     Conflict |-> FALSE, Timed |-> timed]

(* executeTransaction, seen from outside: what it does to its copy of the  *)
(* accounts is OpenRecipient.  Conflict is never set to TRUE, and Duration *)
(* only by executeSequential.                                              *)
executeTransaction(i, acc, timed) ==
    LET ok == CanExecute(acc, transactions[i])
    IN  [Index |-> i, Success |-> ok,
         WriteSet |-> IF ok THEN WriteKeys(transactions[i]) ELSE {},
         Conflict |-> FALSE, Timed |-> timed]

(* applyChanges opens an account under every name it parses.               *)
applyChanges(acc, keys) ==
    [n \in AccountName |->
        IF acc[n] = NoAccount /\ n \in {ParsedName(k) : k \in keys}
        THEN ZeroAccount ELSE acc[n]]

-----------------------------------------------------------------------------
Init ==
    /\ State = InitialAccounts /\ calls = 0 /\ goroutines = 0
    /\ pc = "idle" /\ transactions = <<>> /\ todo = {} /\ stateCopy = InitialAccounts
    /\ toSubmit = {} /\ batchSize = 0 /\ batchResults = <<>> /\ results = <<>>
    /\ workChan = <<>> /\ handling = {} /\ resultChan = <<>>

PoolSize == NumWorkers

(* NewParallelExecutor: a pool with channels and workers of its own.  The   *)
(* pool of the call before is not closed, its workers wait on for ever.    *)
NewPool ==
    /\ pc = "idle" /\ calls < MaxCalls
    /\ calls' = calls + 1
    /\ goroutines' = goroutines + PoolSize
    /\ results' = <<>>
    /\ workChan' = <<>> /\ resultChan' = <<>> /\ handling' = {}

(* ExecuteBatch with nothing to execute.                                   *)
ExecuteNothing ==
    /\ NewPool
    /\ transactions' = <<>>
    /\ UNCHANGED <<State, pc, todo, stateCopy, batchVars>>

ExecuteBatch(list) ==
    /\ NewPool
    /\ transactions' = list
    /\ todo' = DOMAIN list
    /\ stateCopy' = State
    /\ pc' = IF Len(list) < MinBatchSizeForParallel THEN "sequential" ELSE "parallel"
    /\ UNCHANGED <<State, batchVars>>

(* executeSequential: one turn of its loop.  It executes on the copy that  *)
(* will be the state.                                                      *)
ExecuteNext ==
    /\ pc = "sequential" /\ todo /= {}
    /\ LET i == Least(todo)
           r == executeTransaction(i, stateCopy, TRUE)
           opened == IF r.Success THEN OpenRecipient(stateCopy, transactions[i])
                     ELSE stateCopy
       IN  /\ stateCopy' = IF r.Success THEN applyChanges(opened, r.WriteSet)
                           ELSE opened
           /\ results' = Append(results, r)
           /\ todo' = todo \ {i}
    /\ UNCHANGED <<State, callVars, pc, batchVars, poolVars>>

(* executeParallel: the next batch, with a result channel of its size.     *)
NextBatch(b) ==
    /\ pc = "parallel"
    /\ toSubmit' = b /\ batchSize' = Cardinality(b) /\ batchResults' = <<>>
    /\ todo' = todo \ b
    /\ resultChan' = <<>>
    /\ pc' = "submit"
    /\ UNCHANGED <<State, callVars, stateCopy, results, workChan, handling>>

(* Submit: the send blocks while the channel is full.                      *)
Submit ==
    /\ pc = "submit" /\ toSubmit /= {}
    /\ Len(workChan) < PoolSize * ChannelFactor
    /\ workChan' = Append(workChan, Task(Least(toSubmit)))
    /\ toSubmit' = toSubmit \ {Least(toSubmit)}
    /\ UNCHANGED <<State, callVars, pc, todo, stateCopy, batchSize, batchResults,
                   results, handling, resultChan>>

AllSubmitted ==
    /\ pc = "submit" /\ toSubmit = {}
    /\ pc' = "collect"
    /\ UNCHANGED <<State, callVars, todo, stateCopy, batchVars, results, poolVars>>

-----------------------------------------------------------------------------
(* A worker.                                                               *)

Receive ==
    /\ workChan /= <<>> /\ Cardinality(handling) < PoolSize
    /\ handling' = handling \cup {Head(workChan)}
    /\ workChan' = Tail(workChan)
    /\ UNCHANGED <<State, callVars, pc, todo, stateCopy, batchVars, results, resultChan>>

(* resultChan has room for the batch.                                      *)
Capacity == batchSize

(* The send blocks while the channel is full.                              *)
Handle(task) ==
    /\ Len(resultChan) < Capacity
    /\ resultChan' =
           Append(resultChan, executeTransaction(task.Index, task.State, FALSE))
    /\ handling' = handling \ {task}
    /\ UNCHANGED <<State, callVars, pc, todo, stateCopy, batchVars, results, workChan>>

-----------------------------------------------------------------------------
Collect ==
    /\ pc = "collect" /\ Len(batchResults) < batchSize
    /\ resultChan /= <<>>
    /\ batchResults' = Append(batchResults, Head(resultChan))
    /\ resultChan' = Tail(resultChan)
    /\ UNCHANGED <<State, callVars, pc, todo, stateCopy, toSubmit, batchSize, results,
                   workChan, handling>>

AllCollected == Len(batchResults) = batchSize

StartMerge ==
    /\ pc = "collect" /\ AllCollected
    /\ pc' = "merge"
    /\ UNCHANGED <<State, callVars, todo, stateCopy, batchVars, results, poolVars>>

(* Mutant: the loop does not get on.                                       *)
ApplyAgain ==
    /\ pc = "merge" /\ batchResults /= <<>>
    /\ stateCopy' = applyChanges(stateCopy, Head(batchResults).WriteSet)
    /\ UNCHANGED <<State, callVars, pc, todo, batchVars, results, poolVars>>

(* The results of the batch are applied in the order they came.            *)
ApplyNext ==
    /\ pc = "merge" /\ batchResults /= <<>>
    /\ LET r == Head(batchResults)
       IN  /\ stateCopy' = IF r.Success THEN applyChanges(stateCopy, r.WriteSet)
                           ELSE stateCopy
           /\ results' = Append(results, r)
    /\ batchResults' = Tail(batchResults)
    /\ UNCHANGED <<State, callVars, pc, todo, toSubmit, batchSize, poolVars>>

BatchMerged ==
    /\ pc = "merge" /\ batchResults = <<>>
    /\ batchSize' = 0
    /\ pc' = "parallel"
    /\ UNCHANGED <<State, callVars, todo, stateCopy, toSubmit, batchResults, results,
                   poolVars>>

(* Mutant: one more may be left.                                           *)
AtMostOneLeft == Cardinality(todo) <= 1

NothingLeft == todo = {}

(* `*pe.State = *stateCopy`.                                               *)
UpdateState ==
    /\ pc \in {"sequential", "parallel"} /\ NothingLeft
    /\ State' = stateCopy
    /\ pc' = "idle" /\ todo' = {}
    /\ UNCHANGED <<callVars, stateCopy, batchVars, results, poolVars>>

Finished == pc = "idle" /\ calls = MaxCalls /\ UNCHANGED vars

CallerStep ==
    \/ ExecuteNext
    \/ \E b \in (SUBSET todo) \ {{}} : NextBatch(b)
    \/ Submit \/ AllSubmitted \/ Collect \/ StartMerge
    \/ ApplyNext \/ BatchMerged \/ UpdateState

WorkerStep == Receive \/ \E task \in handling : Handle(task)

Next ==
    \/ \E list \in Lists : ExecuteBatch(list)
    \/ ExecuteNothing
    \/ CallerStep \/ WorkerStep
    \/ Finished

Spec == Init /\ [][Next]_vars

(* The goroutines are scheduled; nobody has to call.                       *)
FairSpec == Spec /\ WF_vars(CallerStep) /\ WF_vars(WorkerStep)

-----------------------------------------------------------------------------
IndicesIn(seq) == {seq[k].Index : k \in DOMAIN seq}

HandledIndices == {task.Index : task \in handling}

(* Where the transactions of the batch under way are.                      *)
InFlight == Cardinality(toSubmit) + Len(workChan) + Cardinality(handling)

(* executeParallel counts answers, never says whose: through the channels  *)
(* and the hands of the workers no transaction is lost and none is         *)
(* answered twice, and a call returns with one result for each.            *)
EveryTransactionAnswered ==
    /\ todo \cup toSubmit \cup IndicesIn(workChan) \cup HandledIndices
          \cup IndicesIn(resultChan) \cup IndicesIn(batchResults)
          \cup IndicesIn(results) = Index
    /\ Cardinality(todo) + InFlight + Len(resultChan) + Len(batchResults)
          + Len(results) = Len(transactions)
    /\ pc = "idle" => Len(results) = Len(transactions)

(* Every call returns.                                                     *)
BatchCompletes == pc /= "idle" ~> pc = "idle"

(* The two functions: what a list does to the accounts is BatchResult, and *)
(* every transaction is answered as if it were the only one.               *)
BatchEffect(acc, list) ==
    BatchResult(acc, {list[i] : i \in DOMAIN list}, Len(list), MinBatchSizeForParallel)

BatchAnswers(acc, list) == {<<i, CanExecute(acc, list[i])>> : i \in DOMAIN list}

Abstract == INSTANCE BatchExecution WITH
    Effect <- BatchEffect, Answers <- BatchAnswers,
    StartAccounts <- InitialAccounts, NoCall <- <<>>, accounts <- State,
    call <- IF pc = "idle" THEN <<>> ELSE transactions,
    reply <- IF pc = "idle" THEN {<<results[k].Index, results[k].Success>> :
                                     k \in DOMAIN results}
             ELSE {}

(* Whatever the batches, the order the workers answer in and the order the *)
(* write sets are applied in, the accounts and the answers a call returns  *)
(* are one function of the accounts before it and of its list.             *)
ImplementsBatch == Abstract!BatchSpec

-----------------------------------------------------------------------------
(* What a comment or the README says and the program does not do.  The     *)
(* README tells which run shows it, with which property in its .cfg.       *)

(* "Worker pool implementation to reduce goroutine creation overhead":     *)
(* there are never more workers than NumWorkers.                           *)
WorkersBounded == goroutines <= NumWorkers

(* "Results are merged and conflicts are resolved": of two transactions    *)
(* that spend one nonce of one sender, one fails or is marked.             *)
ConflictsResolved ==
    \A k, m \in DOMAIN results :
        LET r == results[k]  s == results[m]
        IN  /\ k /= m /\ r.Success /\ s.Success
            /\ TxID(transactions[r.Index]) = TxID(transactions[s.Index])
            => r.Conflict \/ s.Conflict

(* "Duration: how long the execution took" is known of every result.       *)
DurationsKnown == \A k \in DOMAIN results : results[k].Timed
=============================================================================
