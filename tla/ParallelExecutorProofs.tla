----------------------- MODULE ParallelExecutorProofs -----------------------
(***************************************************************************)
(* ExecuteBatch does what BatchExecution promises, with any number of      *)
(* workers, any room in the channels and any way to cut the list up: no    *)
(* transaction is lost or answered twice on its way through the pool, and  *)
(* what a call leaves is BatchResult of its list.                          *)
(* The reason is that nothing a worker reads ever changes inside a call:   *)
(* accounts are only opened, so a sender's account is the same in the      *)
(* state, in the copy and in every task (CopyInv, TaskInv).                *)
(***************************************************************************)
EXTENDS ParallelExecutor, WellFoundedInduction, FiniteSetTheorems,
        SequenceTheorems, TLAPS

Answer == [Index : Nat, Success : BOOLEAN, WriteSet : SUBSET (Addr \X Field),
           Conflict : BOOLEAN, Timed : BOOLEAN]

TaskType == [Index : Nat, State : AccountMap]

(* The values the variables take.                                          *)
TypeOK ==
    /\ State \in AccountMap /\ stateCopy \in AccountMap
    /\ transactions \in Lists \cup {<<>>}
    /\ pc \in {"idle", "sequential", "parallel", "submit", "collect", "merge"}
    /\ todo \in SUBSET Nat /\ toSubmit \in SUBSET Nat /\ batchSize \in Nat
    /\ workChan \in Seq(TaskType) /\ handling \in SUBSET TaskType
    /\ IsFiniteSet(handling)
    /\ resultChan \in Seq(Answer) /\ batchResults \in Seq(Answer)
    /\ results \in Seq(Answer)

(* What is empty where, and what batchSize counts.                         *)
PhaseInv ==
    /\ pc /= "idle" => transactions \in Lists
    /\ pc = "idle" => todo = {}
    /\ pc \notin {"submit", "collect"} =>
           workChan = <<>> /\ handling = {} /\ resultChan = <<>>
    /\ pc /= "submit" => toSubmit = {}
    /\ pc \in {"idle", "sequential", "parallel"} => batchResults = <<>>
    /\ pc \in {"submit", "collect"} =>
           InFlight + Len(resultChan) + Len(batchResults) = batchSize
    /\ pc = "sequential" => Len(transactions) < MinBatchSizeForParallel
    /\ pc \notin {"idle", "sequential"} =>
           ~(Len(transactions) < MinBatchSizeForParallel)

(* A transaction under way is in one place, and there once.                *)
DistinctInv ==
    /\ toSubmit \cap (IndicesIn(workChan) \cup HandledIndices) = {}
    /\ IndicesIn(workChan) \cap HandledIndices = {}
    /\ \A j, k \in DOMAIN workChan : workChan[j].Index = workChan[k].Index => j = k

AnsweredOf(r) == r.Index \in Index /\
    /\ r.Success = CanExecute(State, transactions[r.Index])
    /\ r.WriteSet = IF r.Success THEN WriteKeys(transactions[r.Index]) ELSE {}

(* Every answer is the one the accounts before the call give.              *)
AnswerInv ==
    pc /= "idle" =>
        /\ \A k \in DOMAIN resultChan : AnsweredOf(resultChan[k])
        /\ \A k \in DOMAIN batchResults : AnsweredOf(batchResults[k])
        /\ \A k \in DOMAIN results : AnsweredOf(results[k])

Outcome(S) == BatchResult(State, {transactions[i] : i \in S}, Len(transactions),
                          MinBatchSizeForParallel)

(* The copy is the state with what the results so far have opened.         *)
CopyInv == pc /= "idle" => stateCopy = Outcome(IndicesIn(results))

(* The accounts of senders are there, and a task sees them as they are.    *)
SeesSenders(acc) == \A t \in TxSet : acc[Plain(t.Sender)] = State[Plain(t.Sender)]

SendersInv == \A t \in TxSet : Exists(State, t.Sender)

TaskInv ==
    /\ \A k \in DOMAIN workChan : SeesSenders(workChan[k].State)
    /\ \A task \in handling : SeesSenders(task.State)

PoolInv ==
    /\ TypeOK /\ PhaseInv /\ DistinctInv /\ EveryTransactionAnswered
    /\ SendersInv /\ TaskInv /\ AnswerInv /\ CopyInv

-----------------------------------------------------------------------------
(* Channels, lists and minima.                                             *)

LEMMA IndicesOfNone == IndicesIn(<<>>) = {}
BY DEF IndicesIn

LEMMA IndicesAppend ==
    ASSUME NEW S, NEW s \in Seq(S), NEW x \in S
    PROVE  IndicesIn(Append(s, x)) = IndicesIn(s) \cup {x.Index}
<1>1. /\ Len(s) \in Nat /\ DOMAIN s = 1 .. Len(s)
      /\ DOMAIN Append(s, x) = 1 .. Len(s) + 1
      /\ \A k \in 1 .. Len(s) : Append(s, x)[k] = s[k]
      /\ Append(s, x)[Len(s) + 1] = x
  BY AppendProperties, LenProperties
<1>2. ASSUME NEW k \in 1 .. Len(s) + 1
      PROVE  Append(s, x)[k].Index \in IndicesIn(s) \cup {x.Index}
  <2>1. CASE k = Len(s) + 1
    BY <1>1, <2>1
  <2>2. CASE k \in 1 .. Len(s)
    BY <1>1, <2>2 DEF IndicesIn
  <2> QED BY <1>1, <2>1, <2>2
<1>3. ASSUME NEW k \in 1 .. Len(s)
      PROVE  s[k].Index \in IndicesIn(Append(s, x))
  <2>1. k \in DOMAIN Append(s, x) /\ s[k] = Append(s, x)[k]
    BY <1>1
  <2> QED BY <2>1 DEF IndicesIn
<1>4. x.Index \in IndicesIn(Append(s, x))
  <2>1. Len(s) + 1 \in DOMAIN Append(s, x)
    BY <1>1
  <2> QED BY <1>1, <2>1 DEF IndicesIn
<1> QED BY <1>1, <1>2, <1>3, <1>4 DEF IndicesIn

LEMMA IndicesHead ==
    ASSUME NEW S, NEW s \in Seq(S), s /= <<>>
    PROVE  IndicesIn(s) = {Head(s).Index} \cup IndicesIn(Tail(s))
<1>1. /\ Len(s) \in Nat \ {0} /\ DOMAIN s = 1 .. Len(s) /\ Head(s) = s[1]
      /\ DOMAIN Tail(s) = 1 .. Len(s) - 1
      /\ \A k \in 1 .. Len(s) - 1 : Tail(s)[k] = s[k + 1]
  BY HeadTailProperties, LenProperties, EmptySeq
<1>2. ASSUME NEW k \in 1 .. Len(s)
      PROVE  s[k].Index \in {Head(s).Index} \cup IndicesIn(Tail(s))
  <2>1. CASE k = 1
    BY <1>1, <2>1
  <2>2. CASE k > 1
    <3>1. k - 1 \in DOMAIN Tail(s) /\ Tail(s)[k - 1] = s[k]
      BY <1>1, <2>2
    <3> QED BY <3>1 DEF IndicesIn
  <2> QED BY <1>1, <2>1, <2>2
<1>3. ASSUME NEW k \in 1 .. Len(s) - 1
      PROVE  Tail(s)[k].Index \in IndicesIn(s)
  <2>1. k + 1 \in DOMAIN s /\ Tail(s)[k] = s[k + 1]
    BY <1>1
  <2> QED BY <2>1 DEF IndicesIn
<1>4. Head(s).Index \in IndicesIn(s)
  BY <1>1 DEF IndicesIn
<1> QED BY <1>1, <1>2, <1>3, <1>4 DEF IndicesIn

LEMMA LeastIsIn ==
    ASSUME NEW S \in SUBSET Nat, S /= {}
    PROVE  Least(S) \in S
<1> DEFINE R == {pair \in Nat \X Nat : pair[1] < pair[2]}
<1>1. IsWellFoundedOn(R, Nat)
  BY NatLessThanWellFounded DEF OpToRel
<1>2. \A j, k \in Nat : <<j, k>> \notin R => k <= j
  OBVIOUS
<1> HIDE DEF R
<1>3. PICK k \in S : \A j \in S : <<j, k>> \notin R
  BY <1>1, WFMin
<1> QED BY <1>2, <1>3 DEF Least

LEMMA ListFacts ==
    ASSUME NEW list \in Lists
    PROVE  /\ list \in Seq(TxSet) /\ Len(list) \in Nat \ {0} /\ list /= <<>>
           /\ DOMAIN list = 1 .. Len(list)
           /\ \A i \in DOMAIN list : list[i] \in TxSet
<1>1. PICK n \in 1 .. MaxTxs : list \in [1 .. n -> TxSet]
  BY DEF Lists
<1>2. list \in Seq(TxSet) /\ Len(list) = n /\ n \in Nat \ {0}
  BY <1>1, ExecutorAssumption
<1> QED BY <1>1, <1>2

LEMMA ListSize ==
    ASSUME NEW list \in Lists
    PROVE  IsFiniteSet(DOMAIN list) /\ Cardinality(DOMAIN list) = Len(list)
<1>1. PICK n \in Nat : n = Len(list)
  BY ListFacts
<1>2. n \in Int /\ (IF 1 > n THEN 0 ELSE n - 1 + 1) = n
  OBVIOUS
<1>3. IsFiniteSet(1 .. n) /\ Cardinality(1 .. n) = (IF 1 > n THEN 0 ELSE n - 1 + 1)
  BY <1>2, FS_Interval
<1> QED BY <1>1, <1>2, <1>3, ListFacts

LEMMA IndexFacts ==
    ASSUME TypeOK
    PROVE  /\ Len(transactions) \in Nat /\ Index = 1 .. Len(transactions)
           /\ IsFiniteSet(Index) /\ Index \subseteq Nat
           /\ Cardinality(Index) = Len(transactions)
           /\ \A i \in Index : transactions[i] \in TxSet
<1>1. /\ Len(transactions) \in Nat /\ Index = 1 .. Len(transactions)
      /\ \A i \in Index : transactions[i] \in TxSet
  <2>1. CASE transactions = <<>>
    <3>1. Len(<<>>) = 0 /\ DOMAIN <<>> = {} /\ 1 .. 0 = {}
      OBVIOUS
    <3> QED BY <2>1, <3>1 DEF Index
  <2>2. CASE transactions \in Lists
    BY <2>2, ListFacts DEF Index
  <2> QED BY <2>1, <2>2 DEF TypeOK
<1>2. IsFiniteSet(Index) /\ Cardinality(Index) = Len(transactions)
  <2>1. CASE transactions = <<>>
    <3>1. Len(<<>>) = 0 /\ DOMAIN <<>> = {}
      OBVIOUS
    <3> QED BY <2>1, <3>1, FS_EmptySet DEF Index
  <2>2. CASE transactions \in Lists
    BY <2>2, ListSize DEF Index
  <2> QED BY <2>1, <2>2 DEF TypeOK
<1> QED BY <1>1, <1>2

(* What is to be done is part of the list, and can be counted.             *)
LEMMA Counts ==
    ASSUME TypeOK, EveryTransactionAnswered
    PROVE  /\ todo \subseteq Index /\ toSubmit \subseteq Index
           /\ IndicesIn(workChan) \subseteq Index /\ HandledIndices \subseteq Index
           /\ IsFiniteSet(todo) /\ IsFiniteSet(toSubmit)
           /\ Cardinality(todo) \in Nat /\ Cardinality(toSubmit) \in Nat
           /\ Cardinality(handling) \in Nat
           /\ Len(workChan) \in Nat /\ Len(resultChan) \in Nat
           /\ Len(batchResults) \in Nat /\ Len(results) \in Nat
<1>1. /\ todo \subseteq Index /\ toSubmit \subseteq Index
      /\ IndicesIn(workChan) \subseteq Index /\ HandledIndices \subseteq Index
  BY DEF EveryTransactionAnswered
<1>2. IsFiniteSet(todo) /\ IsFiniteSet(toSubmit)
  BY <1>1, IndexFacts, FS_Subset
<1>3. /\ Len(workChan) \in Nat /\ Len(resultChan) \in Nat
      /\ Len(batchResults) \in Nat /\ Len(results) \in Nat
  BY LenProperties DEF TypeOK
<1> QED BY <1>1, <1>2, <1>3, FS_CardinalityType DEF TypeOK

-----------------------------------------------------------------------------
(* What a batch does to the accounts.                                      *)

LEMMA ChecksAgree ==
    ASSUME NEW acc, NEW t \in TxSet, SeesSenders(acc)
    PROVE  CanExecute(acc, t) = CanExecute(State, t)
<1>1. acc[Plain(t.Sender)] = State[Plain(t.Sender)]
  BY DEF SeesSenders
<1> QED BY <1>1 DEF CanExecute, Exists, NonceMatches, BalanceCovers

LEMMA ZeroIsAccount == ZeroAccount \in Account /\ ZeroAccount /= NoAccount
BY ExecutorAssumption DEF ExecutorAssumption, ZeroAccount, Account

LEMMA ResultIsMap ==
    ASSUME NEW acc \in AccountMap, NEW S, NEW n, NEW m
    PROVE  BatchResult(acc, S, n, m) \in AccountMap
BY ZeroIsAccount DEF BatchResult, AccountMap

LEMMA NothingOpened ==
    ASSUME NEW acc \in AccountMap, NEW n, NEW m
    PROVE  BatchResult(acc, {}, n, m) = acc
<1>1. OpenedNames({t \in {} : CanExecute(acc, t)}, n, m) = {}
  BY DEF OpenedNames
<1> QED BY <1>1 DEF BatchResult, AccountMap

LEMMA OpenedByOneMore ==
    ASSUME NEW S, NEW t, NEW n, NEW m
    PROVE  OpenedNames(S \cup {t}, n, m) =
               OpenedNames(S, n, m) \cup {ParsedName(k) : k \in WriteKeys(t)}
                   \cup (IF n < m THEN {Plain(t.Recipient)} ELSE {})
<1>1. UNION {WriteKeys(u) : u \in S \cup {t}}
          = (UNION {WriteKeys(u) : u \in S}) \cup WriteKeys(t)
  OBVIOUS
<1>2. {Plain(u.Recipient) : u \in S \cup {t}}
          = {Plain(u.Recipient) : u \in S} \cup {Plain(t.Recipient)}
  OBVIOUS
<1> DEFINE A == UNION {WriteKeys(u) : u \in S}
<1>3. {ParsedName(k) : k \in A \cup WriteKeys(t)}
          = {ParsedName(k) : k \in A} \cup {ParsedName(k) : k \in WriteKeys(t)}
  OBVIOUS
<1> HIDE DEF A
<1>4. {ParsedName(k) : k \in UNION {WriteKeys(u) : u \in S \cup {t}}}
          = {ParsedName(k) : k \in A} \cup {ParsedName(k) : k \in WriteKeys(t)}
  BY <1>1, <1>3 DEF A
<1> QED BY <1>2, <1>4 DEF OpenedNames, A

(* One transaction more: what its answer opens.                            *)
LEMMA OneMoreAnswered ==
    ASSUME NEW acc \in AccountMap, NEW S, NEW t, NEW n, NEW m, ~(n < m)
    PROVE  BatchResult(acc, S \cup {t}, n, m) =
               IF CanExecute(acc, t)
               THEN applyChanges(BatchResult(acc, S, n, m), WriteKeys(t))
               ELSE BatchResult(acc, S, n, m)
<1> DEFINE able == {u \in S : CanExecute(acc, u)}
           before == BatchResult(acc, S, n, m)
<1>1. CASE ~CanExecute(acc, t)
  <2>1. {u \in S \cup {t} : CanExecute(acc, u)} = able
    BY <1>1
  <2> QED BY <1>1, <2>1 DEF BatchResult
<1>2. CASE CanExecute(acc, t)
  <2>1. {u \in S \cup {t} : CanExecute(acc, u)} = able \cup {t}
    BY <1>2
  <2> DEFINE was == OpenedNames(able, n, m)
             new == {ParsedName(k) : k \in WriteKeys(t)}
  <2>2. OpenedNames(able \cup {t}, n, m) = was \cup new
    BY OpenedByOneMore
  <2>3. before = [name \in AccountName |->
                      IF name \in was /\ acc[name] = NoAccount THEN ZeroAccount
                      ELSE acc[name]]
    BY DEF BatchResult
  <2>4. BatchResult(acc, S \cup {t}, n, m) =
            [name \in AccountName |->
                IF name \in was \cup new /\ acc[name] = NoAccount THEN ZeroAccount
                ELSE acc[name]]
    BY <2>1, <2>2 DEF BatchResult
  <2>5. applyChanges(before, WriteKeys(t)) =
            [name \in AccountName |->
                IF before[name] = NoAccount /\ name \in new THEN ZeroAccount
                ELSE before[name]]
    BY DEF applyChanges
  <2> HIDE DEF was, new, before
  <2>6. ASSUME NEW name \in AccountName
        PROVE  (IF name \in was \cup new /\ acc[name] = NoAccount THEN ZeroAccount
                ELSE acc[name])
               = (IF before[name] = NoAccount /\ name \in new THEN ZeroAccount
                  ELSE before[name])
    BY <2>3, ZeroIsAccount
  <2>7. BatchResult(acc, S \cup {t}, n, m) = applyChanges(before, WriteKeys(t))
    BY <2>4, <2>5, <2>6
  <2> QED BY <1>2, <2>7 DEF before
<1> QED BY <1>1, <1>2

(* The same when it runs on the copy: its recipient is opened as well.     *)
LEMMA OneMoreExecuted ==
    ASSUME NEW acc \in AccountMap, NEW S, NEW t \in TxSet, NEW n, NEW m, n < m
    PROVE  BatchResult(acc, S \cup {t}, n, m) =
               IF CanExecute(acc, t)
               THEN applyChanges(OpenRecipient(BatchResult(acc, S, n, m), t),
                                 WriteKeys(t))
               ELSE BatchResult(acc, S, n, m)
<1> DEFINE able == {u \in S : CanExecute(acc, u)}
           before == BatchResult(acc, S, n, m)
<1>1. CASE ~CanExecute(acc, t)
  <2>1. {u \in S \cup {t} : CanExecute(acc, u)} = able
    BY <1>1
  <2> QED BY <1>1, <2>1 DEF BatchResult
<1>2. CASE CanExecute(acc, t)
  <2>1. {u \in S \cup {t} : CanExecute(acc, u)} = able \cup {t}
    BY <1>2
  <2> DEFINE was == OpenedNames(able, n, m)
             new == {ParsedName(k) : k \in WriteKeys(t)}
             there == Plain(t.Recipient)
             opened == OpenRecipient(before, t)
  <2>2. OpenedNames(able \cup {t}, n, m) = was \cup new \cup {there}
    BY OpenedByOneMore
  <2>3. before = [name \in AccountName |->
                      IF name \in was /\ acc[name] = NoAccount THEN ZeroAccount
                      ELSE acc[name]]
    BY DEF BatchResult
  <2>4. BatchResult(acc, S \cup {t}, n, m) =
            [name \in AccountName |->
                IF name \in was \cup new \cup {there} /\ acc[name] = NoAccount
                THEN ZeroAccount ELSE acc[name]]
    BY <2>1, <2>2 DEF BatchResult
  <2>5. applyChanges(opened, WriteKeys(t)) =
            [name \in AccountName |->
                IF opened[name] = NoAccount /\ name \in new THEN ZeroAccount
                ELSE opened[name]]
    BY DEF applyChanges
  <2>6. there \in AccountName
    BY ExecutorAssumption DEF ExecutorAssumption, Transaction, Plain, AccountName
  <2>7. opened = IF before[there] /= NoAccount THEN before
                 ELSE [before EXCEPT ![there] = ZeroAccount]
    BY DEF OpenRecipient, Exists
  <2> HIDE DEF was, new, before, there, opened
  <2>8. \A name \in AccountName :
            opened[name] = IF name = there /\ before[name] = NoAccount
                           THEN ZeroAccount ELSE before[name]
    BY <2>3, <2>6, <2>7
  <2>9. ASSUME NEW name \in AccountName
        PROVE  (IF name \in was \cup new \cup {there} /\ acc[name] = NoAccount
                THEN ZeroAccount ELSE acc[name])
               = (IF opened[name] = NoAccount /\ name \in new THEN ZeroAccount
                  ELSE opened[name])
    <3>1. before[name] = IF name \in was /\ acc[name] = NoAccount THEN ZeroAccount
                         ELSE acc[name]
      BY <2>3
    <3> QED BY <3>1, <2>8, ZeroIsAccount
  <2>10. BatchResult(acc, S \cup {t}, n, m) = applyChanges(opened, WriteKeys(t))
    BY <2>4, <2>5, <2>9
  <2> QED BY <1>2, <2>10 DEF before, opened
<1> QED BY <1>1, <1>2

(* An account that is there stays as it is: senders see no difference.     *)
LEMMA ResultKeepsAccounts ==
    ASSUME NEW acc, NEW S, NEW n, NEW m, NEW name \in AccountName,
           acc[name] /= NoAccount
    PROVE  BatchResult(acc, S, n, m)[name] = acc[name]
BY DEF BatchResult

LEMMA SenderNames == \A t \in TxSet : Plain(t.Sender) \in AccountName
BY ExecutorAssumption DEF ExecutorAssumption, Transaction, Plain, AccountName

LEMMA CopySeesSenders ==
    ASSUME SendersInv, NEW S
    PROVE  SeesSenders(Outcome(S))
BY SenderNames, ResultKeepsAccounts DEF SendersInv, SeesSenders, Exists, Outcome

-----------------------------------------------------------------------------
(* Each action keeps PoolInv.  A step within a call changes neither the    *)
(* state nor the list, and what depends on these alone stays.              *)

LEMMA SameCall ==
    ASSUME UNCHANGED <<State, transactions>>
    PROVE  /\ Index' = Index
           /\ \A S : (Outcome(S))' = Outcome(S)
           /\ SendersInv => SendersInv'
<1>1. \A S : (Outcome(S))' = Outcome(S)
  BY DEF Outcome
<1> QED BY <1>1 DEF Index, SendersInv

(* The answer of a worker, and of executeSequential.                       *)
LEMMA GoodAnswer ==
    ASSUME TypeOK, NEW i \in Index, NEW acc, SeesSenders(acc), NEW timed \in BOOLEAN,
           NEW r, r = executeTransaction(i, acc, timed)
    PROVE  /\ r \in Answer /\ r.Index = i /\ AnsweredOf(r)
           /\ r.Success = CanExecute(State, transactions[i])
           /\ r.WriteSet = IF r.Success THEN WriteKeys(transactions[i]) ELSE {}
<1>1. i \in Nat /\ transactions[i] \in TxSet
  BY IndexFacts
<1>2. CanExecute(acc, transactions[i]) = CanExecute(State, transactions[i])
  BY <1>1, ChecksAgree
<1>3. CanExecute(acc, transactions[i]) \in BOOLEAN
  BY DEF CanExecute, Exists, NonceMatches, BalanceCovers
<1>4. WriteKeys(transactions[i]) \in SUBSET (Addr \X Field)
  BY <1>1, ExecutorAssumption DEF ExecutorAssumption, Transaction, WriteKeys, Field
<1>5. /\ r.Index = i /\ r.Success = CanExecute(acc, transactions[i])
      /\ r.WriteSet = IF r.Success THEN WriteKeys(transactions[i]) ELSE {}
  BY DEF executeTransaction
<1>6. r \in Answer
  BY <1>1, <1>3, <1>4 DEF executeTransaction, Answer
<1> QED BY <1>2, <1>5, <1>6 DEF AnsweredOf

LEMMA AnsweredAppend ==
    ASSUME NEW s \in Seq(Answer), NEW r \in Answer, AnsweredOf(r),
           \A k \in DOMAIN s : AnsweredOf(s[k])
    PROVE  \A k \in DOMAIN Append(s, r) : AnsweredOf(Append(s, r)[k])
<1>1. /\ Len(s) \in Nat /\ DOMAIN s = 1 .. Len(s)
      /\ DOMAIN Append(s, r) = 1 .. Len(s) + 1
      /\ \A k \in 1 .. Len(s) : Append(s, r)[k] = s[k]
      /\ Append(s, r)[Len(s) + 1] = r
  BY AppendProperties, LenProperties
<1>2. \A k \in 1 .. Len(s) + 1 : k \in 1 .. Len(s) \/ k = Len(s) + 1
  BY <1>1
<1> QED BY <1>1, <1>2

LEMMA AnsweredTail ==
    ASSUME NEW s \in Seq(Answer), s /= <<>>, \A k \in DOMAIN s : AnsweredOf(s[k])
    PROVE  AnsweredOf(Head(s)) /\ \A k \in DOMAIN Tail(s) : AnsweredOf(Tail(s)[k])
<1>1. /\ Len(s) \in Nat \ {0} /\ DOMAIN s = 1 .. Len(s) /\ Head(s) = s[1]
      /\ DOMAIN Tail(s) = 1 .. Len(s) - 1
      /\ \A k \in 1 .. Len(s) - 1 : Tail(s)[k] = s[k + 1]
  BY HeadTailProperties, LenProperties, EmptySeq
<1>2. \A k \in 1 .. Len(s) - 1 : k + 1 \in DOMAIN s
  BY <1>1
<1>3. 1 \in DOMAIN s
  BY <1>1
<1> QED BY <1>1, <1>2, <1>3

LEMMA InitPool == Init => PoolInv
<1> SUFFICES ASSUME Init PROVE PoolInv
  OBVIOUS
<1>1. TypeOK
  BY FS_EmptySet, ExecutorAssumption DEF Init, TypeOK, ExecutorAssumption
<1>2. Len(<<>>) = 0 /\ DOMAIN <<>> = {} /\ Cardinality({}) = 0 /\ HandledIndices = {}
  BY FS_EmptySet DEF Init, HandledIndices
<1>3. EveryTransactionAnswered
  BY <1>2, IndicesOfNone DEF Init, EveryTransactionAnswered, InFlight, Index
<1>4. PhaseInv /\ DistinctInv /\ AnswerInv /\ CopyInv /\ TaskInv
  BY <1>2 DEF Init, PhaseInv, DistinctInv, AnswerInv, CopyInv, TaskInv
<1>5. SendersInv
  BY ExecutorAssumption DEF Init, SendersInv, ExecutorAssumption
<1> QED BY <1>1, <1>3, <1>4, <1>5 DEF PoolInv

LEMMA NothingKeepsPool == PoolInv /\ ExecuteNothing => PoolInv'
<1> SUFFICES ASSUME PoolInv, ExecuteNothing PROVE PoolInv'
  OBVIOUS
<1> USE DEF PoolInv
<1>1. /\ pc = "idle" /\ pc' = "idle" /\ todo' = {} /\ toSubmit' = {}
      /\ transactions' = <<>> /\ results' = <<>> /\ batchResults' = <<>>
      /\ workChan' = <<>> /\ resultChan' = <<>> /\ handling' = {}
      /\ UNCHANGED <<State, stateCopy, batchSize>>
  BY DEF ExecuteNothing, NewPool, PhaseInv, batchVars
<1>2. TypeOK'
  BY <1>1, FS_EmptySet DEF TypeOK
<1>3. /\ Len(<<>>) = 0 /\ DOMAIN <<>> = {} /\ Cardinality({}) = 0
      /\ HandledIndices' = {} /\ Index' = {}
  BY <1>1, FS_EmptySet DEF HandledIndices, Index
<1>4. \A s : s = <<>> => {s[k].Index : k \in DOMAIN s} = {}
  OBVIOUS
<1>5. EveryTransactionAnswered'
  BY <1>1, <1>3, <1>4 DEF EveryTransactionAnswered, InFlight, IndicesIn
<1>6. PhaseInv' /\ DistinctInv' /\ AnswerInv' /\ CopyInv' /\ TaskInv'
  BY <1>1, <1>3 DEF PhaseInv, DistinctInv, AnswerInv, CopyInv, TaskInv
<1>7. SendersInv'
  BY <1>1 DEF SendersInv
<1> QED BY <1>2, <1>5, <1>6, <1>7

LEMMA CallKeepsPool ==
    ASSUME PoolInv, NEW list \in Lists, ExecuteBatch(list)
    PROVE  PoolInv'
<1> USE DEF PoolInv
<1>1. /\ pc = "idle" /\ toSubmit' = {} /\ todo' = DOMAIN list
      /\ pc' = IF Len(list) < MinBatchSizeForParallel THEN "sequential" ELSE "parallel"
      /\ transactions' = list /\ results' = <<>> /\ batchResults' = <<>>
      /\ workChan' = <<>> /\ resultChan' = <<>> /\ handling' = {}
      /\ State' = State /\ stateCopy' = State /\ batchSize' = batchSize
  BY DEF ExecuteBatch, NewPool, PhaseInv, batchVars
<1>2. /\ DOMAIN list = 1 .. Len(list) /\ Cardinality(DOMAIN list) = Len(list)
      /\ DOMAIN list \subseteq Nat /\ Len(list) \in Nat
  BY ListFacts, ListSize
<1>3. TypeOK'
  BY <1>1, <1>2, FS_EmptySet DEF TypeOK
<1>4. /\ Len(<<>>) = 0 /\ DOMAIN <<>> = {} /\ Cardinality({}) = 0
      /\ HandledIndices' = {} /\ Index' = DOMAIN list
  BY <1>1, FS_EmptySet DEF HandledIndices, Index
<1>5. \A s : s = <<>> => {s[k].Index : k \in DOMAIN s} = {}
  OBVIOUS
<1>6. EveryTransactionAnswered'
  BY <1>1, <1>2, <1>4, <1>5 DEF EveryTransactionAnswered, InFlight, IndicesIn
<1>7. PhaseInv' /\ DistinctInv' /\ AnswerInv' /\ TaskInv'
  BY <1>1, <1>2, <1>4 DEF PhaseInv, DistinctInv, AnswerInv, TaskInv
<1>8. SendersInv'
  BY <1>1 DEF SendersInv
<1>9. CopyInv'
  <2>1. {list[i] : i \in {}} = {}
    OBVIOUS
  <2>2. stateCopy' = BatchResult(State, {list[i] : i \in {}}, Len(list),
                                 MinBatchSizeForParallel)
    BY <1>1, <2>1, NothingOpened DEF TypeOK
  <2>3. IndicesIn(results') = {}
    BY SMTT(30), <1>1, IndicesOfNone
  <2>4. stateCopy' = BatchResult(State', {transactions'[i] : i \in IndicesIn(results')},
                                 Len(transactions'), MinBatchSizeForParallel)
    BY <1>1, <2>2, <2>3
  <2> QED BY <2>4 DEF CopyInv, Outcome
<1> QED BY <1>3, <1>6, <1>7, <1>8, <1>9

(* One answer more among the results, and the copy with what it opened.    *)
LEMMA OutcomeOfOneMore ==
    ASSUME TypeOK, NEW S \in SUBSET Index, NEW i \in Index
    PROVE  Outcome(S \cup {i}) =
               BatchResult(State, {transactions[j] : j \in S} \cup {transactions[i]},
                           Len(transactions), MinBatchSizeForParallel)
<1>1. {transactions[j] : j \in S \cup {i}}
          = {transactions[j] : j \in S} \cup {transactions[i]}
  OBVIOUS
<1> QED BY <1>1 DEF Outcome

LEMMA ExecuteNextKeepsPool == PoolInv /\ ExecuteNext => PoolInv'
<1> SUFFICES ASSUME PoolInv, ExecuteNext PROVE PoolInv'
  OBVIOUS
<1>0. /\ TypeOK /\ PhaseInv /\ DistinctInv /\ EveryTransactionAnswered
      /\ SendersInv /\ TaskInv /\ AnswerInv /\ CopyInv
  BY DEF PoolInv
<1>1. PICK i : i = Least(todo)
  OBVIOUS
<1>2. PICK r : r = executeTransaction(i, stateCopy, TRUE)
  OBVIOUS
<1>3. /\ pc = "sequential" /\ pc' = "sequential" /\ todo /= {}
      /\ todo' = todo \ {i} /\ results' = Append(results, r)
      /\ stateCopy' = IF r.Success
                      THEN applyChanges(OpenRecipient(stateCopy, transactions[i]),
                                        r.WriteSet)
                      ELSE stateCopy
      /\ UNCHANGED <<State, transactions, toSubmit, batchSize, batchResults,
                     workChan, handling, resultChan>>
  BY <1>1, <1>2 DEF ExecuteNext, callVars, batchVars, poolVars
<1>4. i \in todo /\ i \in Index /\ transactions[i] \in TxSet
  BY <1>0, <1>1, <1>3, LeastIsIn, Counts, IndexFacts DEF TypeOK
<1>5. stateCopy = Outcome(IndicesIn(results)) /\ SeesSenders(stateCopy)
  BY <1>0, <1>3, CopySeesSenders DEF CopyInv
<1>6. /\ r \in Answer /\ r.Index = i /\ AnsweredOf(r)
      /\ r.Success = CanExecute(State, transactions[i])
      /\ r.WriteSet = IF r.Success THEN WriteKeys(transactions[i]) ELSE {}
  BY ZenonT(40), <1>0, <1>2, <1>4, <1>5, GoodAnswer
<1>7. stateCopy' = Outcome(IndicesIn(results) \cup {i})
  <2> DEFINE S == {transactions[j] : j \in IndicesIn(results)}
             n == Len(transactions)
             m == MinBatchSizeForParallel
  <2>1. n < m
    BY <1>0, <1>3 DEF PhaseInv
  <2>2. stateCopy = BatchResult(State, S, n, m)
    BY <1>5 DEF Outcome
  <2>3. IndicesIn(results) \subseteq Index
    BY <1>0 DEF EveryTransactionAnswered
  <2>4. Outcome(IndicesIn(results) \cup {i})
            = BatchResult(State, S \cup {transactions[i]}, n, m)
    BY <1>0, <1>4, <2>3, OutcomeOfOneMore
  <2> HIDE DEF S, n, m
  <2>5. BatchResult(State, S \cup {transactions[i]}, n, m) =
            IF CanExecute(State, transactions[i])
            THEN applyChanges(OpenRecipient(BatchResult(State, S, n, m),
                                            transactions[i]),
                              WriteKeys(transactions[i]))
            ELSE BatchResult(State, S, n, m)
    <3>1. State \in AccountMap
      BY <1>0 DEF TypeOK
    <3> QED BY <1>4, <2>1, <3>1, OneMoreExecuted
  <2>6. CASE r.Success
    BY <1>3, <1>6, <2>2, <2>4, <2>5, <2>6
  <2>7. CASE ~r.Success
    BY <1>3, <1>6, <2>2, <2>4, <2>5, <2>7
  <2> QED BY <2>6, <2>7
<1>8. IndicesIn(results') = IndicesIn(results) \cup {i}
      /\ Len(results') = Len(results) + 1
      /\ results' \in Seq(Answer) /\ DOMAIN results' = 1 .. Len(results) + 1
      /\ DOMAIN results = 1 .. Len(results)
      /\ \A k \in DOMAIN results : results'[k] = results[k]
      /\ results'[Len(results) + 1] = r
  BY <1>0, <1>3, <1>6, IndicesAppend, AppendProperties, LenProperties DEF TypeOK
<1>9. stateCopy' \in AccountMap
  BY <1>0, <1>7, ResultIsMap DEF TypeOK, Outcome
<1>10. TypeOK'
  BY <1>0, <1>3, <1>8, <1>9 DEF TypeOK
<1>11. Cardinality(todo') = Cardinality(todo) - 1
  BY <1>0, <1>3, <1>4, Counts, FS_RemoveElement
<1>12. Index' = Index /\ HandledIndices' = HandledIndices
  BY <1>3 DEF Index, HandledIndices
<1>13. EveryTransactionAnswered'
  <2>1. (todo \cup toSubmit \cup IndicesIn(workChan) \cup HandledIndices
          \cup IndicesIn(resultChan) \cup IndicesIn(batchResults)
          \cup IndicesIn(results))' = Index'
    BY <1>0, <1>3, <1>4, <1>8, <1>12 DEF EveryTransactionAnswered
  <2>2. (Cardinality(todo) + InFlight + Len(resultChan) + Len(batchResults)
          + Len(results))' = Len(transactions')
    <3>1. /\ Cardinality(todo) \in Nat /\ Cardinality(toSubmit) \in Nat
          /\ Cardinality(handling) \in Nat /\ Len(workChan) \in Nat
          /\ Len(resultChan) \in Nat /\ Len(batchResults) \in Nat
          /\ Len(results) \in Nat
      BY <1>0, Counts
    <3>2. InFlight' = InFlight /\ InFlight \in Nat
      BY <1>3, <3>1 DEF InFlight
    <3>3. Cardinality(todo) + InFlight + Len(resultChan) + Len(batchResults)
              + Len(results) = Len(transactions)
      BY <1>0 DEF EveryTransactionAnswered
    <3>4. /\ Cardinality(todo') = Cardinality(todo) - 1
          /\ Len(resultChan') = Len(resultChan)
          /\ Len(batchResults') = Len(batchResults)
          /\ Len(results') = Len(results) + 1
          /\ Len(transactions') = Len(transactions)
      BY <1>3, <1>8, <1>11
    <3> QED BY SMTT(30), <3>1, <3>2, <3>3, <3>4
  <2> QED BY <1>3, <2>1, <2>2 DEF EveryTransactionAnswered
<1>14. PhaseInv' /\ DistinctInv'
  BY <1>0, <1>3, <1>12 DEF PhaseInv, DistinctInv, InFlight, IndicesIn
<1>15. SendersInv' /\ TaskInv'
  BY <1>0, <1>3 DEF SendersInv, TaskInv, SeesSenders
<1>16. AnswerInv'
  <2>1. \A k \in DOMAIN results' : AnsweredOf(results'[k])
    BY <1>0, <1>3, <1>6, AnsweredAppend DEF TypeOK, AnswerInv
  <2> QED BY <1>0, <1>3, <1>12, <2>1 DEF AnswerInv, AnsweredOf
<1>17. CopyInv'
  <2>1. stateCopy' = Outcome(IndicesIn(results'))
    BY <1>7, <1>8
  <2> QED BY <1>3, <2>1 DEF CopyInv, Outcome, IndicesIn
<1> QED BY <1>10, <1>13, <1>14, <1>15, <1>16, <1>17 DEF PoolInv

LEMMA NextBatchKeepsPool ==
    ASSUME PoolInv, NEW b \in SUBSET todo, NextBatch(b)
    PROVE  PoolInv'
<1>0. /\ TypeOK /\ PhaseInv /\ DistinctInv /\ EveryTransactionAnswered
      /\ SendersInv /\ TaskInv /\ AnswerInv /\ CopyInv
  BY DEF PoolInv
<1>a. /\ todo \subseteq Index /\ toSubmit \subseteq Index
      /\ IsFiniteSet(todo) /\ IsFiniteSet(toSubmit)
      /\ Cardinality(todo) \in Nat /\ Cardinality(toSubmit) \in Nat
      /\ Cardinality(handling) \in Nat /\ Len(workChan) \in Nat
      /\ Len(resultChan) \in Nat /\ Len(batchResults) \in Nat
      /\ Len(results) \in Nat
  BY <1>0, Counts
<1>b. Cardinality(todo) + InFlight + Len(resultChan) + Len(batchResults)
          + Len(results) = Len(transactions)
  BY <1>0 DEF EveryTransactionAnswered
<1>1. /\ pc = "parallel" /\ pc' = "submit" /\ toSubmit = {} /\ toSubmit' = b
      /\ todo' = todo \ b /\ batchSize' = Cardinality(b)
      /\ workChan = <<>> /\ handling = {} /\ resultChan = <<>> /\ resultChan' = <<>>
      /\ batchResults = <<>> /\ batchResults' = <<>>
      /\ UNCHANGED <<State, transactions, stateCopy, results, workChan, handling>>
  BY <1>0 DEF NextBatch, PhaseInv, callVars
<1>2. /\ Cardinality(b) \in Nat
      /\ Cardinality(todo') = Cardinality(todo) - Cardinality(b)
  <2>1. todo \cap b = b
    OBVIOUS
  <2>2. IsFiniteSet(b)
    BY <1>a, FS_Subset
  <2>3. Cardinality(todo \ b) = Cardinality(todo) - Cardinality(todo \cap b)
    BY <1>a, FS_Difference
  <2> QED BY <1>1, <2>1, <2>2, <2>3, FS_CardinalityType
<1>3. /\ Len(<<>>) = 0 /\ DOMAIN <<>> = {} /\ Cardinality({}) = 0
      /\ HandledIndices = {} /\ HandledIndices' = {} /\ Index' = Index
  BY <1>1, FS_EmptySet DEF HandledIndices, Index
<1>4. InFlight = 0 /\ InFlight' = Cardinality(b)
  BY <1>1, <1>2, <1>3 DEF InFlight
<1>5. TypeOK'
  BY <1>0, <1>1, <1>2 DEF TypeOK
<1>6. EveryTransactionAnswered'
  <2>1. (todo \cup toSubmit \cup IndicesIn(workChan) \cup HandledIndices
          \cup IndicesIn(resultChan) \cup IndicesIn(batchResults)
          \cup IndicesIn(results))' = Index'
    <3>1. b \cup (todo \ b) = todo
      OBVIOUS
    <3> QED BY <1>0, <1>1, <1>3, <3>1, IndicesOfNone DEF EveryTransactionAnswered
  <2>2. (Cardinality(todo) + InFlight + Len(resultChan) + Len(batchResults)
          + Len(results))' = Len(transactions')
    BY <1>1, <1>2, <1>3, <1>4, <1>a, <1>b
  <2> QED BY <1>1, <2>1, <2>2 DEF EveryTransactionAnswered
<1>7. PhaseInv'
  BY <1>0, <1>1, <1>2, <1>3, <1>4 DEF PhaseInv
<1>8. DistinctInv' /\ TaskInv' /\ SendersInv'
  BY <1>0, <1>1, <1>3, IndicesOfNone DEF DistinctInv, TaskInv, SendersInv, SeesSenders
<1>9. AnswerInv' /\ CopyInv'
  BY <1>0, <1>1, <1>3 DEF AnswerInv, AnsweredOf, CopyInv, Outcome, IndicesIn
<1> QED BY <1>5, <1>6, <1>7, <1>8, <1>9 DEF PoolInv

LEMMA SubmitKeepsPool == PoolInv /\ Submit => PoolInv'
<1> SUFFICES ASSUME PoolInv, Submit PROVE PoolInv'
  OBVIOUS
<1>0. /\ TypeOK /\ PhaseInv /\ DistinctInv /\ EveryTransactionAnswered
      /\ SendersInv /\ TaskInv /\ AnswerInv /\ CopyInv
  BY DEF PoolInv
<1>a. /\ todo \subseteq Index /\ toSubmit \subseteq Index
      /\ IsFiniteSet(todo) /\ IsFiniteSet(toSubmit)
      /\ Cardinality(todo) \in Nat /\ Cardinality(toSubmit) \in Nat
      /\ Cardinality(handling) \in Nat /\ Len(workChan) \in Nat
      /\ Len(resultChan) \in Nat /\ Len(batchResults) \in Nat
      /\ Len(results) \in Nat
  BY <1>0, Counts
<1>b. Cardinality(todo) + InFlight + Len(resultChan) + Len(batchResults)
          + Len(results) = Len(transactions)
  BY <1>0 DEF EveryTransactionAnswered
<1>1. PICK i : i = Least(toSubmit)
  OBVIOUS
<1>2. PICK task : task = [Index |-> i, State |-> stateCopy]
  OBVIOUS
<1>3. /\ pc = "submit" /\ toSubmit /= {} /\ toSubmit' = toSubmit \ {i}
      /\ workChan' = Append(workChan, task)
      /\ UNCHANGED <<State, transactions, pc, todo, stateCopy, batchSize,
                     batchResults, results, handling, resultChan>>
  BY <1>1, <1>2 DEF Submit, Task, callVars
<1>4. i \in toSubmit /\ i \in Index /\ i \in Nat
  BY <1>0, <1>1, <1>3, <1>a, LeastIsIn DEF TypeOK
<1>5. task \in TaskType /\ task.Index = i /\ task.State = stateCopy
  BY <1>0, <1>2, <1>4 DEF TypeOK, TaskType
<1>6. SeesSenders(task.State)
  BY <1>0, <1>3, <1>5, CopySeesSenders DEF CopyInv
<1>7. /\ IndicesIn(workChan') = IndicesIn(workChan) \cup {i}
      /\ Len(workChan') = Len(workChan) + 1 /\ workChan' \in Seq(TaskType)
      /\ DOMAIN workChan' = 1 .. Len(workChan) + 1
      /\ DOMAIN workChan = 1 .. Len(workChan)
      /\ \A k \in 1 .. Len(workChan) : workChan'[k] = workChan[k]
      /\ workChan'[Len(workChan) + 1] = task
  BY <1>0, <1>3, <1>5, IndicesAppend, AppendProperties, LenProperties DEF TypeOK
<1>8. Cardinality(toSubmit') = Cardinality(toSubmit) - 1
  BY <1>3, <1>4, <1>a, FS_RemoveElement
<1>9. InFlight' = InFlight
  BY <1>3, <1>7, <1>8, <1>a DEF InFlight
<1>10. TypeOK'
  BY <1>0, <1>3, <1>7 DEF TypeOK
<1>11. Index' = Index /\ HandledIndices' = HandledIndices
  BY <1>3 DEF Index, HandledIndices
<1>12. EveryTransactionAnswered'
  <2>1. (todo \cup toSubmit \cup IndicesIn(workChan) \cup HandledIndices
          \cup IndicesIn(resultChan) \cup IndicesIn(batchResults)
          \cup IndicesIn(results))' = Index'
    BY <1>0, <1>3, <1>4, <1>7, <1>11 DEF EveryTransactionAnswered
  <2>2. (Cardinality(todo) + InFlight + Len(resultChan) + Len(batchResults)
          + Len(results))' = Len(transactions')
    BY <1>3, <1>9, <1>b
  <2> QED BY <1>3, <2>1, <2>2 DEF EveryTransactionAnswered
<1>13. PhaseInv'
  BY <1>0, <1>3, <1>9 DEF PhaseInv
<1>14. DistinctInv'
  <2>1. i \notin IndicesIn(workChan) /\ i \notin HandledIndices
    BY <1>0, <1>4 DEF DistinctInv
  <2>2. toSubmit' \cap (IndicesIn(workChan') \cup HandledIndices') = {}
        /\ IndicesIn(workChan') \cap HandledIndices' = {}
    BY <1>0, <1>3, <1>7, <1>11, <2>1 DEF DistinctInv
  <2>3. ASSUME NEW j \in DOMAIN workChan', NEW k \in DOMAIN workChan',
               workChan'[j].Index = workChan'[k].Index
        PROVE  j = k
    <3>1. \A h \in 1 .. Len(workChan) : workChan'[h].Index /= i
      BY <1>7, <2>1 DEF IndicesIn
    <3>2. \A h \in DOMAIN workChan' : h \in 1 .. Len(workChan) \/ h = Len(workChan) + 1
      BY <1>7, <1>a
    <3>3. \A h \in DOMAIN workChan' :
              h \in 1 .. Len(workChan) <=> workChan'[h].Index /= i
      BY <1>5, <1>7, <1>a, <3>1, <3>2
    <3>4. CASE j \in 1 .. Len(workChan)
      <4>1. k \in 1 .. Len(workChan)
        BY <2>3, <3>3, <3>4
      <4>2. workChan[j].Index = workChan[k].Index
        BY <1>7, <2>3, <3>4, <4>1
      <4> QED BY <1>0, <1>7, <3>4, <4>1, <4>2 DEF DistinctInv
    <3>5. CASE j \notin 1 .. Len(workChan)
      BY <2>3, <3>2, <3>3, <3>5
    <3> QED BY <3>4, <3>5
  <2> QED BY <2>2, <2>3 DEF DistinctInv
<1>15. TaskInv'
  <2>1. \A k \in DOMAIN workChan' : SeesSenders(workChan'[k].State)
    <3>1. \A h \in DOMAIN workChan' : h \in 1 .. Len(workChan) \/ h = Len(workChan) + 1
      BY <1>7, <1>a
    <3> QED BY <1>0, <1>6, <1>7, <3>1 DEF TaskInv
  <2> QED BY <1>0, <1>3, <2>1 DEF TaskInv, SeesSenders
<1>16. SendersInv' /\ AnswerInv' /\ CopyInv'
  BY <1>0, <1>3, <1>11
     DEF SendersInv, AnswerInv, AnsweredOf, CopyInv, Outcome, IndicesIn
<1> QED BY <1>10, <1>12, <1>13, <1>14, <1>15, <1>16 DEF PoolInv

LEMMA ReceiveKeepsPool == PoolInv /\ Receive => PoolInv'
<1> SUFFICES ASSUME PoolInv, Receive PROVE PoolInv'
  OBVIOUS
<1>0. /\ TypeOK /\ PhaseInv /\ DistinctInv /\ EveryTransactionAnswered
      /\ SendersInv /\ TaskInv /\ AnswerInv /\ CopyInv
  BY DEF PoolInv
<1>a. /\ todo \subseteq Index /\ toSubmit \subseteq Index
      /\ IsFiniteSet(todo) /\ IsFiniteSet(toSubmit)
      /\ Cardinality(todo) \in Nat /\ Cardinality(toSubmit) \in Nat
      /\ Cardinality(handling) \in Nat /\ Len(workChan) \in Nat
      /\ Len(resultChan) \in Nat /\ Len(batchResults) \in Nat
      /\ Len(results) \in Nat
  BY <1>0, Counts
<1>b. Cardinality(todo) + InFlight + Len(resultChan) + Len(batchResults)
          + Len(results) = Len(transactions)
  BY <1>0 DEF EveryTransactionAnswered
<1>1. PICK task : task = Head(workChan)
  OBVIOUS
<1>2. /\ workChan /= <<>> /\ pc \in {"submit", "collect"}
      /\ handling' = handling \cup {task} /\ workChan' = Tail(workChan)
      /\ UNCHANGED <<State, transactions, pc, todo, stateCopy, toSubmit, batchSize,
                     batchResults, results, resultChan>>
  BY <1>0, <1>1 DEF Receive, callVars, batchVars, PhaseInv
<1>3. /\ task \in TaskType /\ workChan' \in Seq(TaskType)
      /\ Len(workChan') = Len(workChan) - 1 /\ Len(workChan) \in Nat \ {0}
      /\ DOMAIN workChan = 1 .. Len(workChan)
      /\ DOMAIN workChan' = 1 .. Len(workChan) - 1 /\ task = workChan[1]
      /\ \A k \in 1 .. Len(workChan) - 1 : workChan'[k] = workChan[k + 1]
  BY <1>0, <1>1, <1>2, HeadTailProperties, LenProperties, EmptySeq DEF TypeOK
<1>4. IndicesIn(workChan) = {task.Index} \cup IndicesIn(workChan')
  BY <1>0, <1>1, <1>2, IndicesHead DEF TypeOK
<1>5. \A k \in DOMAIN workChan' : k + 1 \in DOMAIN workChan /\ k + 1 /= 1
  BY <1>3
<1>6. 1 \in DOMAIN workChan
  BY <1>3
<1>7. task.Index \notin HandledIndices /\ task.Index \notin IndicesIn(workChan')
  <2>1. task.Index \notin HandledIndices
    BY <1>0, <1>4 DEF DistinctInv
  <2>2. ASSUME NEW k \in DOMAIN workChan' PROVE workChan'[k].Index /= task.Index
    BY <1>0, <1>3, <1>5, <1>6 DEF DistinctInv
  <2> QED BY <2>1, <2>2 DEF IndicesIn
<1>8. task \notin handling
  BY <1>7 DEF HandledIndices
<1>9. IsFiniteSet(handling') /\ Cardinality(handling') = Cardinality(handling) + 1
  BY <1>0, <1>2, <1>8, FS_AddElement DEF TypeOK
<1>10. InFlight' = InFlight
  BY <1>2, <1>3, <1>9, <1>a DEF InFlight
<1>11. TypeOK'
  BY <1>0, <1>2, <1>3, <1>9 DEF TypeOK
<1>12. Index' = Index /\ HandledIndices' = HandledIndices \cup {task.Index}
  BY <1>2 DEF Index, HandledIndices
<1>13. EveryTransactionAnswered'
  <2>1. (todo \cup toSubmit \cup IndicesIn(workChan) \cup HandledIndices
          \cup IndicesIn(resultChan) \cup IndicesIn(batchResults)
          \cup IndicesIn(results))' = Index'
    BY <1>0, <1>2, <1>4, <1>12 DEF EveryTransactionAnswered
  <2>2. (Cardinality(todo) + InFlight + Len(resultChan) + Len(batchResults)
          + Len(results))' = Len(transactions')
    BY <1>2, <1>10, <1>b
  <2> QED BY <1>2, <2>1, <2>2 DEF EveryTransactionAnswered
<1>14. PhaseInv'
  BY <1>0, <1>2, <1>10 DEF PhaseInv
<1>15. DistinctInv'
  <2>1. toSubmit' \cap (IndicesIn(workChan') \cup HandledIndices') = {}
        /\ IndicesIn(workChan') \cap HandledIndices' = {}
    BY <1>0, <1>2, <1>4, <1>7, <1>12 DEF DistinctInv
  <2>2. ASSUME NEW j \in DOMAIN workChan', NEW k \in DOMAIN workChan',
               workChan'[j].Index = workChan'[k].Index
        PROVE  j = k
    <3>1. j + 1 = k + 1
      BY <1>0, <1>3, <1>5, <2>2 DEF DistinctInv
    <3> QED BY <1>3, <3>1
  <2> QED BY <2>1, <2>2 DEF DistinctInv
<1>16. TaskInv'
  <2>1. \A k \in DOMAIN workChan' : SeesSenders(workChan'[k].State)
    BY <1>0, <1>3, <1>5 DEF TaskInv
  <2>2. SeesSenders(task.State)
    BY <1>0, <1>3, <1>6 DEF TaskInv
  <2> QED BY <1>0, <1>2, <2>1, <2>2 DEF TaskInv, SeesSenders
<1>17. SendersInv' /\ AnswerInv' /\ CopyInv'
  BY <1>0, <1>2, <1>12
     DEF SendersInv, AnswerInv, AnsweredOf, CopyInv, Outcome, IndicesIn
<1> QED BY <1>11, <1>13, <1>14, <1>15, <1>16, <1>17 DEF PoolInv

LEMMA HandleKeepsPool ==
    ASSUME PoolInv, NEW task \in handling, Handle(task)
    PROVE  PoolInv'
<1>0. /\ TypeOK /\ PhaseInv /\ DistinctInv /\ EveryTransactionAnswered
      /\ SendersInv /\ TaskInv /\ AnswerInv /\ CopyInv
  BY DEF PoolInv
<1>a. /\ todo \subseteq Index /\ toSubmit \subseteq Index
      /\ IsFiniteSet(todo) /\ IsFiniteSet(toSubmit)
      /\ Cardinality(todo) \in Nat /\ Cardinality(toSubmit) \in Nat
      /\ Cardinality(handling) \in Nat /\ Len(workChan) \in Nat
      /\ Len(resultChan) \in Nat /\ Len(batchResults) \in Nat
      /\ Len(results) \in Nat
  BY <1>0, Counts
<1>b. Cardinality(todo) + InFlight + Len(resultChan) + Len(batchResults)
          + Len(results) = Len(transactions)
  BY <1>0 DEF EveryTransactionAnswered
<1>1. PICK r : r = executeTransaction(task.Index, task.State, FALSE)
  OBVIOUS
<1>2. /\ handling' = handling \ {task} /\ resultChan' = Append(resultChan, r)
      /\ UNCHANGED <<State, transactions, pc, todo, stateCopy, toSubmit, batchSize,
                     batchResults, results, workChan>>
  BY <1>1 DEF Handle, callVars, batchVars
<1>3. pc \in {"submit", "collect"} /\ task \in TaskType
  BY <1>0 DEF PhaseInv, TypeOK
<1>4. task.Index \in HandledIndices /\ task.Index \in Index
  <2>1. task.Index \in HandledIndices
    BY DEF HandledIndices
  <2> QED BY <1>0, <2>1, Counts
<1>5. /\ r \in Answer /\ r.Index = task.Index /\ AnsweredOf(r)
  <2>1. TypeOK /\ SeesSenders(task.State) /\ FALSE \in BOOLEAN
    BY <1>0 DEF TaskInv
  <2>2. PICK i \in Index : i = task.Index
    BY <1>4
  <2>3. r = executeTransaction(i, task.State, FALSE)
    BY <1>1, <2>2
  <2>4. r \in Answer /\ r.Index = i /\ AnsweredOf(r)
    BY <2>1, <2>3, GoodAnswer
  <2> QED BY <2>2, <2>4
<1>6. /\ IndicesIn(resultChan') = IndicesIn(resultChan) \cup {task.Index}
      /\ Len(resultChan') = Len(resultChan) + 1 /\ resultChan' \in Seq(Answer)
  BY <1>0, <1>2, <1>5, IndicesAppend, AppendProperties DEF TypeOK
<1>7. IsFiniteSet(handling') /\ Cardinality(handling') = Cardinality(handling) - 1
  BY <1>0, <1>2, FS_RemoveElement DEF TypeOK
<1>8. InFlight' = InFlight - 1 /\ InFlight \in Nat
  BY <1>2, <1>7, <1>a DEF InFlight
<1>9. TypeOK'
  BY <1>0, <1>2, <1>6, <1>7 DEF TypeOK
<1>10. /\ Index' = Index /\ HandledIndices' \subseteq HandledIndices
       /\ HandledIndices \subseteq HandledIndices' \cup {task.Index}
  BY <1>2 DEF Index, HandledIndices
<1>11. EveryTransactionAnswered'
  <2>1. (todo \cup toSubmit \cup IndicesIn(workChan) \cup HandledIndices
          \cup IndicesIn(resultChan) \cup IndicesIn(batchResults)
          \cup IndicesIn(results))' = Index'
    BY <1>0, <1>2, <1>4, <1>6, <1>10 DEF EveryTransactionAnswered
  <2>2. (Cardinality(todo) + InFlight + Len(resultChan) + Len(batchResults)
          + Len(results))' = Len(transactions')
    BY SMTT(30), <1>2, <1>6, <1>8, <1>a, <1>b
  <2> QED BY <1>2, <1>3, <2>1, <2>2 DEF EveryTransactionAnswered
<1>12. PhaseInv'
  BY <1>0, <1>2, <1>3, <1>6, <1>8, <1>a DEF PhaseInv
<1>13. DistinctInv'
  BY <1>0, <1>2, <1>10 DEF DistinctInv
<1>14. TaskInv' /\ SendersInv' /\ CopyInv'
  BY <1>0, <1>2 DEF TaskInv, SendersInv, SeesSenders, CopyInv, Outcome, IndicesIn
<1>15. AnswerInv'
  <2>1. \A k \in DOMAIN resultChan' : AnsweredOf(resultChan'[k])
    BY <1>0, <1>2, <1>3, <1>5, AnsweredAppend DEF TypeOK, AnswerInv
  <2> QED BY <1>0, <1>2, <1>10, <2>1 DEF AnswerInv, AnsweredOf
<1> QED BY <1>9, <1>11, <1>12, <1>13, <1>14, <1>15 DEF PoolInv

LEMMA CollectKeepsPool == PoolInv /\ Collect => PoolInv'
<1> SUFFICES ASSUME PoolInv, Collect PROVE PoolInv'
  OBVIOUS
<1>0. /\ TypeOK /\ PhaseInv /\ DistinctInv /\ EveryTransactionAnswered
      /\ SendersInv /\ TaskInv /\ AnswerInv /\ CopyInv
  BY DEF PoolInv
<1>a. /\ todo \subseteq Index /\ toSubmit \subseteq Index
      /\ IsFiniteSet(todo) /\ IsFiniteSet(toSubmit)
      /\ Cardinality(todo) \in Nat /\ Cardinality(toSubmit) \in Nat
      /\ Cardinality(handling) \in Nat /\ Len(workChan) \in Nat
      /\ Len(resultChan) \in Nat /\ Len(batchResults) \in Nat
      /\ Len(results) \in Nat
  BY <1>0, Counts
<1>b. Cardinality(todo) + InFlight + Len(resultChan) + Len(batchResults)
          + Len(results) = Len(transactions)
  BY <1>0 DEF EveryTransactionAnswered
<1>1. PICK r : r = Head(resultChan)
  OBVIOUS
<1>2. /\ pc = "collect" /\ resultChan /= <<>> /\ resultChan' = Tail(resultChan)
      /\ batchResults' = Append(batchResults, r)
      /\ UNCHANGED <<State, transactions, pc, todo, stateCopy, toSubmit, batchSize,
                     results, workChan, handling>>
  BY <1>1 DEF Collect, callVars
<1>3. /\ r \in Answer /\ resultChan' \in Seq(Answer)
      /\ Len(resultChan') = Len(resultChan) - 1
      /\ IndicesIn(resultChan) = {r.Index} \cup IndicesIn(resultChan')
  BY <1>0, <1>1, <1>2, IndicesHead, HeadTailProperties DEF TypeOK
<1>4. /\ IndicesIn(batchResults') = IndicesIn(batchResults) \cup {r.Index}
      /\ Len(batchResults') = Len(batchResults) + 1 /\ batchResults' \in Seq(Answer)
  BY <1>0, <1>2, <1>3, IndicesAppend, AppendProperties DEF TypeOK
<1>5. InFlight' = InFlight /\ InFlight \in Nat
  BY <1>2, <1>a DEF InFlight
<1>6. TypeOK'
  BY <1>0, <1>2, <1>3, <1>4 DEF TypeOK
<1>7. Index' = Index /\ HandledIndices' = HandledIndices
  BY <1>2 DEF Index, HandledIndices
<1>8. EveryTransactionAnswered'
  <2>1. (todo \cup toSubmit \cup IndicesIn(workChan) \cup HandledIndices
          \cup IndicesIn(resultChan) \cup IndicesIn(batchResults)
          \cup IndicesIn(results))' = Index'
    BY <1>0, <1>2, <1>3, <1>4, <1>7 DEF EveryTransactionAnswered
  <2>2. (Cardinality(todo) + InFlight + Len(resultChan) + Len(batchResults)
          + Len(results))' = Len(transactions')
    <3>1. /\ Len(resultChan') = Len(resultChan) - 1
          /\ Len(batchResults') = Len(batchResults) + 1
          /\ Cardinality(todo') = Cardinality(todo)
          /\ Len(results') = Len(results)
          /\ Len(transactions') = Len(transactions)
      BY <1>2, <1>3, <1>4
    <3>2. PICK n \in Nat : n = Cardinality(todo)
      BY <1>a
    <3>3. PICK f \in Nat : f = InFlight
      BY <1>5
    <3>4. n + f + Len(resultChan) + Len(batchResults) + Len(results)
              = Len(transactions)
      BY <1>b, <3>2, <3>3
    <3>5. n + f + Len(resultChan') + Len(batchResults') + Len(results')
              = Len(transactions')
      BY SMTT(30), <1>a, <3>1, <3>4
    <3> QED BY <1>5, <3>1, <3>2, <3>3, <3>5
  <2> QED BY <1>2, <2>1, <2>2 DEF EveryTransactionAnswered
<1>9. PhaseInv'
  BY <1>0, <1>2, <1>3, <1>4, <1>5, <1>a DEF PhaseInv
<1>10. DistinctInv'
  BY <1>0, <1>2, <1>7 DEF DistinctInv
<1>11. TaskInv' /\ SendersInv' /\ CopyInv'
  BY <1>0, <1>2 DEF TaskInv, SendersInv, SeesSenders, CopyInv, Outcome, IndicesIn
<1>12. AnswerInv'
  <2>1. AnsweredOf(r) /\ \A k \in DOMAIN resultChan' : AnsweredOf(resultChan'[k])
    BY <1>0, <1>1, <1>2, AnsweredTail DEF TypeOK, AnswerInv
  <2>2. \A k \in DOMAIN batchResults' : AnsweredOf(batchResults'[k])
    BY <1>0, <1>2, <1>3, <2>1, AnsweredAppend DEF TypeOK, AnswerInv
  <2> QED BY <1>0, <1>2, <1>7, <2>1, <2>2 DEF AnswerInv, AnsweredOf
<1> QED BY <1>6, <1>8, <1>9, <1>10, <1>11, <1>12 DEF PoolInv

LEMMA ApplyNextKeepsPool == PoolInv /\ ApplyNext => PoolInv'
<1> SUFFICES ASSUME PoolInv, ApplyNext PROVE PoolInv'
  OBVIOUS
<1>0. /\ TypeOK /\ PhaseInv /\ DistinctInv /\ EveryTransactionAnswered
      /\ SendersInv /\ TaskInv /\ AnswerInv /\ CopyInv
  BY DEF PoolInv
<1>a. /\ todo \subseteq Index /\ toSubmit \subseteq Index
      /\ IsFiniteSet(todo) /\ IsFiniteSet(toSubmit)
      /\ Cardinality(todo) \in Nat /\ Cardinality(toSubmit) \in Nat
      /\ Cardinality(handling) \in Nat /\ Len(workChan) \in Nat
      /\ Len(resultChan) \in Nat /\ Len(batchResults) \in Nat
      /\ Len(results) \in Nat
  BY <1>0, Counts
<1>b. Cardinality(todo) + InFlight + Len(resultChan) + Len(batchResults)
          + Len(results) = Len(transactions)
  BY <1>0 DEF EveryTransactionAnswered
<1>1. PICK r : r = Head(batchResults)
  OBVIOUS
<1>2. /\ pc = "merge" /\ batchResults /= <<>> /\ batchResults' = Tail(batchResults)
      /\ stateCopy' = (IF r.Success THEN applyChanges(stateCopy, r.WriteSet)
                       ELSE stateCopy)
      /\ results' = Append(results, r)
      /\ UNCHANGED <<State, transactions, pc, todo, toSubmit, batchSize,
                     workChan, handling, resultChan>>
  BY <1>1 DEF ApplyNext, callVars, poolVars
<1>3. /\ r \in Answer /\ batchResults' \in Seq(Answer)
      /\ Len(batchResults') = Len(batchResults) - 1
      /\ IndicesIn(batchResults) = {r.Index} \cup IndicesIn(batchResults')
  BY <1>0, <1>1, <1>2, IndicesHead, HeadTailProperties DEF TypeOK
<1>4. /\ IndicesIn(results') = IndicesIn(results) \cup {r.Index}
      /\ Len(results') = Len(results) + 1 /\ results' \in Seq(Answer)
  BY <1>0, <1>2, <1>3, IndicesAppend, AppendProperties DEF TypeOK
<1>5. AnsweredOf(r) /\ \A k \in DOMAIN batchResults' : AnsweredOf(batchResults'[k])
  BY <1>0, <1>1, <1>2, AnsweredTail DEF TypeOK, AnswerInv
<1>6. /\ r.Index \in Index /\ transactions[r.Index] \in TxSet
      /\ r.Success = CanExecute(State, transactions[r.Index])
      /\ r.WriteSet = IF r.Success THEN WriteKeys(transactions[r.Index]) ELSE {}
  <2>1. /\ r.Index \in Index
        /\ r.Success = CanExecute(State, transactions[r.Index])
        /\ r.WriteSet = IF r.Success THEN WriteKeys(transactions[r.Index]) ELSE {}
    BY <1>5 DEF AnsweredOf
  <2> QED BY <1>0, <2>1, IndexFacts
<1>7. stateCopy' = Outcome(IndicesIn(results) \cup {r.Index})
  <2> DEFINE S == {transactions[j] : j \in IndicesIn(results)}
             n == Len(transactions)
             m == MinBatchSizeForParallel
             t == transactions[r.Index]
  <2>1. ~(n < m)
    BY <1>0, <1>2 DEF PhaseInv
  <2>2. stateCopy = BatchResult(State, S, n, m)
    BY <1>0, <1>2 DEF CopyInv, Outcome
  <2>3. IndicesIn(results) \subseteq Index
    BY <1>0 DEF EveryTransactionAnswered
  <2>4. Outcome(IndicesIn(results) \cup {r.Index}) = BatchResult(State, S \cup {t}, n, m)
    BY <1>0, <1>6, <2>3, OutcomeOfOneMore
  <2>5. State \in AccountMap
    BY <1>0 DEF TypeOK
  <2> HIDE DEF S, n, m
  <2>6. BatchResult(State, S \cup {t}, n, m) =
            IF CanExecute(State, t)
            THEN applyChanges(BatchResult(State, S, n, m), WriteKeys(t))
            ELSE BatchResult(State, S, n, m)
    BY <2>1, <2>5, OneMoreAnswered
  <2>7. CASE r.Success
    BY <1>2, <1>6, <2>2, <2>4, <2>6, <2>7
  <2>8. CASE ~r.Success
    BY <1>2, <1>6, <2>2, <2>4, <2>6, <2>8
  <2> QED BY <2>7, <2>8
<1>8. stateCopy' \in AccountMap
  BY <1>0, <1>7, ResultIsMap DEF TypeOK, Outcome
<1>9. TypeOK'
  BY <1>0, <1>2, <1>3, <1>4, <1>8 DEF TypeOK
<1>10. InFlight' = InFlight /\ InFlight \in Nat
  BY <1>2, <1>a DEF InFlight
<1>11. Index' = Index /\ HandledIndices' = HandledIndices
  BY <1>2 DEF Index, HandledIndices
<1>12. EveryTransactionAnswered'
  <2>1. (todo \cup toSubmit \cup IndicesIn(workChan) \cup HandledIndices
          \cup IndicesIn(resultChan) \cup IndicesIn(batchResults)
          \cup IndicesIn(results))' = Index'
    BY <1>0, <1>2, <1>3, <1>4, <1>11 DEF EveryTransactionAnswered
  <2>2. (Cardinality(todo) + InFlight + Len(resultChan) + Len(batchResults)
          + Len(results))' = Len(transactions')
    BY SMTT(30), <1>2, <1>3, <1>4, <1>10, <1>a, <1>b
  <2> QED BY <1>2, <2>1, <2>2 DEF EveryTransactionAnswered
<1>13. PhaseInv' /\ DistinctInv'
  BY <1>0, <1>2, <1>11 DEF PhaseInv, DistinctInv
<1>14. TaskInv' /\ SendersInv'
  BY <1>0, <1>2 DEF TaskInv, SendersInv, SeesSenders
<1>15. AnswerInv'
  <2>1. \A k \in DOMAIN results' : AnsweredOf(results'[k])
    <3>1. results \in Seq(Answer) /\ \A k \in DOMAIN results : AnsweredOf(results[k])
      BY <1>0, <1>2 DEF TypeOK, AnswerInv
    <3>2. AnsweredOf(r)
      BY <1>5
    <3> QED BY <1>2, <1>3, <3>1, <3>2, AnsweredAppend
  <2> QED BY <1>0, <1>2, <1>5, <1>11, <2>1 DEF AnswerInv, AnsweredOf
<1>16. CopyInv'
  <2>1. stateCopy' = Outcome(IndicesIn(results'))
    BY <1>4, <1>7
  <2> QED BY <1>2, <2>1 DEF CopyInv, Outcome, IndicesIn
<1> QED BY <1>9, <1>12, <1>13, <1>14, <1>15, <1>16 DEF PoolInv

(* Steps of the caller between the loops: only pc and batchSize move.      *)
LEMMA SameData ==
    ASSUME PoolInv, pc /= "idle", pc' /= "idle",
           UNCHANGED <<State, transactions, todo, stateCopy, toSubmit, batchResults,
                       results, workChan, handling, resultChan>>
    PROVE  /\ EveryTransactionAnswered' /\ DistinctInv' /\ SendersInv' /\ TaskInv'
           /\ AnswerInv' /\ CopyInv' /\ InFlight' = InFlight
<1>0. /\ TypeOK /\ PhaseInv /\ DistinctInv /\ EveryTransactionAnswered
      /\ SendersInv /\ TaskInv /\ AnswerInv /\ CopyInv
  BY DEF PoolInv
<1>1. /\ Index' = Index /\ HandledIndices' = HandledIndices /\ InFlight' = InFlight
  BY DEF Index, HandledIndices, InFlight
<1>2. EveryTransactionAnswered'
  BY <1>0, <1>1 DEF EveryTransactionAnswered
<1>3. DistinctInv'
  BY <1>0, <1>1 DEF DistinctInv
<1>4. SendersInv' /\ TaskInv'
  BY <1>0 DEF SendersInv, TaskInv, SeesSenders
<1>5. AnswerInv' /\ CopyInv'
  BY <1>0, <1>1 DEF AnswerInv, AnsweredOf, CopyInv, Outcome
<1> QED BY <1>1, <1>2, <1>3, <1>4, <1>5

LEMMA BetweenLoopsKeepsPool ==
    PoolInv /\ (AllSubmitted \/ StartMerge \/ BatchMerged) => PoolInv'
<1> SUFFICES ASSUME PoolInv, AllSubmitted \/ StartMerge \/ BatchMerged
             PROVE  PoolInv'
  OBVIOUS
<1>0. /\ TypeOK /\ PhaseInv /\ DistinctInv /\ EveryTransactionAnswered
      /\ SendersInv /\ TaskInv /\ AnswerInv /\ CopyInv
  BY DEF PoolInv
<1>1. /\ pc /= "idle" /\ pc' /= "idle"
      /\ UNCHANGED <<State, transactions, todo, stateCopy, toSubmit, batchResults,
                     results, workChan, handling, resultChan>>
  BY DEF AllSubmitted, StartMerge, BatchMerged, callVars, batchVars, poolVars
<1>2. /\ EveryTransactionAnswered' /\ DistinctInv' /\ SendersInv' /\ TaskInv'
      /\ AnswerInv' /\ CopyInv' /\ InFlight' = InFlight
  BY <1>1, SameData
<1>3. TypeOK'
  BY <1>0, <1>1 DEF TypeOK, AllSubmitted, StartMerge, BatchMerged, batchVars
<1>4. CASE AllSubmitted
  <2>1. PhaseInv'
    BY <1>0, <1>1, <1>2, <1>4 DEF PhaseInv, AllSubmitted, batchVars
  <2> QED BY <1>2, <1>3, <2>1 DEF PoolInv
<1>5. CASE StartMerge
  <2>1. /\ pc = "collect" /\ pc' = "merge" /\ batchSize' = batchSize
        /\ Len(batchResults) = batchSize
    BY <1>5 DEF StartMerge, AllCollected, batchVars
  <2>2. /\ InFlight + Len(resultChan) + Len(batchResults) = batchSize
        /\ toSubmit = {}
    BY <1>0, <2>1 DEF PhaseInv
  <2>3. /\ Cardinality(toSubmit) \in Nat /\ Cardinality(handling) \in Nat
        /\ Len(workChan) \in Nat /\ Len(resultChan) \in Nat /\ Len(batchResults) \in Nat
    BY <1>0, Counts
  <2>4. Cardinality(handling) = 0 /\ Len(workChan) = 0 /\ Len(resultChan) = 0
    BY <2>1, <2>2, <2>3 DEF InFlight
  <2>5. workChan = <<>> /\ handling = {} /\ resultChan = <<>>
    BY <1>0, <2>4, FS_EmptySet, EmptySeq DEF TypeOK
  <2>6. PhaseInv'
    BY <1>0, <1>1, <2>1, <2>2, <2>5 DEF PhaseInv
  <2> QED BY <1>2, <1>3, <2>6 DEF PoolInv
<1>6. CASE BatchMerged
  <2>1. PhaseInv'
    BY <1>0, <1>1, <1>6 DEF PhaseInv, BatchMerged
  <2> QED BY <1>2, <1>3, <2>1 DEF PoolInv
<1> QED BY <1>4, <1>5, <1>6

(* At the end of a call every transaction has its result, and the copy is  *)
(* what BatchResult says of the whole list.                                *)
LEMMA CallReturns ==
    ASSUME PoolInv, UpdateState
    PROVE  /\ IndicesIn(results) = Index /\ Len(results) = Len(transactions)
           /\ State' = BatchResult(State, {transactions[i] : i \in Index},
                                   Len(transactions), MinBatchSizeForParallel)
<1>0. /\ TypeOK /\ PhaseInv /\ DistinctInv /\ EveryTransactionAnswered
      /\ SendersInv /\ TaskInv /\ AnswerInv /\ CopyInv
  BY DEF PoolInv
<1>1. /\ pc \in {"sequential", "parallel"} /\ todo = {} /\ State' = stateCopy
      /\ toSubmit = {} /\ workChan = <<>> /\ handling = {} /\ resultChan = <<>>
      /\ batchResults = <<>>
  BY <1>0 DEF UpdateState, NothingLeft, PhaseInv
<1>2. /\ Len(<<>>) = 0 /\ Cardinality({}) = 0 /\ HandledIndices = {}
      /\ IndicesIn(<<>>) = {} /\ Len(results) \in Nat
  BY <1>0, <1>1, FS_EmptySet, IndicesOfNone, Counts DEF HandledIndices
<1>3. IndicesIn(results) = Index
  BY <1>0, <1>1, <1>2 DEF EveryTransactionAnswered
<1>4. InFlight = 0
  BY <1>1, <1>2 DEF InFlight
<1>5. Len(results) = Len(transactions)
  BY <1>0, <1>1, <1>2, <1>4 DEF EveryTransactionAnswered
<1> QED BY <1>0, <1>1, <1>3, <1>5 DEF CopyInv, Outcome

LEMMA UpdateKeepsPool == PoolInv /\ UpdateState => PoolInv'
<1> SUFFICES ASSUME PoolInv, UpdateState PROVE PoolInv'
  OBVIOUS
<1>0. /\ TypeOK /\ PhaseInv /\ DistinctInv /\ EveryTransactionAnswered
      /\ SendersInv /\ TaskInv /\ AnswerInv /\ CopyInv
  BY DEF PoolInv
<1>1. /\ pc \in {"sequential", "parallel"} /\ pc' = "idle" /\ todo = {} /\ todo' = {}
      /\ State' = stateCopy
      /\ toSubmit = {} /\ workChan = <<>> /\ handling = {} /\ resultChan = <<>>
      /\ batchResults = <<>>
      /\ UNCHANGED <<transactions, stateCopy, toSubmit, batchSize, batchResults,
                     results, workChan, handling, resultChan>>
  BY <1>0 DEF UpdateState, NothingLeft, PhaseInv, callVars, batchVars, poolVars
<1>2. TypeOK'
  BY <1>0, <1>1 DEF TypeOK
<1>3. Index' = Index /\ HandledIndices' = HandledIndices /\ InFlight' = InFlight
  BY <1>1 DEF Index, HandledIndices, InFlight
<1>4. EveryTransactionAnswered'
  BY <1>0, <1>1, <1>3, CallReturns DEF EveryTransactionAnswered
<1>5. PhaseInv' /\ DistinctInv'
  BY <1>0, <1>1, <1>3 DEF PhaseInv, DistinctInv
<1>6. AnswerInv' /\ CopyInv'
  BY <1>1 DEF AnswerInv, CopyInv
<1>7. TaskInv'
  <2>1. DOMAIN <<>> = {}
    OBVIOUS
  <2> QED BY <1>1, <2>1 DEF TaskInv
<1>8. SendersInv'
  <2>1. SeesSenders(stateCopy)
    BY <1>0, <1>1, CopySeesSenders DEF CopyInv
  <2> QED BY <1>0, <1>1, <2>1 DEF SendersInv, SeesSenders, Exists
<1> QED BY <1>2, <1>4, <1>5, <1>6, <1>7, <1>8 DEF PoolInv

LEMMA PoolStep == PoolInv /\ [Next]_vars => PoolInv'
<1> SUFFICES ASSUME PoolInv, [Next]_vars PROVE PoolInv'
  OBVIOUS
<1>1. CASE \E list \in Lists : ExecuteBatch(list)
  BY <1>1, CallKeepsPool
<1>2. CASE ExecuteNothing
  BY <1>2, NothingKeepsPool
<1>3. CASE ExecuteNext
  BY <1>3, ExecuteNextKeepsPool
<1>4. CASE \E b \in (SUBSET todo) \ {{}} : NextBatch(b)
  BY <1>4, NextBatchKeepsPool
<1>5. CASE Submit
  BY <1>5, SubmitKeepsPool
<1>6. CASE AllSubmitted \/ StartMerge \/ BatchMerged
  BY <1>6, BetweenLoopsKeepsPool
<1>7. CASE Collect
  BY <1>7, CollectKeepsPool
<1>8. CASE ApplyNext
  BY <1>8, ApplyNextKeepsPool
<1>9. CASE UpdateState
  BY <1>9, UpdateKeepsPool
<1>10. CASE Receive
  BY <1>10, ReceiveKeepsPool
<1>11. CASE \E task \in handling : Handle(task)
  BY <1>11, HandleKeepsPool
<1>12. CASE UNCHANGED vars
  <2>1. UNCHANGED <<State, pc, transactions, todo, stateCopy, toSubmit, batchSize,
                    batchResults, results, workChan, handling, resultChan>>
    BY <1>12 DEF vars, callVars, batchVars, poolVars
  <2>2. /\ Index' = Index /\ HandledIndices' = HandledIndices /\ InFlight' = InFlight
    BY <2>1 DEF Index, HandledIndices, InFlight
  <2>3. TypeOK' /\ PhaseInv' /\ DistinctInv' /\ EveryTransactionAnswered'
    BY <2>1, <2>2
       DEF PoolInv, TypeOK, PhaseInv, DistinctInv, EveryTransactionAnswered
  <2>4. SendersInv' /\ TaskInv' /\ AnswerInv' /\ CopyInv'
    BY <2>1, <2>2
       DEF PoolInv, SendersInv, TaskInv, SeesSenders, AnswerInv, AnsweredOf, CopyInv,
           Outcome
  <2> QED BY <2>3, <2>4 DEF PoolInv
<1> QED BY <1>1, <1>2, <1>3, <1>4, <1>5, <1>6, <1>7, <1>8, <1>9, <1>10, <1>11, <1>12
        DEF Next, CallerStep, WorkerStep, Finished

(* What the pool, its channels and the caller of ExecuteBatch hold in      *)
(* every state.                                                            *)
THEOREM PoolInvariant == Spec => []PoolInv
BY InitPool, PoolStep, PTL DEF Spec

(* executeParallel counts answers, never says whose: through the channels  *)
(* and the hands of any number of workers no transaction is lost and none  *)
(* is answered twice, and a call returns with one result for each.         *)
THEOREM AllAnswered == Spec => []EveryTransactionAnswered
<1>1. PoolInv => EveryTransactionAnswered
  BY DEF PoolInv
<1> QED BY <1>1, PoolInvariant, PTL

-----------------------------------------------------------------------------
(* The refinement: a call is Invoke when it begins and Return when it ends *)
(* in UpdateState; everything in between changes nothing BatchExecution    *)
(* knows of.                                                               *)

call == IF pc = "idle" THEN <<>> ELSE transactions

reply == IF pc = "idle" THEN {<<results[k].Index, results[k].Success>> :
                                  k \in DOMAIN results}
         ELSE {}

LEMMA InvokeRefined ==
    ASSUME PoolInv, NEW list \in Lists, ExecuteBatch(list)
    PROVE  Abstract!Invoke(list)
<1>1. /\ pc = "idle" /\ pc' /= "idle" /\ transactions' = list /\ State' = State
  BY DEF ExecuteBatch, NewPool
<1> QED BY <1>1 DEF Abstract!Invoke

LEMMA InvokeEmptyRefined == PoolInv /\ ExecuteNothing => Abstract!InvokeEmpty
<1> SUFFICES ASSUME PoolInv, ExecuteNothing PROVE Abstract!InvokeEmpty
  OBVIOUS
<1>1. /\ pc = "idle" /\ pc' = "idle" /\ results' = <<>> /\ State' = State
  BY DEF ExecuteNothing, NewPool
<1>2. reply' = {}
  <2>1. DOMAIN <<>> = {}
    OBVIOUS
  <2> QED BY <1>1, <2>1 DEF reply
<1> QED BY <1>1, <1>2 DEF Abstract!InvokeEmpty, reply

(* What UpdateState returns: for each transaction of the list the answer   *)
(* the accounts before the call give it.                                   *)
LEMMA ReturnRefined == PoolInv /\ UpdateState => Abstract!Return
<1> SUFFICES ASSUME PoolInv, UpdateState PROVE Abstract!Return
  OBVIOUS
<1>1. /\ pc /= "idle" /\ pc' = "idle" /\ UNCHANGED <<transactions, results>>
      /\ transactions \in Lists
  BY DEF UpdateState, callVars, PoolInv, PhaseInv
<1>2. call = transactions /\ call /= <<>> /\ call' = <<>>
  BY <1>1, ListFacts DEF call
<1>3. State' = BatchEffect(State, call)
  <2>1. DOMAIN call = Index
    BY <1>2 DEF Index
  <2> QED BY <1>2, <2>1, CallReturns DEF BatchEffect
<1>4. reply' = BatchAnswers(State, call)
  <2>1. \A k \in DOMAIN results :
            /\ results[k].Index \in Index
            /\ results[k].Success = CanExecute(State, transactions[results[k].Index])
    BY <1>1 DEF PoolInv, AnswerInv, AnsweredOf
  <2>2. \A i \in Index : \E k \in DOMAIN results : results[k].Index = i
    BY CallReturns DEF IndicesIn
  <2>4. reply' = {<<results[k].Index, results[k].Success>> : k \in DOMAIN results}
    BY <1>1 DEF reply
  <2>5. ASSUME NEW k \in DOMAIN results
        PROVE  <<results[k].Index, results[k].Success>>
                   \in {<<i, CanExecute(State, transactions[i])>> : i \in Index}
    BY <2>1
  <2>6. ASSUME NEW i \in Index
        PROVE  <<i, CanExecute(State, transactions[i])>>
                   \in {<<results[k].Index, results[k].Success>> : k \in DOMAIN results}
    <3>1. PICK k \in DOMAIN results : results[k].Index = i
      BY <2>2
    <3>2. results[k].Success = CanExecute(State, transactions[i])
      BY <2>1, <3>1
    <3>3. <<i, CanExecute(State, transactions[i])>>
              = <<results[k].Index, results[k].Success>>
      BY <3>1, <3>2
    <3> QED BY <3>3
  <2>7. reply' = {<<i, CanExecute(State, transactions[i])>> : i \in Index}
    BY <2>4, <2>5, <2>6
  <2> QED BY <1>2, <2>7 DEF Index, BatchAnswers
<1> QED BY <1>2, <1>3, <1>4 DEF Abstract!Return, call, reply

LEMMA OthersStutter ==
    ASSUME ExecuteNext \/ (\E b \in (SUBSET todo) \ {{}} : NextBatch(b)) \/ Submit
               \/ AllSubmitted \/ Collect \/ StartMerge \/ ApplyNext \/ BatchMerged
               \/ Receive \/ (\E task \in handling : Handle(task)) \/ UNCHANGED vars,
           PoolInv
    PROVE  UNCHANGED <<State, call, reply>>
<1>1. CASE UNCHANGED vars
  BY <1>1 DEF vars, callVars, call, reply
<1>2. CASE Receive \/ \E task \in handling : Handle(task)
  <2>1. pc \in {"submit", "collect"} /\ UNCHANGED <<State, pc, transactions>>
    BY <1>2 DEF PoolInv, PhaseInv, Receive, Handle, callVars
  <2> QED BY <2>1 DEF call, reply
<1>3. CASE ExecuteNext \/ (\E b \in (SUBSET todo) \ {{}} : NextBatch(b)) \/ Submit
               \/ AllSubmitted \/ Collect \/ StartMerge \/ ApplyNext \/ BatchMerged
  <2>1. pc /= "idle" /\ pc' /= "idle" /\ UNCHANGED <<State, transactions>>
    BY <1>3 DEF ExecuteNext, NextBatch, Submit, AllSubmitted, Collect, StartMerge,
                ApplyNext, BatchMerged, callVars
  <2> QED BY <2>1 DEF call, reply
<1> QED BY <1>1, <1>2, <1>3

(* Whatever the batches, the order the workers answer in and the order the *)
(* write sets are applied in, accounts and answers are one function of the *)
(* accounts before the call and of its list.                               *)
THEOREM ExecutorImplementsBatch == Spec => ImplementsBatch
<1>1. Init => Abstract!BatchInit
  BY DEF Init, Abstract!BatchInit
<1>2. PoolInv /\ [Next]_vars =>
          [Abstract!BatchNext]_<<State,
              IF pc = "idle" THEN <<>> ELSE transactions,
              IF pc = "idle" THEN {<<results[k].Index, results[k].Success>> :
                                       k \in DOMAIN results}
              ELSE {}>>
  <2> SUFFICES ASSUME PoolInv, [Next]_vars
               PROVE  Abstract!BatchNext \/ UNCHANGED <<State, call, reply>>
    BY DEF call, reply
  <2>1. CASE \E list \in Lists : ExecuteBatch(list)
    BY <2>1, InvokeRefined DEF Abstract!BatchNext
  <2>2. CASE ExecuteNothing
    BY <2>2, InvokeEmptyRefined DEF Abstract!BatchNext
  <2>3. CASE UpdateState
    BY <2>3, ReturnRefined DEF Abstract!BatchNext
  <2>4. CASE ExecuteNext \/ (\E b \in (SUBSET todo) \ {{}} : NextBatch(b)) \/ Submit
               \/ AllSubmitted \/ Collect \/ StartMerge \/ ApplyNext \/ BatchMerged
               \/ Receive \/ (\E task \in handling : Handle(task)) \/ UNCHANGED vars
    BY <2>4, OthersStutter
  <2> QED BY <2>1, <2>2, <2>3, <2>4 DEF Next, CallerStep, WorkerStep, Finished
<1> QED BY <1>1, <1>2, PoolInvariant, PTL
        DEF Spec, ImplementsBatch, Abstract!BatchSpec

-----------------------------------------------------------------------------
(* Why calls return, but for the scheduling of the goroutines.  Some        *)
(* goroutine can always take a step, and every step brings the end nearer.  *)

(* What the caller or a worker needs to take a step: the conditions of the *)
(* actions of CallerStep and WorkerStep.                                   *)
CallerCanMove ==
    \/ pc \in {"sequential", "parallel", "merge"}
    \/ pc = "submit" /\ (toSubmit = {} \/ Len(workChan) < PoolSize * ChannelFactor)
    \/ pc = "collect" /\ (resultChan /= <<>> \/ AllCollected)

WorkerCanMove ==
    \/ workChan /= <<>> /\ Cardinality(handling) < PoolSize
    \/ handling /= {} /\ Len(resultChan) < Capacity

(* The caller holds up the workers when it does not collect, the workers   *)
(* hold up the caller when they do not receive: never both at once.        *)
SomebodyCanMove == pc /= "idle" => CallerCanMove \/ WorkerCanMove

(* Where the caller is, the further the less.                              *)
Phase ==
    CASE pc = "submit" -> 4 [] pc = "collect" -> 3 [] pc = "merge" -> 2
      [] pc \in {"sequential", "parallel"} -> 1 [] OTHER -> 0

(* What is left to do of a call: a transaction counts for less with every  *)
(* channel it has passed.                                                  *)
WorkOf(t, s, w, h, r, c, p) == 10 * t + 6 * s + 5 * w + 4 * h + 3 * r + 2 * c + p

Work == WorkOf(Cardinality(todo), Cardinality(toSubmit), Len(workChan),
               Cardinality(handling), Len(resultChan), Len(batchResults), Phase)

LEMMA Weights ==
    ASSUME NEW t \in Nat, NEW s \in Nat, NEW w \in Nat, NEW h \in Nat, NEW r \in Nat,
           NEW c \in Nat, NEW p \in Nat, NEW n \in Nat
    PROVE  /\ t > 0 => WorkOf(t - 1, s, w, h, r, c, p) < WorkOf(t, s, w, h, r, c, p)
           /\ 0 < n /\ n <= t =>
                  WorkOf(t - n, n, w, h, r, c, 4) < WorkOf(t, 0, w, h, r, c, 1)
           /\ s > 0 => WorkOf(t, s - 1, w + 1, h, r, c, p) < WorkOf(t, s, w, h, r, c, p)
           /\ w > 0 /\ n <= h + 1 =>
                  WorkOf(t, s, w - 1, n, r, c, p) < WorkOf(t, s, w, h, r, c, p)
           /\ h > 0 => WorkOf(t, s, w, h - 1, r + 1, c, p) < WorkOf(t, s, w, h, r, c, p)
           /\ r > 0 => WorkOf(t, s, w, h, r - 1, c + 1, p) < WorkOf(t, s, w, h, r, c, p)
           /\ c > 0 => WorkOf(t, s, w, h, r, c - 1, p) < WorkOf(t, s, w, h, r, c, p)
           /\ p > 0 => WorkOf(t, s, w, h, r, c, p - 1) < WorkOf(t, s, w, h, r, c, p)
BY DEF WorkOf

LEMMA ChannelHasRoom == PoolSize * ChannelFactor \in Nat \ {0}
<1>1. \A n, c \in Nat \ {0} : n * c \in Nat \ {0}
  OBVIOUS
<1> QED BY <1>1, ExecutorAssumption DEF ExecutorAssumption, PoolSize

LEMMA PoolCounts ==
    ASSUME PoolInv
    PROVE  /\ Cardinality(todo) \in Nat /\ Cardinality(toSubmit) \in Nat
           /\ Cardinality(handling) \in Nat /\ Len(workChan) \in Nat
           /\ Len(resultChan) \in Nat /\ Len(batchResults) \in Nat
           /\ Phase \in 0 .. 4 /\ batchSize \in Nat
           /\ IsFiniteSet(todo) /\ IsFiniteSet(toSubmit) /\ IsFiniteSet(handling)
<1>1. TypeOK /\ EveryTransactionAnswered
  BY DEF PoolInv
<1>2. Phase \in 0 .. 4 /\ batchSize \in Nat /\ IsFiniteSet(handling)
  BY <1>1 DEF TypeOK, Phase
<1> QED BY <1>1, <1>2, Counts

LEMMA CanAlwaysMove == PoolInv => SomebodyCanMove
<1> SUFFICES ASSUME PoolInv, pc /= "idle", ~CallerCanMove PROVE WorkerCanMove
  BY DEF SomebodyCanMove
<1>1. TypeOK /\ PhaseInv
  BY DEF PoolInv
<1>2. /\ pc \in {"submit", "collect"}
      /\ InFlight + Len(resultChan) + Len(batchResults) = batchSize
  BY <1>1 DEF TypeOK, PhaseInv, CallerCanMove
<1>3. /\ Cardinality(toSubmit) \in Nat /\ Cardinality(handling) \in Nat
      /\ Len(workChan) \in Nat /\ Len(resultChan) \in Nat
      /\ Len(batchResults) \in Nat /\ batchSize \in Nat
      /\ PoolSize \in Nat \ {0}
  BY PoolCounts, ExecutorAssumption DEF ExecutorAssumption, PoolSize
<1>4. workChan /= <<>> \/ handling /= {}
  <2>1. CASE pc = "submit"
    <3>1. ~(Len(workChan) < PoolSize * ChannelFactor)
      BY <2>1 DEF CallerCanMove
    <3>2. Len(workChan) /= 0
      BY <3>1, <1>3, ChannelHasRoom
    <3> QED BY <3>2
  <2>2. CASE pc = "collect"
    <3>1. toSubmit = {} /\ resultChan = <<>> /\ Len(batchResults) /= batchSize
      BY <1>1, <2>2 DEF PhaseInv, CallerCanMove, AllCollected
    <3>2. Cardinality(toSubmit) = 0 /\ Len(resultChan) = 0
      BY <3>1, FS_EmptySet
    <3>3. Len(workChan) /= 0 \/ Cardinality(handling) /= 0
      BY <1>2, <1>3, <3>1, <3>2 DEF InFlight
    <3> QED BY <3>3, FS_EmptySet
  <2> QED BY <1>2, <2>1, <2>2
<1>5. CASE handling = {}
  <2>1. Cardinality(handling) < PoolSize
    BY <1>3, <1>5, FS_EmptySet
  <2> QED BY <1>4, <1>5, <2>1 DEF WorkerCanMove
<1>6. CASE handling /= {}
  <2>1. Cardinality(handling) /= 0
    BY <1>1, <1>6, FS_EmptySet DEF TypeOK
  <2>2. Len(resultChan) < batchSize
    BY <1>2, <1>3, <2>1 DEF InFlight
  <2> QED BY <1>6, <2>2 DEF WorkerCanMove, Capacity
<1> QED BY <1>5, <1>6

(* The pool does not deadlock, however few the workers and however little  *)
(* room the channels have: inside a call the caller or a worker can go on. *)
THEOREM PoolNeverStuck == Spec => []SomebodyCanMove
BY CanAlwaysMove, PoolInvariant, PTL

(* One transaction less in a set.                                          *)
LEMMA OneLess ==
    ASSUME NEW S, IsFiniteSet(S), NEW x \in S
    PROVE  /\ IsFiniteSet(S \ {x})
           /\ Cardinality(S) > 0 /\ Cardinality(S \ {x}) = Cardinality(S) - 1
<1>1. /\ IsFiniteSet(S \ {x}) /\ Cardinality(S \ {x}) = Cardinality(S) - 1
      /\ Cardinality(S) \in Nat /\ Cardinality(S \ {x}) \in Nat
  BY FS_RemoveElement, FS_CardinalityType
<1> QED BY <1>1

WorkIs(t, s, w, h, r, c, p) ==
    /\ t = Cardinality(todo) /\ s = Cardinality(toSubmit) /\ w = Len(workChan)
    /\ h = Cardinality(handling) /\ r = Len(resultChan)
    /\ c = Len(batchResults) /\ p = Phase

LEMMA WorkCounted ==
    ASSUME PoolInv
    PROVE  \E t, s, w, h, r, c \in Nat, p \in 0 .. 4 : WorkIs(t, s, w, h, r, c, p)
<1>1. WorkIs(Cardinality(todo), Cardinality(toSubmit), Len(workChan),
             Cardinality(handling), Len(resultChan), Len(batchResults), Phase)
  BY DEF WorkIs
<1>2. /\ Cardinality(todo) \in Nat /\ Cardinality(toSubmit) \in Nat
      /\ Cardinality(handling) \in Nat /\ Len(workChan) \in Nat
      /\ Len(resultChan) \in Nat /\ Len(batchResults) \in Nat /\ Phase \in 0 .. 4
  BY PoolCounts
<1> QED BY <1>1, <1>2

LEMMA CallerWorks == PoolInv /\ CallerStep => Work' < Work
<1> SUFFICES ASSUME PoolInv, CallerStep PROVE Work' < Work
  OBVIOUS
<1>1. PICK t \in Nat, s \in Nat, w \in Nat, h \in Nat, r \in Nat, c \in Nat, p \in 0 .. 4 :
          WorkIs(t, s, w, h, r, c, p)
  BY WorkCounted
<1>2. /\ t = Cardinality(todo) /\ s = Cardinality(toSubmit) /\ w = Len(workChan)
      /\ h = Cardinality(handling) /\ r = Len(resultChan)
      /\ c = Len(batchResults) /\ p = Phase /\ p \in Nat
      /\ Work = WorkOf(t, s, w, h, r, c, p)
  BY <1>1 DEF Work, WorkIs
<1>3. /\ TypeOK /\ PhaseInv /\ Len(<<>>) = 0 /\ Cardinality({}) = 0
      /\ IsFiniteSet(todo) /\ IsFiniteSet(toSubmit)
  BY PoolCounts, FS_EmptySet DEF PoolInv
<1>4. CASE ExecuteNext
  <2>1. PICK i : i = Least(todo)
    OBVIOUS
  <2>2. /\ todo /= {} /\ todo' = todo \ {i}
        /\ UNCHANGED <<pc, toSubmit, batchResults, workChan, handling, resultChan>>
    BY <1>4, <2>1 DEF ExecuteNext, batchVars, poolVars
  <2>3. i \in todo
    BY <1>3, <2>1, <2>2, LeastIsIn DEF TypeOK
  <2>4. Cardinality(todo') = t - 1 /\ t > 0
    BY <1>2, <1>3, <2>2, <2>3, OneLess
  <2>5. Work' = WorkOf(t - 1, s, w, h, r, c, p)
    BY <1>2, <2>2, <2>4 DEF Work, Phase
  <2> QED BY <1>2, <2>4, <2>5, Weights
<1>5. CASE \E b \in (SUBSET todo) \ {{}} : NextBatch(b)
  <2>1. PICK b \in (SUBSET todo) \ {{}} : NextBatch(b)
    BY <1>5
  <2>2. /\ pc = "parallel" /\ pc' = "submit" /\ toSubmit' = b /\ todo' = todo \ b
        /\ resultChan' = <<>> /\ batchResults' = <<>>
        /\ UNCHANGED <<workChan, handling>>
    BY <2>1 DEF NextBatch
  <2>3. s = 0 /\ r = 0 /\ c = 0
    BY <1>2, <1>3, <2>2 DEF PhaseInv
  <2>4. PICK n : n = Cardinality(b)
    OBVIOUS
  <2>5. b \subseteq todo /\ b /= {} /\ IsFiniteSet(b)
    <3>1. b \in SUBSET todo /\ b /= {}
      BY <2>1
    <3>2. IsFiniteSet(b)
      BY <1>3, <3>1, FS_Subset
    <3> QED BY <3>1, <3>2
  <2>6. n \in Nat /\ n > 0
    <3>1. n \in Nat
      BY <2>4, <2>5, FS_CardinalityType
    <3>2. n /= 0
      BY <2>4, <2>5, FS_EmptySet
    <3> QED BY <3>1, <3>2
  <2>7. Cardinality(todo') = t - n /\ n <= t
    <3>1. todo \cap b = b
      BY <2>5
    <3>2. Cardinality(todo \ b) = Cardinality(todo) - Cardinality(b)
      BY <1>3, <3>1, FS_Difference
    <3>3. Cardinality(b) <= Cardinality(todo)
      BY <1>3, <2>5, FS_Subset
    <3> QED BY <1>2, <2>2, <2>4, <3>2, <3>3
  <2>8. p = 1 /\ Phase' = 4
    BY <1>2, <2>2 DEF Phase
  <2>9. Work' = WorkOf(t - n, n, w, h, r, c, 4)
    BY <1>2, <1>3, <2>2, <2>3, <2>4, <2>7, <2>8 DEF Work
  <2> QED BY <1>2, <2>3, <2>6, <2>7, <2>8, <2>9, Weights
<1>6. CASE Submit
  <2>1. PICK i : i = Least(toSubmit)
    OBVIOUS
  <2>2. PICK task : task = Task(i)
    OBVIOUS
  <2>3. /\ toSubmit /= {} /\ toSubmit' = toSubmit \ {i}
        /\ workChan' = Append(workChan, task)
        /\ UNCHANGED <<pc, todo, batchResults, handling, resultChan>>
    BY <1>6, <2>1, <2>2 DEF Submit
  <2>4. i \in toSubmit
    BY <1>3, <2>1, <2>3, LeastIsIn DEF TypeOK
  <2>5. Cardinality(toSubmit') = s - 1 /\ s > 0
    BY <1>2, <1>3, <2>3, <2>4, OneLess
  <2>6. task \in TaskType
    BY <1>3, <2>2, <2>4 DEF TypeOK, Task, TaskType
  <2>7. Len(workChan') = w + 1
    BY <1>2, <1>3, <2>3, <2>6, AppendProperties DEF TypeOK
  <2>8. Work' = WorkOf(t, s - 1, w + 1, h, r, c, p)
    BY <1>2, <2>3, <2>5, <2>7 DEF Work, Phase
  <2> QED BY <1>2, <2>5, <2>8, Weights
<1>7. CASE AllSubmitted \/ StartMerge \/ BatchMerged
  <2>1. UNCHANGED <<todo, toSubmit, batchResults, workChan, handling, resultChan>>
    BY <1>7 DEF AllSubmitted, StartMerge, BatchMerged, batchVars, poolVars
  <2>2. Phase' = p - 1 /\ p > 0
    BY <1>2, <1>7 DEF AllSubmitted, StartMerge, BatchMerged, Phase
  <2>3. Work' = WorkOf(t, s, w, h, r, c, p - 1)
    BY <1>2, <2>1, <2>2 DEF Work
  <2> QED BY <1>2, <2>2, <2>3, Weights
<1>8. CASE Collect
  <2>1. PICK answer : answer = Head(resultChan)
    OBVIOUS
  <2>2. /\ resultChan /= <<>> /\ resultChan' = Tail(resultChan)
        /\ batchResults' = Append(batchResults, answer)
        /\ UNCHANGED <<pc, todo, toSubmit, workChan, handling>>
    BY <1>8, <2>1 DEF Collect
  <2>3. answer \in Answer /\ Len(resultChan') = r - 1 /\ r > 0
    BY <1>2, <1>3, <2>1, <2>2, HeadTailProperties, EmptySeq DEF TypeOK
  <2>4. Len(batchResults') = c + 1
    BY <1>2, <1>3, <2>2, <2>3, AppendProperties DEF TypeOK
  <2>5. Work' = WorkOf(t, s, w, h, r - 1, c + 1, p)
    BY <1>2, <2>2, <2>3, <2>4 DEF Work, Phase
  <2> QED BY <1>2, <2>3, <2>5, Weights
<1>9. CASE ApplyNext
  <2>1. /\ batchResults /= <<>> /\ batchResults' = Tail(batchResults)
        /\ UNCHANGED <<pc, todo, toSubmit, workChan, handling, resultChan>>
    BY <1>9 DEF ApplyNext, poolVars
  <2>2. Len(batchResults') = c - 1 /\ c > 0
    BY <1>2, <1>3, <2>1, HeadTailProperties, EmptySeq DEF TypeOK
  <2>3. Work' = WorkOf(t, s, w, h, r, c - 1, p)
    BY <1>2, <2>1, <2>2 DEF Work, Phase
  <2> QED BY <1>2, <2>2, <2>3, Weights
<1>10. CASE UpdateState
  <2>1. /\ todo' = todo
        /\ UNCHANGED <<toSubmit, batchResults, workChan, handling, resultChan>>
    BY <1>10 DEF UpdateState, NothingLeft, batchVars, poolVars
  <2>2. Phase' = p - 1 /\ p > 0
    BY <1>2, <1>10 DEF UpdateState, Phase
  <2>3. Work' = WorkOf(t, s, w, h, r, c, p - 1)
    BY <1>2, <2>1, <2>2 DEF Work
  <2> QED BY <1>2, <2>2, <2>3, Weights
<1> QED BY <1>4, <1>5, <1>6, <1>7, <1>8, <1>9, <1>10 DEF CallerStep

LEMMA WorkerWorks == PoolInv /\ WorkerStep => Work' < Work
<1> SUFFICES ASSUME PoolInv, WorkerStep PROVE Work' < Work
  OBVIOUS
<1>1. PICK t \in Nat, s \in Nat, w \in Nat, h \in Nat, r \in Nat, c \in Nat, p \in 0 .. 4 :
          WorkIs(t, s, w, h, r, c, p)
  BY WorkCounted
<1>2. /\ t = Cardinality(todo) /\ s = Cardinality(toSubmit) /\ w = Len(workChan)
      /\ h = Cardinality(handling) /\ r = Len(resultChan)
      /\ c = Len(batchResults) /\ p = Phase /\ p \in Nat
      /\ Work = WorkOf(t, s, w, h, r, c, p)
  BY <1>1 DEF Work, WorkIs
<1>3. TypeOK /\ IsFiniteSet(handling)
  BY PoolCounts DEF PoolInv
<1>4. CASE Receive
  <2>1. PICK task : task = Head(workChan)
    OBVIOUS
  <2>2. /\ workChan /= <<>> /\ workChan' = Tail(workChan)
        /\ handling' = handling \cup {task}
        /\ UNCHANGED <<pc, todo, toSubmit, batchResults, resultChan>>
    BY <1>4, <2>1 DEF Receive, batchVars
  <2>3. Len(workChan') = w - 1 /\ w > 0
    BY <1>2, <1>3, <2>2, HeadTailProperties, EmptySeq DEF TypeOK
  <2>4. PICK n \in Nat : n = Cardinality(handling') /\ n <= h + 1
    <3>1. CASE task \in handling
      <4>1. handling' = handling
        BY <2>2, <3>1
      <4> QED BY <1>2, <4>1
    <3>2. CASE task \notin handling
      <4>1. Cardinality(handling \cup {task}) = Cardinality(handling) + 1
        BY <1>3, <3>2, FS_AddElement
      <4> QED BY <1>2, <2>2, <4>1
    <3> QED BY <3>1, <3>2
  <2>5. Work' = WorkOf(t, s, w - 1, n, r, c, p)
    BY <1>2, <2>2, <2>3, <2>4 DEF Work, Phase
  <2> QED BY <1>2, <2>3, <2>4, <2>5, Weights
<1>5. CASE \E task \in handling : Handle(task)
  <2>1. PICK task \in handling : Handle(task)
    BY <1>5
  <2>2. PICK answer : answer = executeTransaction(task.Index, task.State, FALSE)
    OBVIOUS
  <2>3. /\ handling' = handling \ {task} /\ resultChan' = Append(resultChan, answer)
        /\ UNCHANGED <<pc, todo, toSubmit, batchResults, workChan>>
    BY <2>1, <2>2 DEF Handle, batchVars
  <2>4. Cardinality(handling') = h - 1 /\ h > 0
    BY <1>2, <1>3, <2>1, <2>3, OneLess
  <2>5. Len(resultChan') = r + 1
    BY <1>2, <1>3, <2>3 DEF TypeOK
  <2>6. Work' = WorkOf(t, s, w, h - 1, r + 1, c, p)
    BY <1>2, <2>3, <2>4, <2>5 DEF Work, Phase
  <2> QED BY <1>2, <2>4, <2>6, Weights
<1> QED BY <1>4, <1>5 DEF WorkerStep

WorkInBounds == Work \in 0 .. 10 * Len(transactions) + 4

EveryStepWorks == [][CallerStep \/ WorkerStep => Work' < Work]_vars

(* A call of ExecuteBatch is over after at most 10 steps of the caller and *)
(* the workers for each transaction, and 4: no goroutine ever goes round   *)
(* in a circle.  With PoolNeverStuck this is why BatchCompletes holds.     *)
THEOREM CallsAreBounded == Spec => []WorkInBounds /\ EveryStepWorks
<1>1. PoolInv => WorkInBounds
  <2> SUFFICES ASSUME PoolInv PROVE WorkInBounds
    OBVIOUS
  <2>1. PICK t \in Nat, s \in Nat, w \in Nat, h \in Nat, r \in Nat, c \in Nat,
             p \in 0 .. 4 : WorkIs(t, s, w, h, r, c, p)
    BY WorkCounted
  <2>2. PICK done \in Nat, n \in Nat : done = Len(results) /\ n = Len(transactions)
    BY Counts, IndexFacts DEF PoolInv
  <2>3. t + (s + w + h) + r + c + done = n
    BY <2>1, <2>2 DEF PoolInv, EveryTransactionAnswered, WorkIs, InFlight
  <2>4. WorkOf(t, s, w, h, r, c, p) \in 0 .. 10 * n + 4
    BY <2>3 DEF WorkOf
  <2> QED BY <2>1, <2>2, <2>4 DEF WorkInBounds, Work, WorkIs
<1>2. PoolInv /\ [Next]_vars
          => [CallerStep \/ WorkerStep => Work' < Work]_vars
  BY CallerWorks, WorkerWorks
<1> QED BY <1>1, <1>2, PoolInvariant, PTL DEF Spec, EveryStepWorks
=============================================================================
