-------------------------- MODULE SchedulingProofs --------------------------
(***************************************************************************)
(* GroupIndependentTransactions, for lists of any length and content:      *)
(* every transaction gets into exactly one batch, never before one it      *)
(* depends on, and without forward dependencies there is a single batch    *)
(* (AllSoFar), whose transactions need not be independent.                 *)
(* A scan goes up the list (Ascends): what it has taken lies below its     *)
(* cursor, and depends on earlier batches and on lower indices only.       *)
(* OptimizeTransactionOrder then returns a permutation of the list in which *)
(* the senders of a batch alternate (FlattenInv): what is placed and what  *)
(* is left in the groups make up the batches it has come to.               *)
(***************************************************************************)
EXTENDS Scheduling, WellFoundedInduction, FiniteSetTheorems, SequenceTheorems,
        TLAPS

ScanTypeOK ==
    /\ transactions \in Seq(Txs)
    /\ pc \in {"scan", "flatten", "interleave", "done"}
    /\ cursor \in 1 .. Len(transactions) + 1
    /\ batch \subseteq processed /\ processed \subseteq Index
    /\ batches \in Seq(SUBSET Index)

(* j is scheduled in a batch before b.                                     *)
Scheduled(j, b) == \E c \in 1 .. b - 1 : j \in batches[c]

Ascends ==
    /\ \A i \in batch : i < cursor
    /\ \A i \in batch : \A j \in Dependencies(i) :
           \/ \E c \in Batches : j \in batches[c]
           \/ j \in batch /\ (j < i)

InTime ==
    \A b \in Batches : \A i \in batches[b] : \A j \in Dependencies(i) :
        Scheduled(j, b) \/ (j \in batches[b] /\ (j < i)) \/ batches[b] = {i}

(* A dependency that points up the list.  Only those make cycles.          *)
Forward == \E i \in Index : \E j \in NonceDeps(i) : j > i

(* Without one, which is so of every block of the node (no nonce ever      *)
(* moves, so a sender's transactions have the same one), everything ends   *)
(* up in one batch, dependent transactions included.  The code promises    *)
(* "independent batches": this says for which lists it breaks the promise. *)
OneBatch ==
    ~Forward => \/ pc = "scan" /\ batches = <<>>
                \/ pc /= "scan" /\ batches = <<Index>>

(* Without forward dependencies the first scan takes all it has come to.   *)
AllSoFar ==
    ~Forward /\ pc = "scan" =>
        Len(transactions) > 0 /\ batches = <<>> /\ batch = processed
            /\ processed = 1 .. cursor - 1

Inv == ScanTypeOK /\ EveryTransactionOnce /\ Ascends /\ InTime /\ AllSoFar /\ OneBatch

(* Everything that is computed from the argument alone stays.              *)
LEMMA SameList ==
    ASSUME transactions' = transactions
    PROVE  /\ Index' = Index /\ Forward' = Forward
           /\ \A i : (Dependencies(i))' = Dependencies(i)
<1>1. Index' = Index
      BY DEF Index
<1>2. \A i : (NonceDeps(i))' = NonceDeps(i)
      BY <1>1 DEF NonceDeps
<1>3. \A i : (UsageDeps(i))' = UsageDeps(i)
      BY <1>1 DEF UsageDeps, Accounts
<1> QED BY <1>1, <1>2, <1>3 DEF Forward, Dependencies

LEMMA LengthNat == ScanTypeOK => Len(transactions) \in Nat /\ Index = 1 .. Len(transactions)
BY DEF ScanTypeOK, Index

(* A dependency of a transaction is another one of the list; unless some   *)
(* dependency points up the list, it is one with a lower index.            *)
LEMMA DependenciesBelow ==
    ASSUME ScanTypeOK, ~Forward, NEW i \in Index
    PROVE  Dependencies(i) \subseteq 1 .. i - 1
<1>1. Len(transactions) \in Nat /\ Index = 1 .. Len(transactions)
      BY LengthNat
<1>2. UsageDeps(i) \subseteq 1 .. i - 1
      BY <1>1 DEF UsageDeps
<1>3. ASSUME NEW j \in NonceDeps(i) PROVE j \in 1 .. i - 1
  <2>1. j \in Index /\ transactions[j].Nonce = transactions[i].Nonce - 1
        BY DEF NonceDeps
  <2>2. transactions[i].Nonce \in Nat
        BY <1>1, SchedulingAssumption DEF ScanTypeOK
  <2>3. j /= i
        BY <2>1, <2>2
  <2>4. ~(j > i)
        BY <1>1 DEF Forward
  <2> QED BY <1>1, <2>1, <2>3, <2>4
<1> QED BY <1>2, <1>3 DEF Dependencies

LEMMA InitInv == Init => Inv
<1> SUFFICES ASSUME Init PROVE Inv
    OBVIOUS
<1>1. PICK n \in 2 .. MaxTxs : transactions \in [1 .. n -> Txs]
      BY DEF Init
<1>2. transactions \in Seq(Txs) /\ Len(transactions) = n /\ n \in Nat /\ n >= 2
      BY <1>1, SchedulingAssumption
<1>3. ScanTypeOK
      BY <1>2 DEF Init, ScanTypeOK, Index
<1>4. Batches = {}
      BY DEF Init, Batches
<1>5. EveryTransactionOnce /\ Ascends /\ InTime
      BY <1>4 DEF Init, EveryTransactionOnce, Ascends, InTime
<1>6. AllSoFar /\ OneBatch
      BY <1>2 DEF Init, AllSoFar, OneBatch
<1> QED BY <1>3, <1>5, <1>6 DEF Inv

LEMMA TakeReadyKeepsInv == Inv /\ TakeReady => Inv'
<1> SUFFICES ASSUME Inv, TakeReady PROVE Inv'
    OBVIOUS
<1> USE DEF Inv
<1>0. /\ pc = "scan" /\ pc' = "scan" /\ cursor \in Index /\ Ready(cursor)
      /\ batch' = batch \cup {cursor} /\ processed' = processed \cup {cursor}
      /\ cursor' = cursor + 1 /\ batches' = batches /\ transactions' = transactions
      BY DEF TakeReady
<1>1. /\ Len(transactions) \in Nat /\ Index = 1 .. Len(transactions)
      /\ Index' = Index /\ Forward' = Forward
      /\ \A i : (Dependencies(i))' = Dependencies(i)
      /\ Batches' = Batches
      BY <1>0, LengthNat, SameList DEF Batches
<1>2. ScanTypeOK'
      BY <1>0, <1>1 DEF ScanTypeOK
<1>3. EveryTransactionOnce'
      BY <1>0, <1>1 DEF EveryTransactionOnce, Ready
<1>4. Ascends'
  <2>1. \A i \in batch' : i < cursor'
        BY <1>0, <1>1 DEF Ascends, ScanTypeOK
  <2>2. ASSUME NEW i \in batch', NEW j \in Dependencies(i)
        PROVE  (\E c \in Batches : j \in batches[c]) \/ (j \in batch' /\ j < i)
    <3>1. CASE i \in batch
          BY <1>0, <3>1, <2>2 DEF Ascends
    <3>2. CASE i = cursor
      <4>1. j \in processed
            BY <1>0, <2>2, <3>2 DEF Ready
      <4>2. j \in batch \/ \E c \in Batches : j \in batches[c]
            BY <4>1 DEF EveryTransactionOnce
      <4> QED BY <1>0, <3>2, <4>2 DEF Ascends
    <3> QED BY <1>0, <3>1, <3>2
  <2> QED BY <1>0, <1>1, <2>1, <2>2 DEF Ascends
<1>5. InTime'
      BY <1>0, <1>1 DEF InTime, Scheduled
<1>6. AllSoFar' /\ OneBatch'
      BY <1>0, <1>1 DEF AllSoFar, OneBatch
<1> QED BY <1>2, <1>3, <1>4, <1>5, <1>6

LEMMA PassOverKeepsInv == Inv /\ PassOver => Inv'
<1> SUFFICES ASSUME Inv, PassOver PROVE Inv'
    OBVIOUS
<1> USE DEF Inv
<1>0. /\ pc = "scan" /\ pc' = "scan" /\ cursor \in Index /\ ~Ready(cursor)
      /\ batch' = batch /\ processed' = processed
      /\ cursor' = cursor + 1 /\ batches' = batches /\ transactions' = transactions
      BY DEF PassOver
<1>1. /\ Len(transactions) \in Nat /\ Index = 1 .. Len(transactions)
      /\ Index' = Index /\ Forward' = Forward
      /\ \A i : (Dependencies(i))' = Dependencies(i)
      /\ Batches' = Batches
      BY <1>0, LengthNat, SameList DEF Batches
<1>2. ScanTypeOK'
      BY <1>0, <1>1 DEF ScanTypeOK
<1>3. EveryTransactionOnce'
      BY <1>0, <1>1 DEF EveryTransactionOnce
<1>4. Ascends'
      BY <1>0, <1>1 DEF Ascends, ScanTypeOK
<1>5. InTime'
      BY <1>0, <1>1 DEF InTime, Scheduled
<1>6. Forward
  <2> SUFFICES ASSUME ~Forward PROVE FALSE
      OBVIOUS
  <2>1. processed = 1 .. cursor - 1
        BY <1>0 DEF AllSoFar
  <2>2. Dependencies(cursor) \subseteq processed
        BY <1>0, <2>1, DependenciesBelow
  <2> QED BY <1>0, <1>1, <2>1, <2>2 DEF Ready
<1>7. AllSoFar' /\ OneBatch'
      BY <1>1, <1>6 DEF AllSoFar, OneBatch
<1> QED BY <1>2, <1>3, <1>4, <1>5, <1>7

(* Appending a batch b of what has just been processed.                    *)
LEMMA AppendKeepsInTime ==
    ASSUME batches \in Seq(SUBSET Index), InTime, transactions' = transactions,
           NEW b, batches' = Append(batches, b),
           \A i \in b : \A j \in Dependencies(i) :
               (\E c \in Batches : j \in batches[c]) \/ (j \in b /\ j < i) \/ b = {i}
    PROVE  InTime'
<1>1. /\ Batches = 1 .. Len(batches) /\ Len(batches) \in Nat
      /\ Batches' = 1 .. Len(batches) + 1
      /\ \A c \in 1 .. Len(batches) : batches'[c] = batches[c]
      /\ batches'[Len(batches) + 1] = b
      BY DEF Batches
<1>2. \A i : (Dependencies(i))' = Dependencies(i)
      BY SameList
<1>3. ASSUME NEW c \in 1 .. Len(batches), NEW i \in batches[c], NEW j \in Dependencies(i)
      PROVE  (\E d \in 1 .. c - 1 : j \in batches'[d]) \/ (j \in batches[c] /\ j < i)
                 \/ batches[c] = {i}
  <2>1. Scheduled(j, c) \/ (j \in batches[c] /\ j < i) \/ batches[c] = {i}
        BY <1>1, <1>3 DEF InTime
  <2>2. ASSUME Scheduled(j, c) PROVE \E d \in 1 .. c - 1 : j \in batches'[d]
    <3>1. PICK d \in 1 .. c - 1 : j \in batches[d]
          BY <2>2 DEF Scheduled
    <3>2. d \in 1 .. Len(batches)
          BY <1>1
    <3> QED BY <1>1, <3>1, <3>2
  <2> QED BY <2>1, <2>2
<1>4. ASSUME NEW i \in b, NEW j \in Dependencies(i)
      PROVE  (\E d \in 1 .. Len(batches) : j \in batches'[d]) \/ (j \in b /\ j < i)
                 \/ b = {i}
      BY <1>1
<1>5. ASSUME NEW c \in Batches', NEW i \in batches'[c], NEW j \in Dependencies(i)
      PROVE  (\E d \in 1 .. c - 1 : j \in batches'[d]) \/ (j \in batches'[c] /\ j < i)
                 \/ batches'[c] = {i}
  <2>1. CASE c \in 1 .. Len(batches)
        BY <1>1, <1>3, <1>5, <2>1
  <2>2. CASE c = Len(batches) + 1
        BY <1>1, <1>4, <1>5, <2>2
  <2> QED BY <1>1, <2>1, <2>2
<1> QED BY <1>2, <1>5 DEF InTime, Scheduled

LEMMA CloseBatchKeepsInv == Inv /\ CloseBatch => Inv'
<1> SUFFICES ASSUME Inv, CloseBatch PROVE Inv'
    OBVIOUS
<1> USE DEF Inv
<1>0. /\ pc = "scan" /\ pc' = IF processed = Index THEN "flatten" ELSE "scan"
      /\ cursor \notin Index /\ cursor' = 1 /\ batch /= {} /\ batch' = {}
      /\ processed' = processed /\ batches' = Append(batches, batch)
      /\ transactions' = transactions
      BY DEF CloseBatch, NextScan
<1>1. /\ Len(transactions) \in Nat /\ Index = 1 .. Len(transactions)
      /\ Index' = Index /\ Forward' = Forward
      /\ \A i : (Dependencies(i))' = Dependencies(i)
      BY <1>0, LengthNat, SameList
<1>2. /\ Batches = 1 .. Len(batches) /\ Len(batches) \in Nat
      /\ Batches' = 1 .. Len(batches) + 1
      /\ \A c \in 1 .. Len(batches) : batches'[c] = batches[c]
      /\ batches'[Len(batches) + 1] = batch
      BY <1>0 DEF Batches, ScanTypeOK
<1>3. ScanTypeOK'
      BY <1>0, <1>1 DEF ScanTypeOK
<1>4. EveryTransactionOnce'
  <2>1. processed' = UNION {batches'[b] : b \in Batches'}
        BY <1>0, <1>2 DEF EveryTransactionOnce
  <2>2. ASSUME NEW b \in Batches'
        PROVE  batches'[b] /= {} /\ \A c \in Batches' : b /= c => batches'[b] \cap batches'[c] = {}
        BY <1>0, <1>2 DEF EveryTransactionOnce
  <2> QED BY <1>0, <1>1, <2>1, <2>2 DEF EveryTransactionOnce
<1>5. Ascends'
      BY <1>0 DEF Ascends
<1>6. InTime'
      BY <1>0, AppendKeepsInTime DEF Ascends, ScanTypeOK
<1>7. AllSoFar' /\ OneBatch'
  <2> SUFFICES ASSUME ~Forward
               PROVE  pc' = "flatten" /\ batches' = <<Index>>
      BY <1>0, <1>1 DEF AllSoFar, OneBatch
  <2>1. cursor = Len(transactions) + 1
        BY <1>0, <1>1 DEF ScanTypeOK
  <2> QED BY <1>0, <1>1, <2>1 DEF AllSoFar
<1> QED BY <1>3, <1>4, <1>5, <1>6, <1>7

LEMMA BreakCycleKeepsInv == Inv /\ BreakCycle => Inv'
<1> SUFFICES ASSUME Inv, BreakCycle PROVE Inv'
    OBVIOUS
<1> USE DEF Inv
<1>0. PICK i \in Unprocessed :
      /\ pc = "scan" /\ pc' = IF processed' = Index THEN "flatten" ELSE "scan"
      /\ cursor \notin Index /\ cursor' = 1 /\ batch = {} /\ batch' = {}
      /\ processed' = processed \cup {i} /\ batches' = Append(batches, {i})
      /\ transactions' = transactions
      BY DEF BreakCycle, NextScan
<1>1. /\ Len(transactions) \in Nat /\ Index = 1 .. Len(transactions)
      /\ Index' = Index /\ Forward' = Forward
      /\ \A k : (Dependencies(k))' = Dependencies(k)
      /\ i \in Index /\ i \notin processed
      BY <1>0, LengthNat, SameList DEF Unprocessed
<1>2. /\ Batches = 1 .. Len(batches) /\ Len(batches) \in Nat
      /\ Batches' = 1 .. Len(batches) + 1
      /\ \A c \in 1 .. Len(batches) : batches'[c] = batches[c]
      /\ batches'[Len(batches) + 1] = {i}
      BY <1>0, <1>1 DEF Batches, ScanTypeOK
<1>3. ScanTypeOK'
      BY <1>0, <1>1 DEF ScanTypeOK
<1>4. EveryTransactionOnce'
  <2>1. processed' = UNION {batches'[b] : b \in Batches'}
        BY <1>0, <1>2 DEF EveryTransactionOnce
  <2>2. ASSUME NEW b \in Batches'
        PROVE  batches'[b] /= {} /\ \A c \in Batches' : b /= c => batches'[b] \cap batches'[c] = {}
        BY SMTT(30), <1>0, <1>1, <1>2 DEF EveryTransactionOnce
  <2> QED BY <1>0, <1>1, <2>1, <2>2 DEF EveryTransactionOnce
<1>5. Ascends'
      BY <1>0 DEF Ascends
<1>6. InTime'
  <2> DEFINE b == {i}
  <2>1. \A k \in b : b = {k}
        OBVIOUS
  <2>2. batches' = Append(batches, b) /\ batches \in Seq(SUBSET Index) /\ InTime
        BY <1>0 DEF ScanTypeOK
  <2> HIDE DEF b
  <2> QED BY <1>0, <2>1, <2>2, AppendKeepsInTime
<1>7. Forward
  <2> SUFFICES ASSUME ~Forward PROVE FALSE
      OBVIOUS
  <2>1. Len(transactions) > 0 /\ 1 .. cursor - 1 = {} /\ cursor \in 1 .. Len(transactions) + 1
        BY <1>0 DEF AllSoFar, ScanTypeOK
  <2>2. 1 \notin 1 .. cursor - 1
        BY <2>1
  <2>3. cursor = 1
        BY <1>1, <2>1, <2>2
  <2> QED BY <1>0, <1>1, <2>1, <2>3
<1>8. AllSoFar' /\ OneBatch'
      BY <1>1, <1>7 DEF AllSoFar, OneBatch
<1> QED BY <1>3, <1>4, <1>5, <1>6, <1>8

(* What OptimizeTransactionOrder does afterwards leaves the batches alone. *)
LEMMA FlattenKeepsInv ==
    ASSUME Inv, UNCHANGED <<transactions, groupVars>>,
           pc' = pc \/ (pc /= "scan" /\ pc' \in {"flatten", "interleave", "done"})
    PROVE  Inv'
<1> USE DEF Inv, groupVars
<1>1. /\ Index' = Index /\ Forward' = Forward
      /\ \A i : (Dependencies(i))' = Dependencies(i)
      /\ Batches' = Batches
      BY SameList DEF Batches
<1>2. ScanTypeOK' /\ EveryTransactionOnce'
      BY <1>1 DEF ScanTypeOK, EveryTransactionOnce
<1>3. Ascends' /\ InTime'
      BY <1>1 DEF Ascends, InTime, Scheduled
<1>4. AllSoFar' /\ OneBatch'
      BY <1>1 DEF AllSoFar, OneBatch
<1> QED BY <1>2, <1>3, <1>4

LEMMA StepKeepsInv == Inv /\ [Next]_vars => Inv'
<1> SUFFICES ASSUME Inv, [Next]_vars PROVE Inv'
    OBVIOUS
<1>1. CASE TakeReady
      BY <1>1, TakeReadyKeepsInv
<1>2. CASE PassOver
      BY <1>2, PassOverKeepsInv
<1>3. CASE CloseBatch
      BY <1>3, CloseBatchKeepsInv
<1>4. CASE BreakCycle
      BY <1>4, BreakCycleKeepsInv
<1>5. CASE GroupBySender \/ TakeInTurn \/ BatchFlattened \/ UNCHANGED vars
      BY <1>5, FlattenKeepsInv
      DEF GroupBySender, TakeInTurn, BatchFlattened, vars
<1> QED BY <1>1, <1>2, <1>3, <1>4, <1>5 DEF Next, Step, Returned

LEMMA SpecInv == Spec => []Inv
BY InitInv, StepKeepsInv, PTL DEF Spec

(* However the dependencies lie, cycles included, grouping puts every      *)
(* transaction into exactly one batch.                                     *)
THEOREM GroupingIsPartition == Spec => []EveryTransactionOnce
<1>1. Inv => EveryTransactionOnce
      BY DEF Inv
<1> QED BY SpecInv, <1>1, PTL

(* Lists without forward nonce dependencies become a single batch, however *)
(* many of their transactions share accounts: GroupIndependentTransactions *)
(* does not do what its comment says (parallel_execution.go:459), and no   *)
(* list of the node is grouped at all.                                     *)
THEOREM WithoutForwardOneBatch == Spec => []OneBatch
<1>1. Inv => OneBatch
      BY DEF Inv
<1> QED BY SpecInv, <1>1, PTL

(* What that means for "independent batches" (IndependentBatches): of      *)
(* every such list in which two transactions share an account, the batches *)
(* that are executed in parallel are not independent.                      *)
THEOREM DependentShareBatch ==
    Spec => [](/\ ~Forward /\ pc /= "scan"
               /\ \E i, j \in Index : i /= j /\ Accounts(i) \cap Accounts(j) /= {}
               => ~IndependentBatches)
<1>1. ASSUME OneBatch, ~Forward, pc /= "scan", IndependentBatches,
             NEW i \in Index, NEW j \in Index, i /= j
      PROVE  Accounts(i) \cap Accounts(j) = {}
  <2>1. batches = <<Index>>
        BY <1>1 DEF OneBatch
  <2>2. 1 \in Batches /\ batches[1] = Index
        BY <2>1 DEF Batches
  <2> QED BY <1>1, <2>2 DEF IndependentBatches
<1>2. OneBatch =>
          (/\ ~Forward /\ pc /= "scan"
           /\ \E i, j \in Index : i /= j /\ Accounts(i) \cap Accounts(j) /= {}
           => ~IndependentBatches)
      BY <1>1
<1> QED BY <1>2, WithoutForwardOneBatch, PTL

(* No transaction is scheduled before one it depends on, apart from those  *)
(* that go alone to break a cycle.                                         *)
THEOREM DependenciesFirst == Spec => []NothingTooLate
<1>1. Inv => NothingTooLate
  <2> SUFFICES ASSUME Inv, NEW b \in Batches, NEW i \in batches[b],
                      NEW j \in Dependencies(i), Scheduled(j, b)
               PROVE  j \in Before(i)
      BY DEF Inv, InTime, NothingTooLate
  <2>1. Batches = 1 .. Len(batches) /\ Len(batches) \in Nat
        BY DEF Batches, Inv, ScanTypeOK
  <2>2. PICK c \in 1 .. b - 1 : j \in batches[c]
        BY DEF Scheduled
  <2>3. c \in Batches /\ c < b
        BY <2>1
  <2>4. \A d \in Batches : i \in batches[d] => d = b
        BY DEF Inv, EveryTransactionOnce
  <2> QED BY <2>2, <2>3, <2>4 DEF Before
<1> QED BY SpecInv, <1>1, PTL

-----------------------------------------------------------------------------
(* OptimizeTransactionOrder.                                               *)

Placed == {result[m] : m \in DOMAIN result}

Left == UNION {senderGroups[s] : s \in DOMAIN senderGroups}

(* The order the bubble sort makes.                                        *)
Earlier(i, j) ==
    \/ transactions[i].Nonce < transactions[j].Nonce
    \/ transactions[i].Nonce = transactions[j].Nonce /\ i < j

FlattenTypeOK ==
    /\ flattened \in 0 .. Len(batches)
    /\ result \in Seq(Index)
    /\ senders \in Seq(Addr)
    /\ senders /= <<>> => senderIdx \in 1 .. Len(senders)
    /\ IF pc = "scan" THEN flattened = 0 ELSE batch = {}
    /\ pc = "interleave" => flattened \in Batches
    /\ pc /= "interleave" => senders = <<>>
    /\ pc = "done" => flattened = Len(batches)

(* The groups that are left belong to the senders that are left.           *)
GroupsInv ==
    /\ DOMAIN senderGroups = {senders[k] : k \in DOMAIN senders}
    /\ \A j, k \in DOMAIN senders : senders[j] = senders[k] => j = k
    /\ \A s \in DOMAIN senderGroups :
           /\ senderGroups[s] /= {} /\ senderGroups[s] \subseteq batches[flattened]
           /\ \A i \in senderGroups[s] : transactions[i].Sender = s

PlacedInv ==
    /\ \A m, n \in DOMAIN result : result[m] = result[n] => m = n
    /\ Placed \cap Left = {}
    /\ Placed \cup Left = UNION {batches[c] : c \in 1 .. flattened}

(* What is placed comes before what is left of its sender, and a sender    *)
(* has a second turn in a row only when it is the last one left.           *)
TurnInv ==
    /\ \A m \in DOMAIN result : \A s \in DOMAIN senderGroups :
           result[m] \in batches[flattened] /\ transactions[result[m]].Sender = s =>
               \A i \in senderGroups[s] : Earlier(result[m], i)
    /\ senders /= <<>> /\ result /= <<>> =>
           LET last == result[Len(result)]
           IN  last \in batches[flattened]
                 /\ transactions[last].Sender = senders[senderIdx] => Len(senders) = 1

FlattenInv == FlattenTypeOK /\ GroupsInv /\ PlacedInv /\ TurnInv /\ OrderInBatch

LEMMA HasLeast ==
    ASSUME NEW S \in SUBSET Nat, S /= {}
    PROVE  \E k \in S : \A j \in S : k <= j
<1> DEFINE R == {pair \in Nat \X Nat : pair[1] < pair[2]}
<1>1. IsWellFoundedOn(R, Nat)
      BY NatLessThanWellFounded DEF OpToRel
<1>2. \A j, k \in Nat : <<j, k>> \notin R => k <= j
      OBVIOUS
<1> HIDE DEF R
<1>3. PICK k \in S : \A j \in S : <<j, k>> \notin R
      BY <1>1, WFMin
<1> QED BY <1>2, <1>3

(* A group is never without a first one: the lowest nonce, and of those    *)
(* that have it the lowest position.                                       *)
LEMMA FirstComesFirst ==
    ASSUME ScanTypeOK, NEW S \in SUBSET Index, S /= {}
    PROVE  /\ FirstByNonce(S) \in S
           /\ \A j \in S : j /= FirstByNonce(S) => Earlier(FirstByNonce(S), j)
<1>1. \A i \in Index : i \in Nat /\ transactions[i].Nonce \in Nat
      BY LengthNat, SchedulingAssumption DEF ScanTypeOK
<1>2. PICK low \in {transactions[i].Nonce : i \in S} :
          \A j \in {transactions[i].Nonce : i \in S} : low <= j
      BY ZenonT(40), <1>1, HasLeast
<1>3. PICK first \in {i \in S : transactions[i].Nonce = low} :
          \A j \in {i \in S : transactions[i].Nonce = low} : first <= j
  <2>1. {i \in S : transactions[i].Nonce = low} \in SUBSET Nat
        BY <1>1
  <2>2. {i \in S : transactions[i].Nonce = low} /= {}
        OBVIOUS
  <2> QED BY <2>1, <2>2, HasLeast
<1> DEFINE IsFirst(i) == \A j \in S : \/ transactions[i].Nonce < transactions[j].Nonce
                                      \/ transactions[i].Nonce = transactions[j].Nonce
                                         /\ i <= j
<1>4. first \in S /\ IsFirst(first)
  <2> SUFFICES ASSUME NEW j \in S
               PROVE  \/ transactions[first].Nonce < transactions[j].Nonce
                      \/ transactions[first].Nonce = transactions[j].Nonce /\ first <= j
      OBVIOUS
  <2>1. low \in Nat /\ transactions[j].Nonce \in Nat /\ low <= transactions[j].Nonce
        BY <1>1, <1>2
  <2>2. CASE transactions[j].Nonce = low
        BY <1>3, <2>2
  <2>3. CASE transactions[j].Nonce /= low
    <3>1. transactions[first].Nonce = low
          BY <1>3
    <3> QED BY <2>1, <2>3, <3>1
  <2> QED BY <2>2, <2>3
<1>5. FirstByNonce(S) \in S /\ IsFirst(FirstByNonce(S))
      BY <1>4 DEF FirstByNonce
<1> QED BY <1>1, <1>5 DEF Earlier

LEMMA WithoutOne ==
    ASSUME NEW T, NEW seq \in Seq(T), NEW k \in 1 .. Len(seq),
           \A m, n \in DOMAIN seq : seq[m] = seq[n] => m = n
    PROVE  /\ Without(seq, k) \in Seq(T) /\ Len(Without(seq, k)) = Len(seq) - 1
           /\ \A m, n \in DOMAIN Without(seq, k) :
                  Without(seq, k)[m] = Without(seq, k)[n] => m = n
           /\ {Without(seq, k)[m] : m \in DOMAIN Without(seq, k)}
                  = {seq[m] : m \in DOMAIN seq} \ {seq[k]}
<1> DEFINE a == SubSeq(seq, 1, k - 1)
           b == SubSeq(seq, k + 1, Len(seq))
           w == Without(seq, k)
<1>1. Len(seq) \in Nat /\ DOMAIN seq = 1 .. Len(seq) /\ k \in Nat
      BY LenProperties
<1>2. \A i \in 1 .. Len(seq) : seq[i] \in T
      BY ElementOfSeq
<1>3. /\ a \in Seq(T) /\ Len(a) = k - 1 /\ \A i \in 1 .. k - 1 : a[i] = seq[i]
  <2>1. \A i \in 1 .. k - 1 : seq[i] \in T
        BY <1>1, <1>2
  <2>2. /\ a \in Seq(T) /\ Len(a) = IF 1 <= k - 1 THEN k - 1 - 1 + 1 ELSE 0
        /\ \A i \in 1 .. k - 1 - 1 + 1 : a[i] = seq[1 + i - 1]
        BY <1>1, <2>1, SubSeqProperties
  <2> QED BY <1>1, <2>2
<1>4. /\ b \in Seq(T) /\ Len(b) = Len(seq) - k
      /\ \A i \in 1 .. Len(seq) - k : b[i] = seq[k + i]
  <2>1. \A i \in k + 1 .. Len(seq) : seq[i] \in T
        BY <1>1, <1>2
  <2>2. /\ b \in Seq(T)
        /\ Len(b) = IF k + 1 <= Len(seq) THEN Len(seq) - (k + 1) + 1 ELSE 0
        /\ \A i \in 1 .. Len(seq) - (k + 1) + 1 : b[i] = seq[k + 1 + i - 1]
        BY SMTT(30), <1>1, <2>1, SubSeqProperties
  <2>3. PICK n \in Nat : n = Len(seq)
        BY <1>1
  <2>4. k \in 1 .. n
        BY <2>3
  <2>5. \/ k + 1 <= n
        \/ ~(k + 1 <= n) /\ n - k = 0
        BY <2>3, <2>4
  <2>6. n - (k + 1) + 1 = n - k
        BY <2>3, <2>4
  <2>7. Len(b) = n - k
        BY <2>2, <2>3, <2>5, <2>6
  <2>8. \A i \in 1 .. n - k : k + 1 + i - 1 = k + i
        BY <2>4
  <2>9. \A i \in 1 .. n - k : b[i] = seq[k + i]
        BY <2>2, <2>3, <2>6, <2>8
  <2> QED BY <2>2, <2>3, <2>7, <2>9
<1>5. w = a \o b
      BY DEF Without
<1> HIDE DEF a, b, w
<1>6. /\ w \in Seq(T) /\ Len(w) = Len(seq) - 1 /\ DOMAIN w = 1 .. Len(seq) - 1
      /\ \A i \in 1 .. Len(seq) - 1 : w[i] = IF i < k THEN seq[i] ELSE seq[i + 1]
  <2>1. /\ w \in Seq(T) /\ Len(w) = Len(a) + Len(b)
        /\ \A i \in 1 .. Len(a) + Len(b) :
               w[i] = IF i <= Len(a) THEN a[i] ELSE b[i - Len(a)]
        BY ZenonT(40), <1>3, <1>4, <1>5, ConcatProperties
  <2>2. Len(w) = Len(seq) - 1 /\ DOMAIN w = 1 .. Len(seq) - 1
        BY <1>1, <1>3, <1>4, <2>1, LenProperties
  <2>3. ASSUME NEW i \in 1 .. Len(seq) - 1
        PROVE  w[i] = IF i < k THEN seq[i] ELSE seq[i + 1]
    <3>1. w[i] = IF i <= k - 1 THEN a[i] ELSE b[i - (k - 1)]
          BY <1>1, <1>3, <1>4, <2>1, <2>3
    <3>2. CASE i < k
          BY <1>1, <1>3, <2>3, <3>1, <3>2
    <3>3. CASE ~(i < k)
      <4>1. i - (k - 1) \in 1 .. Len(seq) - k /\ k + (i - (k - 1)) = i + 1
            BY <1>1, <2>3, <3>3
      <4> QED BY <1>1, <1>4, <2>3, <3>1, <3>3, <4>1
    <3> QED BY <3>2, <3>3
  <2> QED BY <2>1, <2>2, <2>3
<1>7. ASSUME NEW m \in DOMAIN w, NEW n \in DOMAIN w, w[m] = w[n] PROVE m = n
  <2>1. m \in 1 .. Len(seq) - 1 /\ n \in 1 .. Len(seq) - 1
        BY <1>6, <1>7
  <2>2. PICK p \in DOMAIN seq : p = (IF m < k THEN m ELSE m + 1) /\ w[m] = seq[p]
        BY <1>1, <1>6, <2>1
  <2>3. PICK q \in DOMAIN seq : q = (IF n < k THEN n ELSE n + 1) /\ w[n] = seq[q]
        BY <1>1, <1>6, <2>1
  <2>4. p = q
        BY <1>7, <2>2, <2>3
  <2> QED BY <1>1, <2>1, <2>2, <2>3, <2>4
<1>8. \A m \in DOMAIN w : \E p \in DOMAIN seq : p /= k /\ w[m] = seq[p]
  <2> SUFFICES ASSUME NEW m \in DOMAIN w
               PROVE  \E p \in DOMAIN seq : p /= k /\ w[m] = seq[p]
      OBVIOUS
  <2>1. m \in 1 .. Len(seq) - 1
        BY <1>6
  <2>2. (IF m < k THEN m ELSE m + 1) \in DOMAIN seq
        /\ (IF m < k THEN m ELSE m + 1) /= k
        BY <1>1, <2>1
  <2> QED BY <1>6, <2>1, <2>2
<1>9. \A p \in DOMAIN seq : p /= k => \E m \in DOMAIN w : w[m] = seq[p]
  <2> SUFFICES ASSUME NEW p \in DOMAIN seq, p /= k
               PROVE  \E m \in DOMAIN w : w[m] = seq[p]
      OBVIOUS
  <2>1. CASE p < k
        BY <1>1, <1>6, <2>1
  <2>2. CASE p > k
    <3>1. p - 1 \in DOMAIN w /\ ~(p - 1 < k) /\ p - 1 + 1 = p
          BY <1>1, <1>6, <2>2
    <3> QED BY <1>6, <3>1
  <2> QED BY <1>1, <2>1, <2>2
<1>10. {w[m] : m \in DOMAIN w} = {seq[m] : m \in DOMAIN seq} \ {seq[k]}
  <2>1. k \in DOMAIN seq
        BY <1>1
  <2> QED BY <1>8, <1>9, <2>1
<1> QED BY <1>6, <1>7, <1>10 DEF w

(* An order of the keys of a map names each of them once.                  *)
LEMMA OrderNamesAll ==
    ASSUME NEW S, IsFiniteSet(S), NEW f \in OrdersOf(S)
    PROVE  /\ f \in Seq(S) /\ Len(f) = Cardinality(S) /\ DOMAIN f = 1 .. Len(f)
           /\ \A m, n \in DOMAIN f : f[m] = f[n] => m = n
           /\ {f[m] : m \in DOMAIN f} = S
<1>1. PICK n \in Nat : n = Cardinality(S)
      BY FS_CardinalityType
<1>2. f \in [1 .. n -> S] /\ \A j, k \in 1 .. n : f[j] = f[k] => j = k
      BY <1>1 DEF OrdersOf
<1>3. f \in Seq(S) /\ Len(f) = n
      BY <1>2
<1>4. f \in Injection(1 .. n, S)
      BY <1>2 DEF Injection, IsInjective
<1>5. n \in Int /\ (IF 1 > n THEN 0 ELSE n - 1 + 1) = n
      OBVIOUS
<1>6. Cardinality(1 .. n) = (IF 1 > n THEN 0 ELSE n - 1 + 1)
      BY <1>5, FS_Interval
<1>7. f \in Surjection(1 .. n, S)
      BY <1>1, <1>4, <1>5, <1>6, FS_Injection
<1>8. {f[m] : m \in 1 .. n} = S
      BY <1>2, <1>7 DEF Surjection
<1> QED BY <1>1, <1>2, <1>3, <1>8

LEMMA SendersFinite ==
    ASSUME ScanTypeOK, NEW S \in SUBSET Index
    PROVE  IsFiniteSet(SendersOf(S)) /\ SendersOf(S) \subseteq Addr
<1>1. IsFiniteSet(S)
  <2>1. 1 \in Int /\ Len(transactions) \in Int /\ Index = 1 .. Len(transactions)
        BY LengthNat
  <2>2. IsFiniteSet(Index)
        BY <2>1, FS_Interval
  <2> QED BY <2>2, FS_Subset
<1> DEFINE f == [i \in S |-> transactions[i].Sender]
<1>2. f \in Surjection(S, SendersOf(S))
      BY DEF Surjection, SendersOf
<1>3. IsFiniteSet(SendersOf(S))
      BY <1>1, <1>2, FS_Surjection
<1>4. \A i \in S : transactions[i].Sender \in Addr
      BY LengthNat, SchedulingAssumption DEF ScanTypeOK
<1> QED BY <1>3, <1>4 DEF SendersOf

LEMMA InitFlatten == Init => FlattenInv
<1> SUFFICES ASSUME Init PROVE FlattenInv
    OBVIOUS
<1>0. /\ pc = "scan" /\ batches = <<>> /\ flattened = 0
      /\ senderGroups = <<>> /\ senders = <<>> /\ senderIdx = 1 /\ result = <<>>
      BY DEF Init
<1>1. DOMAIN result = {} /\ DOMAIN senderGroups = {} /\ DOMAIN senders = {}
      BY <1>0
<1>2. FlattenTypeOK
      BY <1>0 DEF FlattenTypeOK
<1>3. GroupsInv /\ TurnInv /\ OrderInBatch
      BY <1>0, <1>1 DEF GroupsInv, TurnInv, OrderInBatch
<1>4. PlacedInv
      BY <1>0, <1>1 DEF PlacedInv, Placed, Left
<1> QED BY <1>2, <1>3, <1>4 DEF FlattenInv

(* While batches are still being collected nothing has been placed.        *)
LEMMA ScanKeepsFlatten ==
    ASSUME Inv, FlattenInv, pc = "scan", UNCHANGED <<transactions, flattenVars>>,
           Inv', pc' \in {"scan", "flatten"}, pc' = "flatten" => batch' = {}
    PROVE  FlattenInv'
<1>0. /\ FlattenTypeOK /\ GroupsInv /\ PlacedInv
      /\ batches' \in Seq(SUBSET Index') /\ Index' = Index
      BY SameList DEF FlattenInv, Inv, ScanTypeOK
<1>1. /\ flattened = 0 /\ senders = <<>> /\ DOMAIN senders = {}
      /\ flattened' = flattened /\ senderGroups' = senderGroups
      /\ senders' = senders /\ senderIdx' = senderIdx /\ result' = result
      BY <1>0 DEF FlattenTypeOK, flattenVars
<1>2. DOMAIN senderGroups = {}
      BY <1>0, <1>1 DEF GroupsInv
<1>3. Placed = {}
  <2>1. \A c \in 1 .. flattened : FALSE
        BY <1>1
  <2> QED BY <1>0, <2>1 DEF PlacedInv
<1>4. DOMAIN result = {}
      BY <1>3 DEF Placed
<1>5. FlattenTypeOK'
  <2>1. Len(batches') \in Nat
        BY <1>0
  <2> QED BY <1>0, <1>1, <2>1 DEF FlattenTypeOK
<1>6. GroupsInv' /\ TurnInv' /\ OrderInBatch'
      BY <1>1, <1>2, <1>4 DEF GroupsInv, TurnInv, OrderInBatch
<1>7. PlacedInv'
      BY <1>1, <1>2, <1>4 DEF PlacedInv, Placed, Left
<1> QED BY <1>5, <1>6, <1>7 DEF FlattenInv

LEMMA GroupBySenderKeepsFlatten == Inv /\ Inv' /\ FlattenInv /\ GroupBySender => FlattenInv'
<1> SUFFICES ASSUME Inv, FlattenInv, GroupBySender PROVE FlattenInv'
    OBVIOUS
<1> DEFINE b == batches[flattened + 1]
<1>0. /\ ScanTypeOK /\ EveryTransactionOnce
      /\ FlattenTypeOK /\ GroupsInv /\ PlacedInv /\ OrderInBatch
      BY DEF FlattenInv, Inv
<1>1. /\ pc = "flatten" /\ pc' = "interleave" /\ flattened < Len(batches)
      /\ senderGroups' = [s \in SendersOf(b) |-> {i \in b : transactions[i].Sender = s}]
      /\ senders' \in OrdersOf(SendersOf(b))
      /\ senderIdx' = 1 /\ flattened' = flattened + 1
      /\ transactions' = transactions /\ batch' = batch /\ batches' = batches
      /\ result' = result
      BY DEF GroupBySender, groupVars
<1>2. /\ Batches = 1 .. Len(batches) /\ Len(batches) \in Nat /\ flattened \in Nat
      /\ flattened + 1 \in Batches /\ Batches' = Batches /\ Index' = Index
      BY <1>0, <1>1, SameList DEF Batches, ScanTypeOK, FlattenTypeOK
<1>3. b \subseteq Index
      BY <1>0, <1>2 DEF ScanTypeOK, Batches
<1>4. /\ batches'[flattened'] = b
      /\ {batches'[c] : c \in 1 .. flattened'} = {batches[c] : c \in 1 .. flattened} \cup {b}
  <2>1. 1 .. flattened' = 1 .. flattened \cup {flattened + 1}
        BY <1>1, <1>2
  <2> QED BY <1>1, <2>1
<1>5. \A c \in 1 .. flattened : batches[c] \cap b = {}
  <2>1. \A c \in 1 .. flattened : c \in Batches /\ c /= flattened + 1
        BY <1>2
  <2> QED BY <1>0, <1>2, <2>1 DEF EveryTransactionOnce
<1> HIDE DEF b
<1>6. /\ senders' \in Seq(SendersOf(b)) /\ SendersOf(b) \subseteq Addr
      /\ DOMAIN senders' = 1 .. Len(senders')
      /\ \A m, n \in DOMAIN senders' : senders'[m] = senders'[n] => m = n
      /\ {senders'[m] : m \in DOMAIN senders'} = SendersOf(b)
      BY <1>0, <1>1, <1>3, SendersFinite, OrderNamesAll
<1>7. Placed = UNION {batches[c] : c \in 1 .. flattened} /\ Placed' = Placed
  <2>1. DOMAIN senderGroups = {}
        BY <1>0, <1>1 DEF FlattenTypeOK, GroupsInv
  <2>2. Left = {}
        BY <2>1 DEF Left
  <2>3. Placed \cup Left = UNION {batches[c] : c \in 1 .. flattened}
        BY <1>0 DEF PlacedInv
  <2> QED BY <1>1, <2>2, <2>3 DEF Placed
<1>8. Placed \cap b = {}
      BY <1>5, <1>7
<1>9. Left' = b
  <2>1. Left' = UNION {{i \in b : transactions[i].Sender = s} : s \in SendersOf(b)}
        BY <1>1 DEF Left
  <2> QED BY <2>1 DEF SendersOf
<1>10. FlattenTypeOK'
  <2>1. senders' \in Seq(Addr)
        BY <1>6
  <2>2. senders' /= <<>> => senderIdx' \in 1 .. Len(senders')
        BY <1>1, <2>1
  <2> QED BY <1>0, <1>1, <1>2, <2>1, <2>2 DEF FlattenTypeOK
<1>11. GroupsInv'
  <2>1. DOMAIN senderGroups' = SendersOf(b)
        BY <1>1
  <2>2. ASSUME NEW s \in SendersOf(b)
        PROVE  /\ senderGroups'[s] /= {} /\ senderGroups'[s] \subseteq b
               /\ \A i \in senderGroups'[s] : transactions[i].Sender = s
        BY <1>1 DEF SendersOf
  <2> QED BY <1>1, <1>4, <1>6, <2>1, <2>2 DEF GroupsInv
<1>12. PlacedInv'
  <2>1. Placed' \cup Left' = UNION {batches'[c] : c \in 1 .. flattened'}
        BY <1>4, <1>7, <1>9
  <2> QED BY <1>0, <1>1, <1>7, <1>8, <1>9, <2>1 DEF PlacedInv
<1>13. TurnInv'
  <2>1. \A m \in DOMAIN result' : result'[m] \notin batches'[flattened']
        BY <1>1, <1>4, <1>8 DEF Placed
  <2>2. result' /= <<>> => Len(result') \in DOMAIN result'
        BY <1>0, <1>1 DEF FlattenTypeOK
  <2> QED BY <2>1, <2>2 DEF TurnInv
<1>14. OrderInBatch'
      BY <1>0, <1>1, <1>2 DEF OrderInBatch
<1> QED BY <1>10, <1>11, <1>12, <1>13, <1>14 DEF FlattenInv

LEMMA BatchFlattenedKeepsFlatten == Inv /\ FlattenInv /\ BatchFlattened => FlattenInv'
<1> SUFFICES ASSUME Inv, FlattenInv, BatchFlattened PROVE FlattenInv'
    OBVIOUS
<1>0. /\ FlattenTypeOK /\ GroupsInv /\ PlacedInv /\ TurnInv /\ OrderInBatch
      BY DEF FlattenInv
<1>1. /\ pc = "interleave" /\ senders = <<>>
      /\ pc' = IF flattened = Len(batches) THEN "done" ELSE "flatten"
      /\ transactions' = transactions /\ batch' = batch /\ batches' = batches
      /\ flattened' = flattened /\ senderGroups' = senderGroups
      /\ senders' = senders /\ senderIdx' = senderIdx /\ result' = result
      BY DEF BatchFlattened, groupVars, flattenVars
<1>2. Index' = Index /\ Batches' = Batches
      BY <1>1, SameList DEF Batches
<1>3. FlattenTypeOK'
      BY <1>0, <1>1, <1>2 DEF FlattenTypeOK
<1>4. GroupsInv' /\ PlacedInv'
  <2>1. Placed' = Placed /\ Left' = Left
        BY <1>1 DEF Placed, Left
  <2>2. PlacedInv'
        BY <1>0, <1>1, <2>1 DEF PlacedInv
  <2>3. GroupsInv'
        BY <1>0, <1>1 DEF GroupsInv
  <2> QED BY <2>2, <2>3
<1>5. TurnInv'
      BY <1>0, <1>1 DEF TurnInv, Earlier
<1>6. OrderInBatch'
      BY <1>0, <1>1, <1>2 DEF OrderInBatch
<1> QED BY <1>3, <1>4, <1>5, <1>6 DEF FlattenInv

(* The turn of s: i is placed and taken out of its group, and the group    *)
(* out of the map when it is empty.                                        *)
LEMMA TakeInTurnKeepsFlatten == Inv /\ FlattenInv /\ TakeInTurn => FlattenInv'
<1> SUFFICES ASSUME Inv, FlattenInv, TakeInTurn PROVE FlattenInv'
    OBVIOUS
<1> DEFINE s == senders[senderIdx]
           i == FirstByNonce(senderGroups[s])
           B == batches[flattened]
<1>0. /\ ScanTypeOK /\ EveryTransactionOnce
      /\ FlattenTypeOK /\ GroupsInv /\ PlacedInv /\ TurnInv /\ OrderInBatch
      BY DEF FlattenInv, Inv
<1>1. /\ pc = "interleave" /\ pc' = pc /\ senders /= <<>>
      /\ transactions' = transactions /\ batch' = batch /\ batches' = batches
      /\ flattened' = flattened /\ Index' = Index /\ Batches' = Batches
      /\ result' = Append(result, i)
      BY SameList DEF TakeInTurn, groupVars, Batches
<1>2. /\ Len(senders) \in Nat /\ senderIdx \in 1 .. Len(senders)
      /\ DOMAIN senders = 1 .. Len(senders) /\ senders \in Seq(Addr)
      /\ s \in DOMAIN senderGroups
      BY <1>0, <1>1 DEF FlattenTypeOK, GroupsInv
<1>3. /\ flattened \in Batches /\ B \subseteq Index
      /\ \A r \in DOMAIN senderGroups : senderGroups[r] \subseteq B
      BY <1>0, <1>1 DEF FlattenTypeOK, ScanTypeOK, GroupsInv, Batches
<1>4. /\ i \in senderGroups[s]
      /\ \A j \in senderGroups[s] : j /= i => Earlier(i, j)
  <2>1. senderGroups[s] \in SUBSET Index /\ senderGroups[s] /= {}
        BY <1>0, <1>2, <1>3 DEF GroupsInv
  <2> QED BY <1>0, <2>1, FirstComesFirst
<1>5. /\ senderGroups[s] = {i} =>
             /\ senderGroups' = [r \in DOMAIN senderGroups \ {s} |-> senderGroups[r]]
             /\ senders' = Without(senders, senderIdx)
             /\ senderIdx' = IF senderIdx = Len(senders) THEN 1 ELSE senderIdx
      /\ senderGroups[s] /= {i} =>
             /\ senderGroups' = [senderGroups EXCEPT ![s] = senderGroups[s] \ {i}]
             /\ senderIdx' = Turn(Len(senders)) /\ senders' = senders
      BY DEF TakeInTurn
<1> HIDE DEF i, s, B
<1>6. /\ i \in B /\ i \in Index /\ i \in Left /\ i \notin Placed
      /\ transactions[i].Sender = s
      BY <1>0, <1>2, <1>3, <1>4 DEF GroupsInv, PlacedInv, Left
<1>7. /\ DOMAIN senderGroups' = {r \in DOMAIN senderGroups :
                                    r = s => senderGroups[s] /= {i}}
      /\ \A r \in DOMAIN senderGroups' :
             senderGroups'[r] = IF r = s THEN senderGroups[s] \ {i} ELSE senderGroups[r]
  <2>1. CASE senderGroups[s] = {i}
        BY <1>5, <2>1
  <2>2. CASE senderGroups[s] /= {i}
        BY <1>2, <1>5, <2>2
  <2> QED BY <2>1, <2>2
<1>8. /\ \A r \in DOMAIN senderGroups' :
             senderGroups'[r] /= {} /\ senderGroups'[r] \subseteq senderGroups[r]
      BY <1>0, <1>4, <1>7 DEF GroupsInv
<1>9. \A r \in DOMAIN senderGroups : r /= s => i \notin senderGroups[r]
      BY <1>0, <1>6 DEF GroupsInv
<1>10. Left' = Left \ {i}
  <2>1. ASSUME NEW j \in Left' PROVE j \in Left /\ j /= i
    <3>1. PICK r \in DOMAIN senderGroups' : j \in senderGroups'[r]
          BY DEF Left
    <3>2. r \in DOMAIN senderGroups /\ j \in senderGroups[r]
          BY <1>7, <1>8, <3>1
    <3>3. r = s => j /= i
          BY <1>7, <3>1
    <3> QED BY <1>9, <3>2, <3>3 DEF Left
  <2>2. ASSUME NEW j \in Left, j /= i PROVE j \in Left'
    <3>1. PICK r \in DOMAIN senderGroups : j \in senderGroups[r]
          BY DEF Left
    <3>2. r \in DOMAIN senderGroups' /\ j \in senderGroups'[r]
          BY <1>7, <2>2, <3>1
    <3> QED BY <3>2 DEF Left
  <2> QED BY <2>1, <2>2
<1>11. /\ senders' \in Seq(Addr)
       /\ \A j, k \in DOMAIN senders' : senders'[j] = senders'[k] => j = k
       /\ DOMAIN senderGroups' = {senders'[k] : k \in DOMAIN senders'}
       /\ senders' /= <<>> => senderIdx' \in 1 .. Len(senders')
       /\ senders' /= <<>> /\ senders'[senderIdx'] = s => Len(senders') = 1
  <2>1. CASE senderGroups[s] = {i}
    <3>1. /\ senders' \in Seq(Addr) /\ Len(senders') = Len(senders) - 1
          /\ \A j, k \in DOMAIN senders' : senders'[j] = senders'[k] => j = k
          /\ {senders'[k] : k \in DOMAIN senders'} = {senders[k] : k \in DOMAIN senders} \ {s}
      <4>1. \A j, k \in DOMAIN senders : senders[j] = senders[k] => j = k
            BY SMTT(30), <1>0 DEF GroupsInv
      <4> DEFINE w == Without(senders, senderIdx)
      <4>2. /\ w \in Seq(Addr) /\ Len(w) = Len(senders) - 1
            /\ \A j, k \in DOMAIN w : w[j] = w[k] => j = k
            /\ {w[k] : k \in DOMAIN w}
                   = {senders[k] : k \in DOMAIN senders} \ {senders[senderIdx]}
            BY <1>2, <4>1, WithoutOne
      <4>3. senders' = w /\ s = senders[senderIdx]
            BY <1>5, <2>1 DEF s
      <4> HIDE DEF w
      <4> QED BY <4>2, <4>3
    <3>2. DOMAIN senderGroups' = DOMAIN senderGroups \ {s}
          BY <1>7, <2>1
    <3>3. DOMAIN senderGroups' = {senders'[k] : k \in DOMAIN senders'}
          BY <1>0, <3>1, <3>2 DEF GroupsInv
    <3>4. senders' /= <<>> => senderIdx' \in 1 .. Len(senders')
      <4>1. senders' /= <<>> => Len(senders') > 0
            BY <3>1
      <4> QED BY <1>2, <1>5, <2>1, <3>1, <4>1
    <3>5. \A k \in 1 .. Len(senders') : senders'[k] /= s
          BY <3>1
    <3> QED BY <3>1, <3>3, <3>4, <3>5
  <2>2. CASE senderGroups[s] /= {i}
    <3>1. senders' = senders /\ senderIdx' = Turn(Len(senders))
          BY <1>5, <2>2
    <3>2. DOMAIN senderGroups' = DOMAIN senderGroups
          BY <1>7, <2>2
    <3>3. senderIdx' \in 1 .. Len(senders) /\ (senderIdx' = senderIdx => Len(senders) = 1)
          BY <1>2, <3>1 DEF Turn
    <3>4. senders[senderIdx'] = s => senderIdx' = senderIdx
          BY <1>0, <1>2, <3>3 DEF GroupsInv, s
    <3> QED BY <1>0, <1>2, <3>1, <3>2, <3>3, <3>4 DEF GroupsInv
  <2> QED BY <2>1, <2>2
<1>12. /\ result' \in Seq(Index) /\ Len(result) \in Nat
       /\ DOMAIN result = 1 .. Len(result)
       /\ DOMAIN result' = 1 .. Len(result) + 1 /\ Len(result') = Len(result) + 1
       /\ \A m \in 1 .. Len(result) : result'[m] = result[m]
       /\ result'[Len(result) + 1] = i
      BY <1>0, <1>1, <1>6 DEF FlattenTypeOK
<1>13. Placed' = Placed \cup {i}
  <2>1. 1 .. Len(result) + 1 = 1 .. Len(result) \cup {Len(result) + 1}
        BY <1>12
  <2> QED BY <1>12, <2>1 DEF Placed
<1>14. FlattenTypeOK'
      BY <1>0, <1>1, <1>11, <1>12 DEF FlattenTypeOK
<1>15. GroupsInv'
  <2>1. ASSUME NEW r \in DOMAIN senderGroups'
        PROVE  /\ senderGroups'[r] /= {} /\ senderGroups'[r] \subseteq B
               /\ \A j \in senderGroups'[r] : transactions[j].Sender = r
        BY <1>0, <1>3, <1>7, <1>8 DEF GroupsInv
  <2> QED BY <1>1, <1>11, <2>1 DEF GroupsInv, B
<1>16. PlacedInv'
  <2>1. \A m \in 1 .. Len(result) : result'[m] /= i
        BY <1>6, <1>12 DEF Placed
  <2>2. \A m, n \in DOMAIN result' : result'[m] = result'[n] => m = n
        BY <1>0, <1>12, <2>1 DEF PlacedInv
  <2>3. Placed' \cap Left' = {} /\ Placed' \cup Left' = Placed \cup Left
        BY <1>0, <1>6, <1>10, <1>13 DEF PlacedInv
  <2> QED BY <1>0, <1>1, <2>2, <2>3 DEF PlacedInv
<1>17. TurnInv'
  <2>1. ASSUME NEW m \in DOMAIN result', NEW r \in DOMAIN senderGroups',
               result'[m] \in B, transactions[result'[m]].Sender = r,
               NEW j \in senderGroups'[r]
        PROVE  Earlier(result'[m], j)
    <3>1. r \in DOMAIN senderGroups /\ j \in senderGroups[r]
          BY <1>7, <1>8, <2>1
    <3>2. CASE m \in 1 .. Len(result)
          BY <1>0, <1>12, <2>1, <3>1, <3>2 DEF TurnInv, B
    <3>3. CASE m = Len(result) + 1
      <4>1. r = s /\ result'[m] = i /\ j /= i
            BY <1>6, <1>7, <1>12, <2>1, <3>3
      <4> QED BY <1>4, <3>1, <4>1
    <3> QED BY <1>12, <2>1, <3>2, <3>3
  <2>2. senders' /= <<>> /\ result'[Len(result')] \in B
            /\ transactions[result'[Len(result')]].Sender = senders'[senderIdx'] =>
                Len(senders') = 1
        BY <1>6, <1>11, <1>12
  <2>3. \A j, k : (Earlier(j, k))' = Earlier(j, k)
        BY <1>1 DEF Earlier
  <2>4. (batches[flattened])' = B
        BY <1>1 DEF B
  <2>5. \A m \in DOMAIN result' : \A r \in DOMAIN senderGroups' :
            result'[m] \in B /\ transactions'[result'[m]].Sender = r =>
                \A j \in senderGroups'[r] : Earlier(result'[m], j)
        BY <1>1, <2>1
  <2>6. \A m \in DOMAIN result' : \A r \in DOMAIN senderGroups' :
            result'[m] \in B /\ transactions'[result'[m]].Sender = r =>
                \A j \in senderGroups'[r] : (Earlier(result[m], j))'
        BY <2>5, <1>1 DEF Earlier
  <2> QED BY <1>1, <2>2, <2>4, <2>6 DEF TurnInv
<1>18. OrderInBatch'
  <2> SUFFICES ASSUME NEW b \in Batches, NEW m \in DOMAIN result', NEW n \in DOMAIN result',
                      m < n, result'[m] \in batches[b], result'[n] \in batches[b],
                      transactions[result'[m]].Sender = transactions[result'[n]].Sender
               PROVE  /\ Earlier(result'[m], result'[n])
                      /\ n = m + 1 => \A k \in batches[b] :
                            \/ transactions[k].Sender = transactions[result'[m]].Sender
                            \/ \E q \in 1 .. m : result'[q] = k
      BY <1>1 DEF OrderInBatch, Earlier
  <2>1. m \in 1 .. Len(result) /\ n \in 1 .. Len(result) + 1 /\ result'[m] = result[m]
        /\ \A q \in 1 .. m : result'[q] = result[q]
        BY <1>12
  <2>2. CASE n \in 1 .. Len(result)
        BY <1>0, <1>12, <2>1, <2>2 DEF OrderInBatch, Earlier
  <2>3. CASE n = Len(result) + 1
    <3>1. result'[n] = i /\ batches[b] = B
          BY <1>0, <1>3, <1>6, <1>12, <2>3 DEF EveryTransactionOnce, B
    <3>2. result[m] \in B /\ transactions[result[m]].Sender = s
          BY <1>6, <2>1, <3>1
    <3>3. Earlier(result[m], i)
          BY <1>0, <1>2, <1>4, <1>12, <2>1, <3>2 DEF TurnInv, B
    <3>4. ASSUME n = m + 1, NEW k \in B, transactions[k].Sender /= s
          PROVE  \E q \in 1 .. m : result[q] = k
      <4>1. m = Len(result) /\ result /= <<>>
            BY <1>12, <2>1, <2>3, <3>4
      <4>2. Len(senders) = 1
            BY <1>0, <1>1, <3>2, <4>1 DEF TurnInv, B, s
      <4>3. DOMAIN senderGroups = {s}
            BY <1>0, <1>2, <4>2 DEF GroupsInv, s
      <4>4. k \notin Left
            BY <1>0, <3>4, <4>3 DEF Left, GroupsInv
      <4>5. flattened \in 1 .. flattened
            BY <1>0, <1>1 DEF FlattenTypeOK, Batches, ScanTypeOK
      <4>6. k \in Placed
            BY <1>0, <3>4, <4>4, <4>5 DEF PlacedInv, B
      <4> QED BY <1>12, <4>1, <4>6 DEF Placed
    <3> QED BY <2>1, <3>1, <3>2, <3>3, <3>4
  <2> QED BY <2>1, <2>2, <2>3
<1> QED BY <1>14, <1>15, <1>16, <1>17, <1>18 DEF FlattenInv

LEMMA StepKeepsFlatten == Inv /\ Inv' /\ FlattenInv /\ [Next]_vars => FlattenInv'
<1> SUFFICES ASSUME Inv, Inv', FlattenInv, [Next]_vars PROVE FlattenInv'
    OBVIOUS
<1>1. CASE TakeReady \/ PassOver
      BY <1>1, ScanKeepsFlatten DEF TakeReady, PassOver
<1>2. CASE CloseBatch \/ BreakCycle
  <2>1. /\ pc = "scan" /\ pc' \in {"scan", "flatten"} /\ batch' = {}
        /\ UNCHANGED <<transactions, flattenVars>>
        BY <1>2 DEF CloseBatch, BreakCycle, NextScan
  <2> QED BY <2>1, ScanKeepsFlatten
<1>3. CASE GroupBySender
      BY <1>3, GroupBySenderKeepsFlatten
<1>4. CASE TakeInTurn
      BY <1>4, TakeInTurnKeepsFlatten
<1>5. CASE BatchFlattened
      BY <1>5, BatchFlattenedKeepsFlatten
<1>6. CASE UNCHANGED vars
  <2>1. /\ UNCHANGED <<transactions, pc, cursor, batch, processed, batches>>
        /\ UNCHANGED <<flattened, senderGroups, senders, senderIdx, result>>
        BY <1>6 DEF vars, groupVars, flattenVars
  <2>2. /\ FlattenTypeOK' = FlattenTypeOK /\ GroupsInv' = GroupsInv
        /\ OrderInBatch' = OrderInBatch
        BY <2>1 DEF FlattenTypeOK, GroupsInv, OrderInBatch, Index, Batches
  <2>3. PlacedInv' = PlacedInv /\ TurnInv' = TurnInv
        BY <2>1 DEF PlacedInv, TurnInv, Placed, Left, Earlier
  <2> QED BY <2>2, <2>3 DEF FlattenInv
<1> QED BY <1>1, <1>2, <1>3, <1>4, <1>5, <1>6 DEF Next, Step, Returned

LEMMA SpecFlatten == Spec => []FlattenInv
BY InitFlatten, StepKeepsFlatten, SpecInv, PTL DEF Spec

(* OptimizeTransactionOrder loses no transaction and repeats none: what it *)
(* returns is the argument in another order, whatever the dependencies.    *)
THEOREM OrderIsPermutation == Spec => []ResultIsPermutation
<1>1. Inv /\ FlattenInv => ResultIsPermutation
  <2> SUFFICES ASSUME Inv, FlattenInv, pc = "done" PROVE Placed = Index
      BY DEF FlattenInv, PlacedInv, ResultIsPermutation, Placed
  <2>1. /\ senders = <<>> /\ batch = {} /\ flattened = Len(batches)
        BY DEF FlattenInv, FlattenTypeOK
  <2>2. Left = {}
        BY <2>1 DEF FlattenInv, GroupsInv, Left
  <2>3. Placed = UNION {batches[c] : c \in 1 .. Len(batches)}
        BY <2>1, <2>2 DEF FlattenInv, PlacedInv
  <2>4. Batches = 1 .. Len(batches)
        BY DEF Inv, ScanTypeOK, Batches
  <2> QED BY <2>1, <2>3, <2>4 DEF Inv, EveryTransactionOnce
<1> QED BY SpecInv, SpecFlatten, <1>1, PTL

(* Within a batch a sender's transactions keep the order of their nonces,  *)
(* and two of them come in a row only when no other sender has any left.   *)
THEOREM SendersAlternate == Spec => []OrderInBatch
<1>1. FlattenInv => OrderInBatch
      BY DEF FlattenInv
<1> QED BY SpecFlatten, <1>1, PTL

-----------------------------------------------------------------------------
(* Why both loops end: a step can always be taken, and every step brings   *)
(* the end nearer.                                                         *)

(* What the loops need to go on: a scan something to look at, to hand over *)
(* or to break a cycle with; the flattening a batch whose senders can be   *)
(* put in an order, and a sender whose turn it is with a group to take     *)
(* from, so that no index is out of range.                                 *)
LoopCanMove ==
    \/ pc = "scan" /\ (cursor \in Index \/ batch /= {})
    \/ pc = "scan" /\ \E i \in Unprocessed : \A j \in Unprocessed : i <= j
    \/ /\ pc = "flatten" /\ flattened < Len(batches)
       /\ OrdersOf(SendersOf(batches[flattened + 1])) /= {}
    \/ pc = "interleave" /\ senders = <<>>
    \/ /\ pc = "interleave" /\ senderIdx \in DOMAIN senders
       /\ senders[senderIdx] \in DOMAIN senderGroups
       /\ senderGroups[senders[senderIdx]] /= {}

LoopsGoOn == pc /= "done" => LoopCanMove

(* A scan begins only when something is unprocessed, and the flattening    *)
(* of a batch only when there is one more.                                 *)
MoreToDo ==
    /\ pc = "scan" => batch /= {} \/ Unprocessed /= {}
    /\ pc = "flatten" => flattened < Len(batches)

LEMMA InitMoreToDo == Init => MoreToDo
<1> SUFFICES ASSUME Init PROVE MoreToDo
    OBVIOUS
<1>1. PICK n \in 2 .. MaxTxs : transactions \in [1 .. n -> Txs]
      BY DEF Init
<1>2. Len(transactions) = n /\ n \in Nat /\ n >= 2
      BY <1>1, SchedulingAssumption
<1>3. 1 \in Index
      BY <1>2 DEF Index
<1> QED BY <1>3 DEF Init, MoreToDo, Unprocessed

LEMMA StepMoreToDo == Inv /\ FlattenInv /\ MoreToDo /\ [Next]_vars => MoreToDo'
<1> SUFFICES ASSUME Inv, FlattenInv, MoreToDo, [Next]_vars PROVE MoreToDo'
    OBVIOUS
<1>0. /\ ScanTypeOK /\ FlattenTypeOK
      BY DEF Inv, FlattenInv
<1>1. CASE TakeReady
      BY <1>1 DEF TakeReady, MoreToDo
<1>2. CASE PassOver
  <2>1. Index' = Index
        BY <1>2, SameList DEF PassOver
  <2> QED BY <1>2, <2>1 DEF PassOver, MoreToDo, Unprocessed
<1>3. CASE CloseBatch \/ BreakCycle
  <2>1. /\ pc = "scan" /\ transactions' = transactions /\ flattened' = flattened
        /\ pc' = IF processed' = Index THEN "flatten" ELSE "scan"
        BY <1>3 DEF CloseBatch, BreakCycle, NextScan, flattenVars
  <2>2. Index' = Index
        BY <2>1, SameList
  <2>3. processed' \subseteq Index
        BY <1>0, <1>3 DEF CloseBatch, BreakCycle, Unprocessed, ScanTypeOK
  <2>4. \E S \in SUBSET Index : batches' = Append(batches, S)
        BY <1>0, <1>3 DEF CloseBatch, BreakCycle, Unprocessed, ScanTypeOK
  <2>5. Len(batches') = Len(batches) + 1 /\ Len(batches) \in Nat
        BY <1>0, <2>4 DEF ScanTypeOK
  <2>6. flattened' = 0
        BY <1>0, <2>1 DEF FlattenTypeOK
  <2>7. processed' /= Index => Unprocessed' /= {}
        BY <2>2, <2>3 DEF Unprocessed
  <2> QED BY <2>1, <2>5, <2>6, <2>7 DEF MoreToDo
<1>4. CASE GroupBySender \/ TakeInTurn
      BY <1>4 DEF GroupBySender, TakeInTurn, MoreToDo
<1>5. CASE BatchFlattened
  <2>1. /\ flattened' = flattened /\ batches' = batches
        /\ pc' = IF flattened = Len(batches) THEN "done" ELSE "flatten"
        BY <1>5 DEF BatchFlattened, groupVars, flattenVars
  <2>2. flattened \in 0 .. Len(batches) /\ Len(batches) \in Nat
        BY <1>0 DEF ScanTypeOK, FlattenTypeOK
  <2> QED BY <2>1, <2>2 DEF MoreToDo
<1>6. CASE UNCHANGED vars
      BY <1>6 DEF vars, groupVars, flattenVars, MoreToDo, Unprocessed, Index
<1> QED BY <1>1, <1>2, <1>3, <1>4, <1>5, <1>6 DEF Next, Step, Returned

LEMMA SpecMoreToDo == Spec => []MoreToDo
BY InitMoreToDo, StepMoreToDo, SpecInv, SpecFlatten, PTL DEF Spec

LEMMA OrderExists ==
    ASSUME NEW S, IsFiniteSet(S)
    PROVE  OrdersOf(S) /= {}
<1>1. PICK n : n = Cardinality(S)
      OBVIOUS
<1>2. ExistsBijection(1 .. n, S)
      BY <1>1, FS_CardinalityType
<1>3. PICK f \in Bijection(1 .. n, S) : TRUE
      BY <1>2 DEF ExistsBijection
<1>4. f \in [1 .. n -> S] /\ \A j, k \in 1 .. n : f[j] = f[k] => j = k
      BY <1>3 DEF Bijection, Injection, IsInjective
<1>5. f \in OrdersOf(S)
      BY <1>1, <1>4 DEF OrdersOf
<1> QED BY <1>5

(* Cycles or not, neither loop ever gets to a point where it cannot go on: *)
(* there is always a transaction to break a cycle with, and the sender     *)
(* whose turn it is still has a group.                                     *)
THEOREM LoopsNeverStuck == Spec => []LoopsGoOn
<1>1. Inv /\ FlattenInv /\ MoreToDo => LoopsGoOn
  <2> SUFFICES ASSUME Inv, FlattenInv, MoreToDo, pc /= "done" PROVE LoopCanMove
      BY DEF LoopsGoOn
  <2>0. /\ ScanTypeOK /\ FlattenTypeOK /\ GroupsInv
        BY DEF Inv, FlattenInv
  <2>1. CASE pc = "scan"
    <3>1. CASE batch = {}
      <4>1. Unprocessed \in SUBSET Nat /\ Unprocessed /= {}
            BY <2>0, <2>1, <3>1, LengthNat DEF MoreToDo, Unprocessed
      <4>2. \E i \in Unprocessed : \A j \in Unprocessed : i <= j
            BY <4>1, HasLeast
      <4> QED BY <2>1, <4>2 DEF LoopCanMove
    <3> QED BY <2>1, <3>1 DEF LoopCanMove
  <2>2. CASE pc = "flatten"
    <3>1. flattened < Len(batches)
          BY <2>2 DEF MoreToDo
    <3>2. batches[flattened + 1] \in SUBSET Index
      <4>1. flattened + 1 \in 1 .. Len(batches)
            BY <2>0, <3>1 DEF ScanTypeOK, FlattenTypeOK
      <4> QED BY <2>0, <4>1 DEF ScanTypeOK
    <3>3. OrdersOf(SendersOf(batches[flattened + 1])) /= {}
          BY <2>0, <3>2, SendersFinite, OrderExists
    <3> QED BY <2>2, <3>1, <3>3 DEF LoopCanMove
  <2>3. CASE pc = "interleave" /\ senders /= <<>>
    <3>1. senderIdx \in DOMAIN senders
          BY <2>0, <2>3 DEF FlattenTypeOK
    <3>2. senders[senderIdx] \in DOMAIN senderGroups
          BY <2>0, <3>1 DEF GroupsInv
    <3>3. senderGroups[senders[senderIdx]] /= {}
          BY <2>0, <3>2 DEF GroupsInv
    <3> QED BY <2>3, <3>1, <3>2, <3>3 DEF LoopCanMove
  <2>4. CASE pc = "interleave" /\ senders = <<>>
        BY <2>4 DEF LoopCanMove
  <2> QED BY <2>0, <2>1, <2>2, <2>3, <2>4 DEF ScanTypeOK
<1> QED BY <1>1, SpecInv, SpecFlatten, SpecMoreToDo, PTL

(* What is left to do: n is the length of the list, a what is left of the  *)
(* scans, f of the one under way, b the batches not flattened, u the       *)
(* transactions not placed, and p is 1 while a batch is being flattened.   *)
LeftOf(n, a, f, b, u, p) == (n + 4) * a + f + 2 * b + u + p

(* A scan that takes something costs one for the batch it will close, and  *)
(* less than the two a transaction counts for.                             *)
Scans == 2 * Cardinality(Unprocessed) + (IF batch = {} THEN 0 ELSE 1)

LeftToDo ==
    LeftOf(Len(transactions), Scans, Len(transactions) + 1 - cursor,
           Len(batches) - flattened, Cardinality(Index \ Placed),
           IF pc = "interleave" THEN 1 ELSE 0)

LEMMA LessLeft ==
    ASSUME NEW n \in Nat, NEW a \in Nat, NEW f \in Nat, NEW b \in Nat, NEW u \in Nat,
           NEW p \in 0 .. 1
    PROVE  /\ f > 0 => LeftOf(n, a, f - 1, b, u, p) < LeftOf(n, a, f, b, u, p)
           /\ f > 0 /\ a > 0 =>
                  LeftOf(n, a - 1, f - 1, b, u, p) < LeftOf(n, a, f, b, u, p)
           /\ f > 0 /\ a > 1 =>
                  LeftOf(n, a - 2, f - 1, b, u, p) < LeftOf(n, a, f, b, u, p)
           /\ a > 0 => LeftOf(n, a - 1, n, b + 1, u, p) < LeftOf(n, a, f, b, u, p)
           /\ a > 1 => LeftOf(n, a - 2, n, b + 1, u, p) < LeftOf(n, a, f, b, u, p)
           /\ b > 0 => LeftOf(n, a, f, b - 1, u, 1) < LeftOf(n, a, f, b, u, 0)
           /\ u > 0 => LeftOf(n, a, f, b, u - 1, p) < LeftOf(n, a, f, b, u, p)
           /\ LeftOf(n, a, f, b, u, 0) < LeftOf(n, a, f, b, u, 1)
           /\ LeftOf(n, a, f, b, u, p) \in Nat
<1>1. \A k, m \in Nat : k * m \in Nat
      OBVIOUS
<1>2. \A k, m \in Nat : m > 0 => k * (m - 1) = k * m - k
      OBVIOUS
<1>3. \A k, m \in Nat : m > 1 => k * (m - 2) = k * m - k - k
      OBVIOUS
<1>4. PICK k \in Nat : k = n + 4
      OBVIOUS
<1>5. PICK g \in Nat : g = k * a
      BY <1>1
<1>6. /\ (n + 4) * a = g
      /\ a > 0 => (n + 4) * (a - 1) = g - (n + 4)
      /\ a > 1 => (n + 4) * (a - 2) = g - (n + 4) - (n + 4)
      BY <1>2, <1>3, <1>4, <1>5
<1> QED BY <1>6 DEF LeftOf

LeftIs(n, a, f, b, u, p) ==
    /\ n = Len(transactions) /\ a = Scans /\ f = Len(transactions) + 1 - cursor
    /\ b = Len(batches) - flattened /\ u = Cardinality(Index \ Placed)
    /\ p = IF pc = "interleave" THEN 1 ELSE 0

LEMMA IndexFinite == ScanTypeOK => IsFiniteSet(Index)
<1> SUFFICES ASSUME ScanTypeOK PROVE IsFiniteSet(Index)
    OBVIOUS
<1>1. 1 \in Int /\ Len(transactions) \in Int /\ Index = 1 .. Len(transactions)
      BY LengthNat
<1> QED BY <1>1, FS_Interval

(* One less in a set.                                                      *)
LEMMA OneLess ==
    ASSUME NEW S, IsFiniteSet(S), NEW x \in S
    PROVE  Cardinality(S) > 0 /\ Cardinality(S \ {x}) = Cardinality(S) - 1
<1>1. /\ IsFiniteSet(S \ {x}) /\ Cardinality(S \ {x}) = Cardinality(S) - 1
      /\ Cardinality(S) \in Nat /\ Cardinality(S \ {x}) \in Nat
      BY FS_RemoveElement, FS_CardinalityType
<1> QED BY <1>1

LEMMA LeftCounted ==
    ASSUME Inv, FlattenInv
    PROVE  /\ \E n, a, f, b, u \in Nat, p \in 0 .. 1 : LeftIs(n, a, f, b, u, p)
           /\ IsFiniteSet(Unprocessed) /\ IsFiniteSet(Index \ Placed)
           /\ Cardinality(Unprocessed) \in Nat
<1>0. /\ ScanTypeOK /\ FlattenTypeOK
      BY DEF Inv, FlattenInv
<1>1. /\ IsFiniteSet(Unprocessed) /\ IsFiniteSet(Index \ Placed)
  <2>1. Unprocessed \in SUBSET Index /\ (Index \ Placed) \in SUBSET Index
        BY DEF Unprocessed
  <2> QED BY <1>0, <2>1, IndexFinite, FS_Subset
<1>2. Cardinality(Unprocessed) \in Nat /\ Cardinality(Index \ Placed) \in Nat
      BY <1>1, FS_CardinalityType
<1>3. Scans \in Nat
      BY <1>2 DEF Scans
<1>4. /\ Len(transactions) \in Nat /\ Len(transactions) + 1 - cursor \in Nat
      /\ Len(batches) - flattened \in Nat
      BY <1>0, LengthNat DEF ScanTypeOK, FlattenTypeOK
<1>5. LeftIs(Len(transactions), Scans, Len(transactions) + 1 - cursor,
             Len(batches) - flattened, Cardinality(Index \ Placed),
             IF pc = "interleave" THEN 1 ELSE 0)
      BY DEF LeftIs
<1>6. (IF pc = "interleave" THEN 1 ELSE 0) \in 0 .. 1
      OBVIOUS
<1> QED BY <1>1, <1>2, <1>3, <1>4, <1>5, <1>6

LEMMA PlacedAppend ==
    ASSUME NEW S, NEW s \in Seq(S), NEW x \in S
    PROVE  {Append(s, x)[m] : m \in DOMAIN Append(s, x)}
               = {s[m] : m \in DOMAIN s} \cup {x}
<1>1. /\ Len(s) \in Nat /\ DOMAIN s = 1 .. Len(s)
      /\ DOMAIN Append(s, x) = 1 .. Len(s) + 1
      /\ \A k \in 1 .. Len(s) : Append(s, x)[k] = s[k]
      /\ Append(s, x)[Len(s) + 1] = x
      BY AppendProperties, LenProperties
<1>2. \A k \in DOMAIN Append(s, x) : k \in 1 .. Len(s) \/ k = Len(s) + 1
      BY <1>1
<1>3. DOMAIN s \subseteq DOMAIN Append(s, x) /\ Len(s) + 1 \in DOMAIN Append(s, x)
      BY <1>1
<1> QED BY <1>1, <1>2, <1>3

(* What a turn places was in a group, and so not placed before.            *)
LEMMA TakesOneLeft ==
    ASSUME Inv, FlattenInv, pc = "interleave", senders /= <<>>,
           NEW i, i = FirstByNonce(senderGroups[senders[senderIdx]])
    PROVE  i \in Index /\ i \notin Placed
<1>1. PICK s : s = senders[senderIdx]
      OBVIOUS
<1>2. s \in DOMAIN senderGroups
  <2>1. senderIdx \in DOMAIN senders
        BY DEF FlattenInv, FlattenTypeOK
  <2> QED BY <1>1, <2>1 DEF FlattenInv, GroupsInv
<1>3. senderGroups[s] \in SUBSET Index /\ senderGroups[s] /= {}
  <2>1. batches[flattened] \in SUBSET Index
        BY DEF FlattenInv, FlattenTypeOK, Inv, ScanTypeOK, Batches
  <2> QED BY <1>2, <2>1 DEF FlattenInv, GroupsInv
<1>4. i \in senderGroups[s]
      BY <1>1, <1>3, FirstComesFirst DEF Inv
<1> QED BY <1>2, <1>3, <1>4 DEF FlattenInv, PlacedInv, Left

LEMMA StepLeavesLess == Inv /\ FlattenInv /\ Step => LeftToDo' < LeftToDo
<1> SUFFICES ASSUME Inv, FlattenInv, Step PROVE LeftToDo' < LeftToDo
    OBVIOUS
<1>0. /\ ScanTypeOK /\ EveryTransactionOnce /\ FlattenTypeOK /\ GroupsInv /\ PlacedInv
      BY DEF Inv, FlattenInv
<1>1. PICK n \in Nat, a \in Nat, f \in Nat, b \in Nat, u \in Nat, p \in 0 .. 1 :
          LeftIs(n, a, f, b, u, p)
      BY LeftCounted
<1>2. /\ n = Len(transactions) /\ a = Scans /\ f = Len(transactions) + 1 - cursor
      /\ b = Len(batches) - flattened /\ u = Cardinality(Index \ Placed)
      /\ p = (IF pc = "interleave" THEN 1 ELSE 0)
      /\ LeftToDo = LeftOf(n, a, f, b, u, p)
      BY <1>1 DEF LeftIs, LeftToDo
<1>3. /\ IsFiniteSet(Unprocessed) /\ IsFiniteSet(Index \ Placed)
      /\ Cardinality(Unprocessed) \in Nat
      BY LeftCounted
<1>4. /\ transactions' = transactions /\ Index' = Index
  <2>1. transactions' = transactions
        BY DEF Step, TakeReady, PassOver, CloseBatch, BreakCycle, GroupBySender,
               TakeInTurn, BatchFlattened
  <2> QED BY <2>1, SameList
<1>5. /\ cursor \in 1 .. n + 1 /\ flattened \in 0 .. Len(batches)
      /\ Len(batches) \in Nat /\ Index = 1 .. n
      BY <1>0, <1>2, LengthNat DEF ScanTypeOK, FlattenTypeOK
<1>6. CASE TakeReady
  <2>1. /\ cursor \in Index /\ cursor \notin processed
        /\ batch' = batch \cup {cursor} /\ processed' = processed \cup {cursor}
        /\ cursor' = cursor + 1
        /\ UNCHANGED <<pc, batches, flattened, result>>
        BY <1>6 DEF TakeReady, Ready, flattenVars
  <2>2. f > 0 /\ n + 1 - cursor' = f - 1
        BY <1>2, <1>5, <2>1
  <2>3. Unprocessed' = Unprocessed \ {cursor} /\ cursor \in Unprocessed
        BY <1>4, <2>1 DEF Unprocessed
  <2>4. PICK m \in Nat : m = Cardinality(Unprocessed)
        BY <1>3
  <2>5. m > 0 /\ Cardinality(Unprocessed') = m - 1
        BY <1>3, <2>3, <2>4, OneLess
  <2>6. (a = 2 * m /\ Scans' = a - 1) \/ (a = 2 * m + 1 /\ Scans' = a - 2)
    <3>1. batch' /= {}
          BY <2>1
    <3>2. Scans' = 2 * (m - 1) + 1
          BY <2>5, <3>1 DEF Scans
    <3>3. a = 2 * m + (IF batch = {} THEN 0 ELSE 1)
          BY <1>2, <2>4 DEF Scans
    <3>4. CASE batch = {}
      <4>1. a = 2 * m
            BY <3>3, <3>4
      <4>2. Scans' = a - 1
            BY <3>2, <4>1, <2>5
      <4> QED BY <4>1, <4>2
    <3>5. CASE batch /= {}
      <4>1. a = 2 * m + 1
            BY <3>3, <3>5
      <4>2. Scans' = a - 2
            BY <3>2, <4>1, <2>5
      <4> QED BY <4>1, <4>2
    <3> QED BY <3>4, <3>5
  <2>7. LeftToDo' = LeftOf(n, Scans', f - 1, b, u, p)
        BY <1>2, <1>4, <2>1, <2>2 DEF LeftToDo, Placed
  <2>8. CASE a = 2 * m /\ Scans' = a - 1
    <3>1. a > 0
          BY <2>5, <2>8
    <3>2. LeftToDo' = LeftOf(n, a - 1, f - 1, b, u, p)
          BY <2>7, <2>8
    <3> QED BY <1>2, <2>2, <3>1, <3>2, LessLeft
  <2>9. CASE a = 2 * m + 1 /\ Scans' = a - 2
    <3>1. a > 1
          BY <2>5, <2>9
    <3>2. LeftToDo' = LeftOf(n, a - 2, f - 1, b, u, p)
          BY <2>7, <2>9
    <3> QED BY <1>2, <2>2, <3>1, <3>2, LessLeft
  <2> QED BY <2>6, <2>8, <2>9
<1>7. CASE PassOver
  <2>1. /\ cursor \in Index /\ cursor' = cursor + 1
        /\ UNCHANGED <<pc, batch, processed, batches, flattened, result>>
        BY <1>7 DEF PassOver, flattenVars
  <2>2. f > 0 /\ n + 1 - cursor' = f - 1
        BY <1>2, <1>5, <2>1
  <2>3. Scans' = a
        BY <1>2, <1>4, <2>1 DEF Scans, Unprocessed
  <2>4. LeftToDo' = LeftOf(n, a, f - 1, b, u, p)
        BY <1>2, <1>4, <2>1, <2>2, <2>3 DEF LeftToDo, Placed
  <2> QED BY <1>2, <2>2, <2>4, LessLeft
<1>8. CASE CloseBatch
  <2>1. /\ pc = "scan" /\ pc' /= "interleave" /\ batch /= {} /\ batch' = {} /\ cursor' = 1
        /\ batches' = Append(batches, batch)
        /\ UNCHANGED <<processed, flattened, result>>
        BY <1>8 DEF CloseBatch, NextScan, flattenVars
  <2>2. batch \in SUBSET Index
        BY <1>0 DEF ScanTypeOK
  <2>3. Len(batches') = Len(batches) + 1
        BY <1>0, <2>1, <2>2 DEF ScanTypeOK
  <2>4. n + 1 - cursor' = n /\ Len(batches') - flattened' = b + 1 /\ p = 0
        BY <1>2, <1>5, <2>1, <2>3
  <2>5. a > 0 /\ Scans' = a - 1
    <3>1. PICK m \in Nat : m = Cardinality(Unprocessed)
          BY <1>3
    <3>2. Unprocessed' = Unprocessed
          BY <1>4, <2>1 DEF Unprocessed
    <3>3. a = 2 * m + 1 /\ Scans' = 2 * m + 0
          BY <1>2, <2>1, <3>1, <3>2 DEF Scans
    <3> QED BY <3>3
  <2>6. LeftToDo' = LeftOf(n, a - 1, n, b + 1, u, p)
        BY <1>2, <1>4, <2>1, <2>4, <2>5 DEF LeftToDo, Placed
  <2> QED BY <1>2, <2>5, <2>6, LessLeft
<1>9. CASE BreakCycle
  <2>1. PICK i \in Unprocessed :
            /\ batches' = Append(batches, {i}) /\ processed' = processed \cup {i}
            /\ pc = "scan" /\ pc' /= "interleave" /\ batch = {} /\ batch' = {}
            /\ cursor' = 1 /\ UNCHANGED <<flattened, result>>
        BY <1>9 DEF BreakCycle, NextScan, flattenVars
  <2>2. {i} \in SUBSET Index
        BY <2>1 DEF Unprocessed
  <2>3. Len(batches') = Len(batches) + 1
        BY <1>0, <2>1, <2>2 DEF ScanTypeOK
  <2>4. n + 1 - cursor' = n /\ Len(batches') - flattened' = b + 1 /\ p = 0
        BY <1>2, <1>5, <2>1, <2>3
  <2>5. a > 1 /\ Scans' = a - 2
    <3>1. PICK m \in Nat : m = Cardinality(Unprocessed)
          BY <1>3
    <3>2. Unprocessed' = Unprocessed \ {i}
          BY <1>4, <2>1 DEF Unprocessed
    <3>3. m > 0 /\ Cardinality(Unprocessed') = m - 1
          BY <1>3, <2>1, <3>1, <3>2, OneLess
    <3>4. a = 2 * m + 0 /\ Scans' = 2 * (m - 1) + 0
          BY <1>2, <2>1, <3>1, <3>3 DEF Scans
    <3> QED BY <3>3, <3>4
  <2>6. LeftToDo' = LeftOf(n, a - 2, n, b + 1, u, p)
        BY <1>2, <1>4, <2>1, <2>4, <2>5 DEF LeftToDo, Placed
  <2> QED BY <1>2, <2>5, <2>6, LessLeft
<1>10. CASE GroupBySender
  <2>1. /\ pc = "flatten" /\ pc' = "interleave" /\ flattened < Len(batches)
        /\ flattened' = flattened + 1
        /\ UNCHANGED <<cursor, batch, processed, batches, result>>
        BY <1>10 DEF GroupBySender, groupVars
  <2>2. b > 0 /\ Len(batches) - flattened' = b - 1 /\ p = 0
        BY <1>2, <1>5, <2>1
  <2>3. Scans' = a
        BY <1>2, <1>4, <2>1 DEF Scans, Unprocessed
  <2>4. LeftToDo' = LeftOf(n, a, f, b - 1, u, 1)
        BY <1>2, <1>4, <2>1, <2>2, <2>3 DEF LeftToDo, Placed
  <2> QED BY <1>2, <2>2, <2>4, LessLeft
<1>11. CASE TakeInTurn
  <2>1. PICK i : i = FirstByNonce(senderGroups[senders[senderIdx]])
        OBVIOUS
  <2>2. /\ pc = "interleave" /\ senders /= <<>> /\ result' = Append(result, i)
        /\ UNCHANGED <<pc, cursor, batch, processed, batches, flattened>>
        BY <1>11, <2>1 DEF TakeInTurn, groupVars
  <2>3. i \in Index /\ i \notin Placed
        BY <1>0, <2>1, <2>2, TakesOneLeft
  <2>4. Placed' = Placed \cup {i}
        BY SMTT(30), <1>0, <2>2, <2>3, PlacedAppend DEF FlattenTypeOK, Placed
  <2>5. (Index \ Placed)' = (Index \ Placed) \ {i} /\ i \in Index \ Placed
        BY <1>4, <2>3, <2>4
  <2>6. u > 0 /\ Cardinality((Index \ Placed)') = u - 1
        BY <1>2, <1>3, <2>5, OneLess
  <2>7. Scans' = a
        BY <1>2, <1>4, <2>2 DEF Scans, Unprocessed
  <2>8. LeftToDo' = LeftOf(n, a, f, b, u - 1, p)
        BY <1>2, <1>4, <2>2, <2>6, <2>7 DEF LeftToDo
  <2> QED BY <1>2, <2>6, <2>8, LessLeft
<1>12. CASE BatchFlattened
  <2>1. /\ pc = "interleave" /\ pc' /= "interleave"
        /\ UNCHANGED <<cursor, batch, processed, batches, flattened, result>>
        BY <1>12 DEF BatchFlattened, groupVars, flattenVars
  <2>2. Scans' = a
        BY <1>2, <1>4, <2>1 DEF Scans, Unprocessed
  <2>3. p = 1 /\ LeftToDo' = LeftOf(n, a, f, b, u, 0)
        BY <1>2, <1>4, <2>1, <2>2 DEF LeftToDo, Placed
  <2> QED BY <1>2, <2>3, LessLeft
<1> QED BY <1>6, <1>7, <1>8, <1>9, <1>10, <1>11, <1>12 DEF Step

LeftAtFirst ==
    LeftToDo = 2 * (Len(transactions) * Len(transactions)) + 10 * Len(transactions)

LeftIsCounted == LeftToDo \in Nat

EveryStepLeavesLess == [][Step => LeftToDo' < LeftToDo]_vars

(* GroupIndependentTransactions and OptimizeTransactionOrder end, on a     *)
(* list of n transactions after at most 2 n^2 + 10 n turns of their loops: *)
(* a scan that takes nothing is followed by one that takes something.      *)
(* With LoopsNeverStuck this is why ScheduleCompletes holds.               *)
THEOREM LoopsAreBounded ==
    Spec => LeftAtFirst /\ []LeftIsCounted /\ EveryStepLeavesLess
<1>1. Init => LeftAtFirst
  <2> SUFFICES ASSUME Init PROVE LeftAtFirst
      OBVIOUS
  <2>1. Inv /\ FlattenInv
        BY InitInv, InitFlatten
  <2>2. PICK n \in Nat : n = Len(transactions)
        BY <2>1, LengthNat DEF Inv
  <2>3. /\ cursor = 1 /\ batch = {} /\ processed = {} /\ Len(batches) = 0
        /\ flattened = 0 /\ pc = "scan" /\ Index = 1 .. n
        BY <2>2 DEF Init, Index
  <2>4. Placed = {}
        BY DEF Init, Placed
  <2>5. Unprocessed = Index /\ Index \ Placed = Index
        BY <2>3, <2>4 DEF Unprocessed
  <2>6. Cardinality(Index) = n
    <3>1. n \in Int /\ 1 \in Int /\ (IF 1 > n THEN 0 ELSE n - 1 + 1) = n
          OBVIOUS
    <3>2. Cardinality(1 .. n) = (IF 1 > n THEN 0 ELSE n - 1 + 1)
          BY <3>1, FS_Interval
    <3> QED BY <2>3, <3>1, <3>2
  <2>7. Scans = 2 * n
        BY <2>3, <2>5, <2>6 DEF Scans
  <2>8. LeftToDo = LeftOf(n, 2 * n, n, 0, n, 0)
    <3>1. n + 1 - 1 = n /\ 0 - 0 = 0
          OBVIOUS
    <3> QED BY <2>2, <2>3, <2>5, <2>6, <2>7, <3>1 DEF LeftToDo
  <2>9. (n + 4) * (2 * n) = 2 * (n * n) + 8 * n
        OBVIOUS
  <2>10. n * n \in Nat
        OBVIOUS
  <2>11. LeftOf(n, 2 * n, n, 0, n, 0) = 2 * (n * n) + 10 * n
        BY <2>9, <2>10 DEF LeftOf
  <2> QED BY <2>2, <2>8, <2>11 DEF LeftAtFirst
<1>2. Inv /\ FlattenInv => LeftIsCounted
  <2> SUFFICES ASSUME Inv, FlattenInv PROVE LeftIsCounted
      OBVIOUS
  <2>1. PICK n \in Nat, a \in Nat, f \in Nat, b \in Nat, u \in Nat, p \in 0 .. 1 :
            LeftIs(n, a, f, b, u, p)
        BY LeftCounted
  <2>2. LeftToDo = LeftOf(n, a, f, b, u, p)
        BY <2>1 DEF LeftIs, LeftToDo
  <2> QED BY <2>2, LessLeft DEF LeftIsCounted
<1>3. Inv /\ FlattenInv /\ [Next]_vars => [Step => LeftToDo' < LeftToDo]_vars
      BY StepLeavesLess
<1> QED BY <1>1, <1>2, <1>3, SpecInv, SpecFlatten, PTL DEF Spec, EveryStepLeavesLess
=============================================================================
