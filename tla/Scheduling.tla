----------------------------- MODULE Scheduling -----------------------------
(***************************************************************************)
(* How package execution orders the transactions of a block before it      *)
(* executes them: CalculateTransactionDependencies finds what each one     *)
(* depends on, GroupIndependentTransactions scans the list over and over,  *)
(* collecting batches, and OptimizeTransactionOrder flattens the batches   *)
(* again, taking from the senders of a batch in turn.                      *)
(* A transaction is its index in the list.  A scan goes up the list, so a  *)
(* batch is in the order of the list and is modelled by its set.           *)
(***************************************************************************)
EXTENDS Integers, Sequences, FiniteSets

CONSTANTS Addr, Txs,   \* what the list is made of
          MaxTxs       \* its length, at most: a bound

ASSUME SchedulingAssumption ==
    /\ Txs \subseteq [Sender : Addr, Recipient : Addr, Nonce : Nat]
    /\ MaxTxs \in Nat

VARIABLES
    transactions,            \* the argument, of two transactions or more
    pc,                      \* "scan", "flatten", "interleave" or "done"
    cursor,                  \* i of the scan
    batch, processed,        \* of the scan
    batches,                 \* what GroupIndependentTransactions returns
    flattened,               \* batches OptimizeTransactionOrder is done with
    senderGroups,            \* what is left of the batch, by sender
    senders, senderIdx,
    result                   \* what OptimizeTransactionOrder returns

groupVars   == <<cursor, batch, processed, batches>>
flattenVars == <<flattened, senderGroups, senders, senderIdx, result>>

vars == <<transactions, pc, groupVars, flattenVars>>

-----------------------------------------------------------------------------
Index == 1 .. Len(transactions)

Accounts(i) == {transactions[i].Sender, transactions[i].Recipient}

(* accountUsage: the earlier transactions that use one of its accounts.    *)
UsageDeps(i) == {j \in Index : j < i /\ Accounts(i) \cap Accounts(j) /= {}}

(* senderNonceDeps: the last transaction in the list, before or after it,  *)
(* with its sender and the nonce before its own.                           *)
NonceDeps(i) ==
    LET previous == {j \in Index :
            /\ transactions[j].Sender = transactions[i].Sender
            /\ transactions[j].Nonce = transactions[i].Nonce - 1}
    IN  {j \in previous : \A k \in previous : k <= j}

Dependencies(i) == UsageDeps(i) \cup NonceDeps(i)

-----------------------------------------------------------------------------
Init ==
    /\ transactions \in UNION {[1 .. n -> Txs] : n \in 2 .. MaxTxs}
    /\ pc = "scan" /\ cursor = 1 /\ batch = {} /\ processed = {}
    /\ batches = <<>> /\ flattened = 0
    /\ senderGroups = <<>> /\ senders = <<>> /\ senderIdx = 1 /\ result = <<>>

(* GroupIndependentTransactions.  What a scan takes it marks as processed  *)
(* at once, so that the rest of the same scan sees it as processed.        *)

(* Mutant: nothing is asked of the dependencies.                           *)
ReadyAnyway(i) == i \notin processed

(* Mutant: processed or not, it is taken if nothing blocks it.             *)
ReadyAgain(i) == Dependencies(i) \subseteq processed

Ready(i) == i \notin processed /\ Dependencies(i) \subseteq processed

TakeReady ==
    /\ pc = "scan" /\ cursor \in Index
    /\ Ready(cursor)
    /\ batch' = batch \cup {cursor}
    /\ processed' = processed \cup {cursor}
    /\ cursor' = cursor + 1
    /\ UNCHANGED <<transactions, pc, batches, flattenVars>>

PassOver ==
    /\ pc = "scan" /\ cursor \in Index
    /\ ~Ready(cursor)
    /\ cursor' = cursor + 1
    /\ UNCHANGED <<transactions, pc, batch, processed, batches, flattenVars>>

(* The next scan, unless everything has been processed.                    *)
NextScan(done) ==
    /\ cursor' = 1 /\ batch' = {}
    /\ pc' = IF done = Index THEN "flatten" ELSE "scan"

CloseBatch ==
    /\ pc = "scan" /\ cursor \notin Index
    /\ batch /= {}
    /\ batches' = Append(batches, batch)
    /\ NextScan(processed)
    /\ UNCHANGED <<transactions, processed, flattenVars>>

Unprocessed == Index \ processed

(* Mutant: the cycle is not broken, the scan is tried again.               *)
ScanAgain ==
    /\ pc = "scan" /\ cursor \notin Index
    /\ batch = {}
    /\ NextScan(processed)
    /\ UNCHANGED <<transactions, processed, batches, flattenVars>>

(* A scan that took nothing met a cycle: the first transaction left goes   *)
(* alone, whatever it depends on.                                          *)
BreakCycle ==
    /\ pc = "scan" /\ cursor \notin Index
    /\ batch = {}
    /\ \E i \in Unprocessed :
        /\ \A j \in Unprocessed : i <= j
        /\ batches' = Append(batches, {i})
        /\ processed' = processed \cup {i}
        /\ NextScan(processed \cup {i})
    /\ UNCHANGED <<transactions, flattenVars>>

-----------------------------------------------------------------------------
(* OptimizeTransactionOrder.                                               *)

SendersOf(S) == {transactions[i].Sender : i \in S}

(* Orders of the keys of a Go map: any.                                    *)
OrdersOf(S) ==
    {f \in [1 .. Cardinality(S) -> S] : \A m, n \in DOMAIN f : f[m] = f[n] => m = n}

GroupBySender ==
    /\ pc = "flatten" /\ flattened < Len(batches)
    /\ LET b == batches[flattened + 1]
       IN  /\ senderGroups' = [s \in SendersOf(b) |->
                                  {i \in b : transactions[i].Sender = s}]
           /\ senders' \in OrdersOf(SendersOf(b))
    /\ senderIdx' = 1
    /\ flattened' = flattened + 1
    /\ pc' = "interleave"
    /\ UNCHANGED <<transactions, groupVars, result>>

(* Mutant: in the order of the list.                                       *)
FirstInList(S) == CHOOSE i \in S : \A j \in S : i <= j

(* The bubble sort by nonce is stable and a group is in list order before. *)
FirstByNonce(S) ==
    CHOOSE i \in S : \A j \in S :
        \/ transactions[i].Nonce < transactions[j].Nonce
        \/ transactions[i].Nonce = transactions[j].Nonce /\ i <= j

(* senderIdx++, and back to the first when it is past the last of n.       *)
Turn(n) == IF senderIdx + 1 > n THEN 1 ELSE senderIdx + 1

(* Mutant: the slice is cut one further on, and the next sender goes too.  *)
WithoutNext(seq, k) == SubSeq(seq, 1, k - 1) \o SubSeq(seq, k + 2, Len(seq))

Without(seq, k) == SubSeq(seq, 1, k - 1) \o SubSeq(seq, k + 1, Len(seq))

TakeInTurn ==
    /\ pc = "interleave" /\ senders /= <<>>
    /\ LET s == senders[senderIdx]
           i == FirstByNonce(senderGroups[s])
           n == Len(senders)
       IN  /\ result' = Append(result, i)
           /\ IF senderGroups[s] = {i}
              THEN /\ senderGroups' =
                          [r \in DOMAIN senderGroups \ {s} |-> senderGroups[r]]
                   /\ senders' = Without(senders, senderIdx)
                   /\ senderIdx' = IF senderIdx = n THEN 1 ELSE senderIdx
              ELSE /\ senderGroups' = [senderGroups EXCEPT ![s] = @ \ {i}]
                   /\ senderIdx' = Turn(n)
                   /\ UNCHANGED senders
    /\ UNCHANGED <<transactions, pc, groupVars, flattened>>

BatchFlattened ==
    /\ pc = "interleave" /\ senders = <<>>
    /\ pc' = IF flattened = Len(batches) THEN "done" ELSE "flatten"
    /\ UNCHANGED <<transactions, groupVars, flattenVars>>

Returned == pc = "done" /\ UNCHANGED vars

Step ==
    \/ TakeReady \/ PassOver \/ CloseBatch \/ BreakCycle
    \/ GroupBySender \/ TakeInTurn \/ BatchFlattened

Next == Step \/ Returned

Spec == Init /\ [][Next]_vars

(* A function call runs on.                                                *)
FairSpec == Spec /\ WF_vars(Step)

-----------------------------------------------------------------------------
Batches == DOMAIN batches

(* GroupIndependentTransactions: what is processed is in exactly one batch, *)
(* the one being collected included, and nothing else is.                  *)
EveryTransactionOnce ==
    /\ processed = batch \cup UNION {batches[b] : b \in Batches}
    /\ \A b \in Batches :
        /\ batches[b] /= {} /\ batches[b] \cap batch = {}
        /\ \A c \in Batches : b /= c => batches[b] \cap batches[c] = {}
    /\ pc /= "scan" => processed = Index

(* OptimizeTransactionOrder returns a permutation of its argument.         *)
ResultIsPermutation ==
    /\ \A m, n \in DOMAIN result : result[m] = result[n] => m = n
    /\ pc = "done" => {result[m] : m \in DOMAIN result} = Index

Before(i) == UNION {batches[b] : b \in {c \in Batches : \A d \in Batches :
                        i \in batches[d] => c < d}}

(* No transaction is scheduled in a batch before one it depends on: all of *)
(* those are in earlier batches, or earlier in the list in its own, unless *)
(* it went alone to break a cycle.                                         *)
NothingTooLate ==
    \A b \in Batches : \A i \in batches[b] : \A j \in Dependencies(i) :
        \/ j \in Before(i)
        \/ j \in batches[b] /\ (j < i)
        \/ batches[b] = {i}

(* "Interleave transactions from different senders": in a batch, one of     *)
(* two transactions of a sender comes first by nonce and then by position, *)
(* and two come in a row only when no other sender has any left in it.     *)
OrderInBatch ==
    \A b \in Batches : \A m, n \in DOMAIN result :
        LET t == transactions[result[m]]  u == transactions[result[n]]
        IN  m < n /\ {result[m], result[n]} \subseteq batches[b]
              /\ t.Sender = u.Sender =>
                /\ \/ t.Nonce < u.Nonce
                   \/ t.Nonce = u.Nonce /\ result[m] < result[n]
                /\ n = m + 1 => \A i \in batches[b] :
                      \/ transactions[i].Sender = t.Sender
                      \/ \E k \in 1 .. m : result[k] = i

(* Both loops, "while not all processed" and "while groups are left", end, *)
(* cycles or not.                                                          *)
ScheduleCompletes == <>(pc = "done")

-----------------------------------------------------------------------------
(* What a comment or the README says and the program does not do.  The     *)
(* README tells which run shows it, with which property in its .cfg.       *)

(* "Each sender's transactions should be in order": of two transactions of *)
(* one sender, the one with the lower nonce comes first.                   *)
SenderInOrder ==
    \A m, n \in DOMAIN result :
        LET t == transactions[result[m]]  u == transactions[result[n]]
        IN  m < n /\ t.Sender = u.Sender => t.Nonce <= u.Nonce

(* "Groups transactions into independent batches": no two transactions of  *)
(* a batch have an account in common.                                      *)
IndependentBatches ==
    \A b \in Batches : \A i, j \in batches[b] :
        i /= j => Accounts(i) \cap Accounts(j) = {}
=============================================================================
