---------------------------- MODULE MempoolRace ----------------------------
(***************************************************************************)
(* SubmitTransaction, in the generator's goroutine, against ProposeBlock,  *)
(* in main's, access by access.  Both work on bc.Mempool and on the        *)
(* validators' mempools with no lock: `append` reads a slice and stores    *)
(* the longer one, GetTxFromMempool and the purge read a slice and store   *)
(* the shorter one, and whoever stores last wins.  Blockchain composes     *)
(* these steps with the rest of the node, over sets of transactions; here  *)
(* the mempools are the sequences they are in the code, and a slice that   *)
(* is read while it is stored is told apart.                               *)
(* A transaction is the number of its submission; all IDs differ.          *)
(***************************************************************************)
EXTENDS Integers, Sequences, FiniteSets

CONSTANTS NumValidators, BlockSize,
          NumTransactions, NumRounds  \* submissions and rounds: bounds

ASSUME RaceAssumption ==
    /\ NumValidators \in Nat \ {0} /\ BlockSize \in Nat \ {0}
    /\ NumTransactions \in Nat /\ NumRounds \in Nat

VARIABLES
    Pool,            \* Pool[v] is Validators[v].Mempool, Pool[-1] bc.Mempool
    submitted, gpc, gTarget, gSlice, \* the generator and its locals
    pc, round, CurrentLeader, mSlice, txsToInclude, newTxs, \* main, its locals
    taken,           \* every transaction that was ever selected for a block
    proposals,       \* how often main went past the check: history, like taken
    torn             \* a slice was read while it was being stored

genVars  == <<submitted, gpc, gTarget, gSlice>>
mainVars == <<pc, round, CurrentLeader, mSlice, txsToInclude, newTxs, taken,
              proposals>>

vars == <<Pool, genVars, mainVars, torn>>

-----------------------------------------------------------------------------
Global    == -1
Validator == 0 .. NumValidators - 1
PoolName  == {Global} \cup Validator

Elements(s) == {s[k] : k \in DOMAIN s}

Init ==
    /\ Pool = [x \in PoolName |-> <<>>]
    /\ submitted = 0 /\ gpc = "idle" /\ gTarget = 0 /\ gSlice = <<>>
    /\ pc = "check" /\ round = 0 /\ CurrentLeader = 0
    /\ mSlice = <<>> /\ txsToInclude = <<>> /\ newTxs = <<>>
    /\ taken = {} /\ proposals = 0
    /\ torn = FALSE

-----------------------------------------------------------------------------
(* SubmitTransaction: bc.Mempool first, then the validators in order.      *)

(* Mutant: bc.Mempool last.                                                *)
GlobalLast(k) == IF k = NumValidators THEN Global ELSE k

Target(k) == IF k = 0 THEN Global ELSE k - 1

(* Mutant: at the front.                                                   *)
Prepended(s, p) == <<p>> \o s

Appended(s, p) == Append(s, p)

BeginSubmit ==
    /\ gpc = "idle" /\ submitted < NumTransactions
    /\ submitted' = submitted + 1
    /\ gTarget' = 0 /\ gpc' = "read"
    /\ UNCHANGED <<Pool, gSlice, mainVars, torn>>

AppendRead ==
    /\ gpc = "read"
    /\ gSlice' = Pool[Target(gTarget)]
    /\ gpc' = "store"
    /\ UNCHANGED <<Pool, submitted, gTarget, mainVars, torn>>

AppendStore ==
    /\ gpc = "store"
    /\ Pool' = [Pool EXCEPT ![Target(gTarget)] = Appended(gSlice, submitted)]
    /\ gSlice' = <<>>
    /\ IF gTarget = NumValidators THEN gpc' = "idle" /\ gTarget' = 0
       ELSE gpc' = "read" /\ gTarget' = gTarget + 1
    /\ UNCHANGED <<submitted, mainVars, torn>>

-----------------------------------------------------------------------------
(* ProposeBlock, with a signature that succeeds; the rest of a round does  *)
(* not touch the mempools.                                                 *)

(* With bc.Mempool empty nothing is proposed, and the leader stays.        *)
CheckMempool ==
    /\ pc = "check" /\ round < NumRounds
    /\ IF Pool[Global] = <<>> THEN round' = round + 1 /\ UNCHANGED <<pc, proposals>>
       ELSE pc' = "take" /\ proposals' = proposals + 1 /\ UNCHANGED round
    /\ UNCHANGED <<Pool, genVars, CurrentLeader, mSlice, txsToInclude, newTxs,
                   taken, torn>>

(* GetTxFromMempool compares the length of the leader's mempool with the   *)
(* limit ...                                                               *)
TakeLength ==
    /\ pc = "take"
    /\ pc' = IF Len(Pool[CurrentLeader]) <= BlockSize THEN "all" ELSE "some"
    /\ UNCHANGED <<Pool, genVars, round, CurrentLeader, mSlice, txsToInclude,
                   newTxs, taken, proposals, torn>>

Limit(s) == IF Len(s) <= BlockSize THEN Len(s) ELSE BlockSize

Include(txs) == txsToInclude' = txs /\ taken' = taken \cup Elements(txs)

(* ... reads the mempool again for the result, all of it ...               *)
TakeAll ==
    /\ pc = "all"
    /\ Include(Pool[CurrentLeader]) /\ mSlice' = <<>>
    /\ pc' = "trim"
    /\ UNCHANGED <<Pool, genVars, round, CurrentLeader, newTxs, proposals, torn>>

(* ... or as much as the limit allows ...                                  *)
TakeSome ==
    /\ pc = "some"
    /\ LET pool == Pool[CurrentLeader] IN Include(SubSeq(pool, 1, Limit(pool)))
    /\ pc' = "rest"
    /\ UNCHANGED <<Pool, genVars, round, CurrentLeader, mSlice, newTxs, proposals,
                   torn>>

(* ... reads it once more for the rest ...                                 *)
RestRead ==
    /\ pc = "rest"
    /\ LET pool == Pool[CurrentLeader]
       IN  mSlice' = SubSeq(pool, Limit(pool) + 1, Len(pool))
    /\ pc' = "trim"
    /\ UNCHANGED <<Pool, genVars, round, CurrentLeader, txsToInclude, newTxs,
                   taken, proposals, torn>>

(* ... and stores what is left, over whatever was appended in between.     *)
TrimStore ==
    /\ pc = "trim"
    /\ Pool' = [Pool EXCEPT ![CurrentLeader] = mSlice]
    /\ mSlice' = <<>>
    /\ pc' = IF txsToInclude = <<>> THEN "vote" ELSE "scan"
    /\ UNCHANGED <<genVars, round, CurrentLeader, txsToInclude, newTxs, taken,
                   proposals, torn>>

(* The purge: `range bc.Mempool` reads the slice once ...                  *)
ScanRead ==
    /\ pc = "scan"
    /\ mSlice' = Pool[Global]
    /\ pc' = "purge"
    /\ UNCHANGED <<Pool, genVars, round, CurrentLeader, txsToInclude, newTxs,
                   taken, proposals, torn>>

(* ... copies what the block does not include, one after the other ...     *)
KeepNext ==
    /\ pc = "purge" /\ mSlice /= <<>>
    /\ newTxs' = IF Head(mSlice) \in Elements(txsToInclude) THEN newTxs
                     ELSE Append(newTxs, Head(mSlice))
    /\ mSlice' = Tail(mSlice)
    /\ UNCHANGED <<Pool, genVars, pc, round, CurrentLeader, txsToInclude, taken,
                   proposals, torn>>

(* ... and stores the copy.                                                *)
PurgeStore ==
    /\ pc = "purge" /\ mSlice = <<>>
    /\ Pool' = [Pool EXCEPT ![Global] = newTxs]
    /\ newTxs' = <<>>
    /\ pc' = "vote"
    /\ UNCHANGED <<genVars, round, CurrentLeader, mSlice, txsToInclude, taken,
                   proposals, torn>>

NextLeader == (CurrentLeader + 1) % NumValidators

(* The rest of the round, with RotateLeader.                               *)
EndRound ==
    /\ pc = "vote"
    /\ CurrentLeader' = NextLeader
    /\ round' = round + 1 /\ pc' = "check" /\ txsToInclude' = <<>>
    /\ UNCHANGED <<Pool, genVars, mSlice, newTxs, taken, proposals, torn>>

-----------------------------------------------------------------------------
(* The mempool main is about to read or store.                             *)
MainAt ==
    CASE pc \in {"all", "some", "rest", "trim"} -> {CurrentLeader}
      [] pc = "scan" \/ (pc = "purge" /\ mSlice = <<>>) -> {Global}
      [] OTHER -> {}

(* A slice is three words, its length one of them.  When one goroutine     *)
(* reads or stores it while the other stores it, what comes out may be     *)
(* neither: the model stops.                                               *)
TornAccess ==
    /\ gpc \in {"read", "store"} /\ Target(gTarget) \in MainAt
    /\ gpc = "store" \/ pc \in {"trim", "purge"}
    /\ torn' = TRUE
    /\ UNCHANGED <<Pool, genVars, mainVars>>

GeneratorStep == BeginSubmit \/ AppendRead \/ AppendStore

MainStep ==
    \/ CheckMempool \/ TakeLength \/ TakeAll \/ TakeSome \/ RestRead \/ TrimStore
    \/ ScanRead \/ KeepNext \/ PurgeStore \/ EndRound

Stopped ==
    /\ torn \/ (round = NumRounds /\ gpc = "idle" /\ submitted = NumTransactions)
    /\ UNCHANGED vars

Next == (~torn /\ (GeneratorStep \/ MainStep \/ TornAccess)) \/ Stopped

Spec == Init /\ [][Next]_vars

-----------------------------------------------------------------------------
Transactions == 1 .. NumTransactions

Ascending(s) == \A j, k \in DOMAIN s : j < k => s[j] < s[k]

(* Stores that overwrite each other lose transactions and bring back       *)
(* others, but never disturb the order: each mempool, and each block, is   *)
(* in submission order, with no transaction in it twice.  This is why      *)
(* Blockchain may take a slice for the set of its elements.                *)
SubmissionOrder == \A x \in PoolName : Ascending(Pool[x]) /\ Ascending(txsToInclude)

(* The mempools whose append of p is over.                                 *)
Appends(p) ==
    IF p < submitted \/ (p = submitted /\ gpc = "idle") THEN PoolName
    ELSE IF p = submitted THEN {Target(k) : k \in 0 .. gTarget - 1} ELSE {}

LostCopies(p) == {x \in Appends(p) : p \notin Elements(Pool[x])}

(* A transaction no block has taken yet loses at most one of its copies to *)
(* each call of ProposeBlock: SubmitTransaction goes from bc.Mempool to    *)
(* the validators and ProposeBlock the other way, so they meet once.       *)
OneCopyPerProposal ==
    \A p \in Transactions \ taken : Cardinality(LostCopies(p)) <= proposals

-----------------------------------------------------------------------------
(* What a comment or the README says and the program does not do.  The     *)
(* README tells which run shows it, with which property in its .cfg.       *)

(* "SubmitTransaction adds a transaction to the mempool": once it has      *)
(* returned the transaction is there, or in a block.                       *)
SubmittedInMempool ==
    \A p \in Transactions :
        p < submitted \/ (p = submitted /\ gpc = "idle")
            => p \in taken \cup Elements(Pool[Global])

(* "GetTxFromMempool gets transactions from the mempool up to a certain    *)
(* limit": an append between the comparison and the result adds one more.  *)
BlockWithinLimit == Len(txsToInclude) <= BlockSize
=============================================================================
