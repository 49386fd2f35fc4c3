------------------------ MODULE BlockchainProperties ------------------------
(***************************************************************************)
(* What is claimed of the node: invariants, action properties, liveness,   *)
(* and the refinement of FinalityPipeline.                                 *)
(***************************************************************************)
EXTENDS Blockchain

Height == Nat

RootMap(f) == /\ DOMAIN f \subseteq Height
              /\ \A h \in DOMAIN f : f[h] \in AccountMap
              /\ f = [h \in DOMAIN f |-> f[h]]

Task == [by : Height, Height : Height, Transactions : SUBSET Position]

(* Type correctness of everything blockchain.New sets up and the loop of   *)
(* main.go keeps.                                                          *)
TypeOK ==
    /\ accepted \in Seq(TxSet)
    /\ Mempool \subseteq 1 .. Len(accepted)
    /\ ValidatorMempool \in [Validator -> SUBSET (1 .. Len(accepted))]
    /\ gpc \in {"idle", "read", "store"} /\ gTarget \in 0 .. NumValidators
    /\ gSlice \subseteq 1 .. Len(accepted) /\ (gpc /= "idle" => accepted /= <<>>)
    /\ mpc \in {"check", "all", "some", "rest", "trim", "sign", "purge"}
    /\ mSlice \subseteq 1 .. Len(accepted) /\ txsToInclude \subseteq 1 .. Len(accepted)
    /\ BlockVote \in [Validator -> SUBSET Hash]
    /\ IsLeader \in [Validator -> BOOLEAN] /\ CurrentLeader \in Validator
    /\ Blocks \in Seq(Block) /\ CurrentHeight \in Height
    /\ {LastFinalizedHeight, LastExecutedHeight, LastVerifiedHeight}
           \subseteq Height \cup {-1}
    /\ PendingExecutions \in Seq(Height) /\ pendingBlocks \in Seq(Height)
    /\ RootMap(PendingStateRoots) /\ RootMap(SpeculativeStateRoot)
    /\ DOMAIN MempoolSnapshots \subseteq Height
    /\ State \in AccountMap
    /\ pc \in {"propose", "vote", "add", "process", "check", "use", "execute",
               "verify", "rotate", "crashed"}
    /\ round \in 0 .. NumRounds
    /\ newBlock \in Block /\ specRoot \in AccountMap \cup {NoRoot}
    /\ waiting \subseteq Task
    /\ executing \subseteq [Height : Height, Root : AccountMap]

-----------------------------------------------------------------------------
(* Safety.                                                                 *)

Above == 1 .. CurrentHeight   \* the heights above genesis

(* VoteOnBlock and AddBlock: every block on the chain extends the one      *)
(* below it and carries its proposer's signature and those of a quorum of  *)
(* distinct validators.                                                    *)
CertifiedChain ==
    /\ Len(Blocks) = CurrentHeight + 1
    /\ \A h \in Above :
        LET b == BlockAt(h)
        IN  /\ b.Height = h
            /\ b.PreviousHash = BlockAt(h - 1).Hash
            /\ b.Proposer \in b.Signatures
            /\ Quorum(Cardinality(b.Signatures))

(* FinalizeBlock, ExecuteBlock and VerifyBlock follow the chain in that    *)
(* order, whatever the speculative goroutines do: the tip is never final,  *)
(* everything below it is, and a block has a state root exactly when it    *)
(* has been executed.                                                      *)
ExecutionFollowsFinality ==
    /\ LastVerifiedHeight <= LastExecutedHeight
    /\ LastExecutedHeight <= LastFinalizedHeight
    /\ LastFinalizedHeight < CurrentHeight \/ CurrentHeight = 0
    /\ \A h \in Above :
        /\ BlockAt(h).Status \in {"Finalized", "Verified"} <=> h < CurrentHeight
        /\ BlockAt(h).StateRoot = NoRoot <=> h > LastExecutedHeight

(* ProposeBlock copies a root out of an earlier block while roots are      *)
(* still being filled in.  With D >= 1 what block h carries is, and stays, *)
(* the state root of block h - D - 1.                                      *)
DelayedRootStable ==
    ExecutionDelay >= 1 =>
        \A h \in Above : BlockAt(h).DelayedRoot =
            IF h > ExecutionDelay THEN BlockAt(h - ExecutionDelay - 1).StateRoot
            ELSE GenesisRoot

Included == UNION {BlockAt(h).Transactions : h \in Above}

(* A transaction on the chain is on it once.                               *)
NoTransactionIncludedTwice ==
    \A h, k \in Above :
        h /= k => BlockAt(h).Transactions \cap BlockAt(k).Transactions = {}

(* The accounts a transaction of the block is about, in every spelling.    *)
NamesOf(S) ==
    {n \in AccountName : \E t \in TxsAt(S) : n.addr \in {t.Sender, t.Recipient}}

AccountsBefore(h) == IF h = 1 THEN InitialAccounts ELSE BlockAt(h - 1).StateRoot

(* ExecuteBlock: the state root of a block differs from that of the block  *)
(* before only in accounts its own transactions are about.                 *)
OwnEffectsOnly ==
    \A h \in 1 .. LastExecutedHeight : \A n \in AccountName :
        BlockAt(h).StateRoot[n] /= AccountsBefore(h)[n]
            => n \in NamesOf(BlockAt(h).Transactions)

(* A speculative root about to be used is the root executing the block now *)
(* would give ("validates that speculative execution results are correct").*)
UsedSpeculationCorrect ==
    pc = "use" => specRoot = RootOf(Executed(BlockAt(Pending).Transactions))

(* takeMempoolSnapshot cleans up by age: it never drops the snapshot that  *)
(* validating the speculation of a block still to be executed will need.   *)
SnapshotsSuffice ==
    SpeculativeEnabled /\ SnapshotHorizon >= 1 =>
        \A h \in Above : h > LastExecutedHeight => h \in DOMAIN MempoolSnapshots

(* A block in hand that a majority large enough to be a quorum has signed  *)
(* has been voted ("when enough signatures are collected (quorum), the     *)
(* block is voted").                                                       *)
SignedMeansVoted ==
    pc = "rotate" /\ newBlock /= Genesis /\ newBlock.Status = "Proposed"
        => ~Quorum(Cardinality(newBlock.Signatures))

(* What PrintExecutionStats counts by status between two rounds agrees     *)
(* with what it derives from the heights that ExecuteBlock and VerifyBlock *)
(* keep: the tip alone is not final and not executed, and what is not      *)
(* verified is exactly the verification lag.                               *)
ReportAddsUp ==
    pc = "propose" /\ LastExecutedHeight >= 1 =>
        /\ ExecutionLag = 1 /\ FinalizedBlocks = TotalBlocks - ExecutionLag
        /\ LastVerifiedHeight >= 1 => VerifiedBlocks = TotalBlocks - VerificationLag
        /\ LastVerifiedHeight < 1 => VerifiedBlocks = 1

-----------------------------------------------------------------------------
(* Action properties.                                                      *)

(* Once ExecuteBlock or the use of a speculative root has published the    *)
(* state root of a block, no later step changes it, and nothing that a     *)
(* signature covers changes once the block is on the chain.                *)
PublishedRootsKept ==
    [][\A i \in 1 .. Len(Blocks) :
        /\ Blocks[i].StateRoot /= NoRoot => Blocks'[i].StateRoot = Blocks[i].StateRoot
        /\ Blocks'[i].Hash = Blocks[i].Hash]_vars

-----------------------------------------------------------------------------
(* Liveness, under FairSpec.                                               *)

(* Every finalized block is executed, unless the runtime aborts.           *)
ExecutedEventually ==
    \A h \in 1 .. NumRounds :
        LastFinalizedHeight >= h ~> (LastExecutedHeight >= h \/ ~Alive)

-----------------------------------------------------------------------------
(* Refinement.                                                             *)

ExecutedCount == IF LastExecutedHeight < 0 THEN 0 ELSE LastExecutedHeight

Abstract == INSTANCE FinalityPipeline WITH
    Entry <- Hash, Result <- AccountMap,
    log <- [h \in 1 .. CurrentHeight |-> BlockAt(h).Hash],
    finalized <- IF LastFinalizedHeight < 0 THEN 0 ELSE LastFinalizedHeight,
    results <- [h \in 1 .. ExecutedCount |-> BlockAt(h).StateRoot]

(* The node, speculation and all, implements the abstract pipeline.        *)
Pipeline == Abstract!PipelineSpec

-----------------------------------------------------------------------------
(* What a comment or the README says and the program does not do.  The     *)
(* README tells which run shows it, with which property in its .cfg.       *)

(* The purge in ProposeBlock will "remove the included transactions from    *)
(* the mempool": when nothing was appended since it read the mempool, it   *)
(* removes no other.                                                       *)
IncludedRemoved ==
    [][mSlice = Mempool => Mempool \ Mempool' \subseteq newBlock'.Transactions]_vars

(* After a vote without quorum "Leader Selects Transactions" again: nobody *)
(* has an idle round while the leader could still select something that is *)
(* not on the chain.                                                       *)
IdleOnlyWhenNothingLeft ==
    Running /\ mpc = "check" /\ Mempool = {} =>
        Oldest(LeaderMempool, BlockSize) \subseteq Included

(* CheckConsistency never has anything to complain about.                  *)
ConsistencyHolds == \A h \in 1 .. LastVerifiedHeight : CheckConsistency(h)

(* "D blocks later, the state root is verified": a block with D blocks on  *)
(* top of it gets verified.                                                *)
VerifiedEventually ==
    \A h \in 1 .. NumRounds :
        CurrentHeight >= h + ExecutionDelay ~> (LastVerifiedHeight >= h \/ ~Alive)
=============================================================================
