----------------------------- MODULE Blockchain -----------------------------
(***************************************************************************)
(* The node: package blockchain with the block and validator packages it   *)
(* drives, and the loop of main.go that drives it.  Three kinds of         *)
(* goroutine interleave:                                                   *)
(*   - main, runSimulation: one round is propose, vote, add, process the   *)
(*     pending executions, rotate the leader (its position is pc);         *)
(*   - the generator, which submits transactions at any time; it and main  *)
(*     work on the mempools without a lock, so each access is a step;      *)
(*   - one goroutine per added block, `go bc.ExecuteBlock(b, true)`, which *)
(*     executes under ExecutionMutex and then stores its root.             *)
(* Transactions are shared by pointer: a pointer is the position of the    *)
(* transaction in `accepted`, the log of accepted submissions.  A slice of *)
(* pointers is always in submission order (MempoolRace), so it is the set  *)
(* of its positions.                                                       *)
(***************************************************************************)
EXTENDS Accounts, Sequences

CONSTANTS
    NumValidators, BlockSize, ExecutionDelay, \* config.Config
    QuorumNum, QuorumDen,     \* QuorumPercentage as a fraction, e.g. 67/100
    SpeculativeEnabled,
    ParallelRequested,        \* ParallelExecutionEnabled as the flags set it
    MinParallelBatchSize, SimulateCompute,
    NumTransactions,          \* submissions accepted at most: a bound
    NumRounds,                \* rounds of runSimulation, 10 in the code
    SnapshotHorizon,          \* age of a mempool snapshot, 10 in the code
    TxSet,                    \* what the generator may submit
    InitialAccounts,          \* the accounts once New and the generator made them
    SigningCanFail            \* whether ecdsa.SignASN1 may return an error

ASSUME ConfigAssumption ==
    /\ NumValidators \in Nat \ {0} /\ BlockSize \in Nat \ {0}
    /\ ExecutionDelay \in Nat /\ NumTransactions \in Nat /\ NumRounds \in Nat
    /\ QuorumNum \in Nat \ {0} /\ QuorumDen \in Nat \ {0}
    /\ MinParallelBatchSize \in Nat /\ SnapshotHorizon \in Nat
    /\ {SpeculativeEnabled, ParallelRequested, SimulateCompute, SigningCanFail}
           \subseteq BOOLEAN

ASSUME AccountsAssumption ==
    /\ TxSet \subseteq Transaction
    /\ InitialAccounts \in AccountMap
    /\ NoAccount \notin Account
    /\ GenesisRoot \notin AccountMap /\ NoRoot \notin AccountMap
    /\ NoRoot /= GenesisRoot

VARIABLES
    accepted,              \* every transaction SubmitTransaction accepted
    Mempool,               \* bc.Mempool
    ValidatorMempool,      \* Validators[v].Mempool
    gpc, gTarget, gSlice,  \* where SubmitTransaction is, its mempool, its copy
    mpc, mSlice,           \* where ProposeBlock is, the slice main works on
    txsToInclude,          \* local of ProposeBlock
    BlockVote,             \* Validators[v].BlockVote
    IsLeader,              \* Validators[v].IsLeader
    CurrentLeader,
    Blocks,                \* the block of height h is Blocks[h + 1]
    CurrentHeight, LastFinalizedHeight, LastExecutedHeight, LastVerifiedHeight,
    PendingExecutions,     \* heights waiting for ProcessPendingExecutions
    PendingStateRoots, SpeculativeStateRoot, MempoolSnapshots, \* keyed by height
    State,                 \* bc.State.Accounts
    pc, round,             \* where main is in runSimulation, or "crashed"
    newBlock,              \* main's local; the genesis block when out of scope
    pendingBlocks,         \* local of ProcessPendingExecutions
    specRoot,              \* local of ProcessPendingExecutions
    waiting,               \* goroutines that have not got ExecutionMutex yet
    executing              \* the one holding it, as a set; {} when it is free

genVars   == <<accepted, gpc, gTarget, gSlice>>
takeVars  == <<mpc, mSlice, txsToInclude>>
poolVars  == <<Mempool, ValidatorMempool, genVars, takeVars>>
leaderVars == <<IsLeader, CurrentLeader>>
chainVars == <<Blocks, CurrentHeight, LastFinalizedHeight, PendingExecutions>>
execVars  == <<LastExecutedHeight, PendingStateRoots, State>>
specVars  == <<SpeculativeStateRoot, waiting, executing>>
localVars == <<newBlock, pendingBlocks, specRoot>>

vars == <<poolVars, leaderVars, chainVars, execVars, specVars, localVars,
          BlockVote, LastVerifiedHeight, MempoolSnapshots, pc, round>>

(* What no access to a mempool touches.                                    *)
nodeVars == <<leaderVars, chainVars, execVars, specVars, pendingBlocks, specRoot,
              BlockVote, LastVerifiedHeight, MempoolSnapshots>>

-----------------------------------------------------------------------------
Validator == 0 .. NumValidators - 1
Position  == Nat \ {0}

Rank(S, p) == Cardinality({q \in S : q <= p})

(* The first k elements of a slice.                                        *)
Oldest(S, k) == {p \in S : Rank(S, p) <= k}

IDOf(p) == TxID(accepted[p])

TxsAt(S) == {accepted[p] : p \in S}

(* A list of transaction IDs, as the set of its <<index, ID>> pairs.       *)
IDList(S) == {<<Rank(S, p), IDOf(p)>> : p \in S}

(* Block.CalculateHash digests height, previous hash, proposer, delayed    *)
(* root and IDs.  A hash is modelled by what it digests, newest last: its  *)
(* length is the height, and <<>> is the literal "genesis".                *)
HashContent == [Proposer : Validator, DelayedRoot : Root,
                IDs : SUBSET (Nat \X (Addr \X Nat))]

Hash == Seq(HashContent)

CalculateHash(prev, proposer, root, S) ==
    Append(prev, [Proposer |-> proposer, DelayedRoot |-> root, IDs |-> IDList(S)])

BlockStatus == {"Proposed", "Voted", "Finalized", "Verified"}

Block == [Height : Nat, Hash : Hash, PreviousHash : Hash,
          Transactions : SUBSET Position, Proposer : Validator,
          StateRoot : Root, DelayedRoot : Root,
          Signatures : SUBSET Validator, Status : BlockStatus]

Genesis == [Height |-> 0, Hash |-> <<>>, PreviousHash |-> <<>>,
            Transactions |-> {}, Proposer |-> 0, StateRoot |-> GenesisRoot,
            DelayedRoot |-> GenesisRoot, Signatures |-> {}, Status |-> "Verified"]

BlockAt(h) == Blocks[h + 1]

(* Go maps keyed by height.                                                *)
Put(f, k, x) == [h \in DOMAIN f \cup {k} |-> IF h = k THEN x ELSE f[h]]
Keep(f, S)   == [h \in DOMAIN f \cap S |-> f[h]]

-----------------------------------------------------------------------------
Init ==
    /\ accepted = <<>> /\ Mempool = {}
    /\ ValidatorMempool = [v \in Validator |-> {}]
    /\ gpc = "idle" /\ gTarget = 0 /\ gSlice = {}
    /\ mpc = "check" /\ mSlice = {} /\ txsToInclude = {}
    /\ BlockVote = [v \in Validator |-> {}]
    /\ IsLeader = [v \in Validator |-> v = 0]
    /\ CurrentLeader = 0
    /\ Blocks = <<Genesis>> /\ CurrentHeight = 0
    /\ LastFinalizedHeight = -1 /\ LastExecutedHeight = -1
    /\ LastVerifiedHeight = -1
    /\ PendingExecutions = <<>>
    /\ PendingStateRoots = <<>> /\ SpeculativeStateRoot = <<>>
    /\ MempoolSnapshots = <<>>
    /\ State = InitialAccounts
    /\ pc = "propose" /\ round = 0
    /\ newBlock = Genesis /\ pendingBlocks = <<>> /\ specRoot = NoRoot
    /\ waiting = {} /\ executing = {}

-----------------------------------------------------------------------------
(* The Go runtime has not aborted the process.                             *)
Alive == pc /= "crashed"

(* The generator.                                                          *)

(* SubmitTransaction appends what it accepts to bc.Mempool, and then to    *)
(* each validator's mempool.  A rejected transaction changes nothing.      *)
SubmitTransaction(t) ==
    /\ Alive
    /\ gpc = "idle" /\ Len(accepted) < NumTransactions
    /\ ValidTransaction(State, t)
    /\ accepted' = Append(accepted, t)
    /\ gpc' = "read" /\ gTarget' = 0
    /\ UNCHANGED <<Mempool, ValidatorMempool, gSlice, takeVars, nodeVars, newBlock,
                   pc, round>>

(* An append reads the slice ...                                           *)
AppendRead ==
    /\ Alive
    /\ gpc = "read"
    /\ gSlice' = IF gTarget = 0 THEN Mempool ELSE ValidatorMempool[gTarget - 1]
    /\ gpc' = "store"
    /\ UNCHANGED <<Mempool, ValidatorMempool, accepted, gTarget, takeVars, nodeVars,
                   newBlock, pc, round>>

(* ... and stores the longer one, over whatever main stored in between.    *)
AppendStore ==
    /\ Alive
    /\ gpc = "store"
    /\ LET S == gSlice \cup {Len(accepted)}
       IN  IF gTarget = 0 THEN Mempool' = S /\ UNCHANGED ValidatorMempool
           ELSE /\ ValidatorMempool' = [ValidatorMempool EXCEPT ![gTarget - 1] = S]
                /\ UNCHANGED Mempool
    /\ gSlice' = {}
    /\ IF gTarget = NumValidators THEN gpc' = "idle" /\ gTarget' = 0
       ELSE gpc' = "read" /\ gTarget' = gTarget + 1
    /\ UNCHANGED <<accepted, takeVars, nodeVars, newBlock, pc, round>>

-----------------------------------------------------------------------------
(* main: proposing.                                                        *)

(* Mutant: the root of one block later.                                    *)
DelayedRootTooNew(H) ==
    IF H > ExecutionDelay THEN BlockAt(H - ExecutionDelay).StateRoot
    ELSE GenesisRoot

(* The first D blocks carry the genesis root, block H after that the root  *)
(* of block H - D - 1.                                                     *)
DelayedRootFor(H) ==
    IF H > ExecutionDelay THEN BlockAt(H - ExecutionDelay - 1).StateRoot
    ELSE GenesisRoot

NextProposal ==
    LET prev == BlockAt(CurrentHeight).Hash
        root == DelayedRootFor(CurrentHeight + 1)
    IN  [Height |-> CurrentHeight + 1,
         Hash |-> CalculateHash(prev, CurrentLeader, root, txsToInclude),
         PreviousHash |-> prev, Transactions |-> txsToInclude,
         Proposer |-> CurrentLeader, StateRoot |-> NoRoot, DelayedRoot |-> root,
         Signatures |-> {CurrentLeader}, Status |-> "Proposed"]

Running == pc = "propose" /\ round < NumRounds

LeaderMempool == ValidatorMempool[CurrentLeader]

(* A round without a block: `continue` skips the rotation too.             *)
SkipRound ==
    /\ pc' = "propose" /\ round' = round + 1
    /\ mpc' = "check" /\ txsToInclude' = {}
    /\ UNCHANGED <<Mempool, ValidatorMempool, genVars, mSlice, nodeVars, newBlock>>

ProposeNothing ==
    /\ Running /\ mpc = "check"
    /\ Mempool = {}
    /\ SkipRound

(* A step inside ProposeBlock.                                             *)
InProposal(at, next) ==
    /\ Running
    /\ mpc = at /\ mpc' = next
    /\ UNCHANGED <<Mempool, genVars, nodeVars, newBlock, pc, round>>

(* GetTxFromMempool compares the length of the leader's mempool with the   *)
(* limit ...                                                               *)
TakeLength ==
    /\ Mempool /= {}
    /\ InProposal("check", IF Cardinality(LeaderMempool) <= BlockSize
                           THEN "all" ELSE "some")
    /\ UNCHANGED <<ValidatorMempool, mSlice, txsToInclude>>

(* ... reads the mempool again for the result, all of it ...               *)
TakeAll ==
    /\ InProposal("all", "trim")
    /\ txsToInclude' = LeaderMempool /\ mSlice' = {}
    /\ UNCHANGED ValidatorMempool

(* ... or as much as the limit allows ...                                  *)
TakeSome ==
    /\ InProposal("some", "rest")
    /\ txsToInclude' = Oldest(LeaderMempool, BlockSize)
    /\ UNCHANGED <<ValidatorMempool, mSlice>>

(* ... reads it once more for the rest ...                                 *)
RestRead ==
    /\ InProposal("rest", "trim")
    /\ mSlice' = LeaderMempool \ Oldest(LeaderMempool, BlockSize)
    /\ UNCHANGED <<ValidatorMempool, txsToInclude>>

(* ... and stores what is left, over whatever was appended in between.     *)
TrimStore ==
    /\ InProposal("trim", "sign")
    /\ ValidatorMempool' = [ValidatorMempool EXCEPT ![CurrentLeader] = mSlice]
    /\ mSlice' = {}
    /\ UNCHANGED txsToInclude

(* Signing fails: the leader's mempool is trimmed, bc.Mempool is not.      *)
ProposalSigningFails ==
    /\ Running /\ mpc = "sign"
    /\ SigningCanFail
    /\ SkipRound

(* Signed; the purge ranges over bc.Mempool as it is now.                  *)
PurgeRead ==
    /\ InProposal("sign", "purge")
    /\ txsToInclude /= {}
    /\ mSlice' = Mempool
    /\ UNCHANGED <<ValidatorMempool, txsToInclude>>

(* What the purge keeps: it compares IDs, not pointers.                    *)
Unincluded(S) == {p \in S : \A q \in txsToInclude : IDOf(p) /= IDOf(q)}

(* The purge stores; an empty block purges nothing.                        *)
ProposeBlock ==
    /\ Running
    /\ \/ mpc = "purge" /\ Mempool' = Unincluded(mSlice)
       \/ mpc = "sign" /\ txsToInclude = {} /\ UNCHANGED Mempool
    /\ newBlock' = NextProposal
    /\ mpc' = "check" /\ mSlice' = {} /\ txsToInclude' = {}
    /\ pc' = "vote"
    /\ UNCHANGED <<ValidatorMempool, genVars, nodeVars, round>>

-----------------------------------------------------------------------------
(* main: voting.                                                           *)

(* validateBlockWithoutExecution.                                          *)
ValidBlock(b) ==
    /\ b.Height = CurrentHeight + 1
    /\ b.PreviousHash = BlockAt(CurrentHeight).Hash
    /\ b.Proposer \in Validator
    /\ b.Height > ExecutionDelay => b.DelayedRoot = DelayedRootFor(b.Height)
    /\ b.Proposer \in b.Signatures
    /\ \A p \in b.Transactions : ValidTransaction(State, accepted[p])

Quorum(votes) == votes * QuorumDen >= QuorumNum * NumValidators

(* Validators vote in index order and the loop returns at the vote that    *)
(* makes the quorum: v signs unless enough did before it.  `able` holds    *)
(* those that would sign; the proposer's own signature is the first vote,  *)
(* but the quorum is only tested after somebody else's.                    *)
Voters(able) == {v \in able : \A w \in able : w < v => ~Quorum(1 + Rank(able, w))}

(* Mutant: the proposer is counted twice.                                  *)
ProposerCountedTwice(able) == Quorum(2 + Cardinality(able))

(* Mutant: the proposer is not counted.                                    *)
ProposerNotCounted(able) == \E v \in able : Quorum(Rank(able, v))

QuorumReached(able) == \E v \in able : Quorum(1 + Rank(able, v))

VoteOnBlock ==
    /\ pc = "vote"
    /\ \E failing \in SUBSET (Validator \ {newBlock.Proposer}) :
        LET able == IF ValidBlock(newBlock)
                    THEN (Validator \ {newBlock.Proposer}) \ failing ELSE {}
            reached == QuorumReached(able)
        IN  /\ SigningCanFail \/ failing = {}
            /\ newBlock' = [newBlock EXCEPT
                   !.Signatures = @ \cup Voters(able),
                   !.Status = IF reached THEN "Voted" ELSE @]
            /\ BlockVote' = [v \in Validator |->
                   IF v \in Voters(able) THEN BlockVote[v] \cup {newBlock.Hash}
                   ELSE BlockVote[v]]
            /\ pc' = IF reached THEN "add" ELSE "rotate"
    /\ UNCHANGED <<poolVars, leaderVars, chainVars, execVars, specVars,
                   pendingBlocks, specRoot, LastVerifiedHeight, MempoolSnapshots, round>>

-----------------------------------------------------------------------------
(* main: AddBlock, with FinalizeBlock of the block before.                 *)

(* Mutant: a snapshot goes when its age reaches the horizon.               *)
SnapshotsTooFew(h) ==
    LET added == Put(MempoolSnapshots, h, Mempool)
    IN  Keep(added, {k \in DOMAIN added : k > h - SnapshotHorizon})

(* takeMempoolSnapshot, after the purge of the block's own transactions.   *)
SnapshotsAfter(h) ==
    LET added == Put(MempoolSnapshots, h, Mempool)
    IN  Keep(added, {k \in DOMAIN added : k >= h - SnapshotHorizon})

(* The block the goroutine executes: the predicted next one when bc.Mempool *)
(* can fill it (predictNextBlock), else the one just added.                *)
SpeculationTarget(b) ==
    IF Cardinality(Mempool) >= BlockSize
    THEN [by |-> b.Height, Height |-> b.Height + 1,
          Transactions |-> Oldest(Mempool, BlockSize)]
    ELSE [by |-> b.Height, Height |-> b.Height, Transactions |-> b.Transactions]

(* Mutant: the tip is finalized, not the block below it.                   *)
FinalizedTip(h, blocks) ==
    IF h > 0 THEN [blocks EXCEPT ![h + 2].Status = "Finalized"] ELSE blocks

FinalizedPrefix(h, blocks) ==
    IF h > 0 THEN [blocks EXCEPT ![h + 1].Status = "Finalized"] ELSE blocks

SpeculateOn(b) ==
    IF SpeculativeEnabled
    THEN /\ MempoolSnapshots' = SnapshotsAfter(b.Height)
         /\ waiting' = waiting \cup {SpeculationTarget(b)}
    ELSE UNCHANGED <<MempoolSnapshots, waiting>>

AddBlock ==
    /\ pc = "add"
    /\ LET h == newBlock.Height - 1    \* the block the new one finalizes
       IN  /\ Blocks' = FinalizedPrefix(h, Append(Blocks, newBlock))
           /\ CurrentHeight' = CurrentHeight + 1
           /\ LastFinalizedHeight' = IF h > 0 THEN h ELSE LastFinalizedHeight
           /\ PendingExecutions' = IF h > 0 THEN Append(PendingExecutions, h)
                                   ELSE PendingExecutions
    /\ SpeculateOn(newBlock)
    /\ newBlock' = Genesis
    /\ pc' = "process"
    /\ UNCHANGED <<poolVars, leaderVars, execVars, SpeculativeStateRoot, executing,
                   pendingBlocks, specRoot, BlockVote, LastVerifiedHeight, round>>

-----------------------------------------------------------------------------
(* ExecuteBlock, for main and the speculative goroutines alike.            *)

(* runSimulation keeps parallel execution off for the first half.          *)
ParallelExecutionEnabled == ParallelRequested /\ round >= NumRounds \div 2

UseParallel(S) ==
    /\ ParallelExecutionEnabled
    /\ Cardinality(S) >= MinParallelBatchSize \/ SimulateCompute

(* The accounts whose root ExecuteBlock returns.                           *)
Executed(S) ==
    IF UseParallel(S)
    THEN BatchResult(State, TxsAt(S), Cardinality(S), MinParallelBatchSize)
    ELSE SequentialResult(State, TxsAt(S))

(* The accounts it leaves in bc.State: the executor stores through its     *)
(* pointer to bc.State whether or not the run is speculative.              *)
Committed(S, isSpeculative) ==
    IF UseParallel(S) \/ ~isSpeculative THEN Executed(S) ELSE State

MutexFree == executing = {}

(* A goroutine takes ExecutionMutex and executes ...                       *)
SpeculativeExecute(g) ==
    /\ Alive
    /\ MutexFree
    /\ waiting' = waiting \ {g}
    /\ executing' = {[Height |-> g.Height, Root |-> RootOf(Executed(g.Transactions))]}
    /\ State' = Committed(g.Transactions, TRUE)
    /\ UNCHANGED <<poolVars, leaderVars, chainVars, LastExecutedHeight,
                   PendingStateRoots, SpeculativeStateRoot, localVars, BlockVote,
                   LastVerifiedHeight, MempoolSnapshots, pc, round>>

(* Mutant: the mutex stays locked.                                         *)
StoreAndKeepMutex(e) ==
    /\ Alive
    /\ SpeculativeStateRoot' = Put(SpeculativeStateRoot, e.Height, e.Root)
    /\ UNCHANGED <<poolVars, leaderVars, chainVars, execVars, waiting, executing,
                   localVars, BlockVote, LastVerifiedHeight, MempoolSnapshots, pc, round>>

(* ... then stores its root and releases the mutex.                        *)
StoreSpeculation(e) ==
    /\ Alive
    /\ SpeculativeStateRoot' = Put(SpeculativeStateRoot, e.Height, e.Root)
    /\ executing' = executing \ {e}
    /\ UNCHANGED <<poolVars, leaderVars, chainVars, execVars, waiting, localVars,
                   BlockVote, LastVerifiedHeight, MempoolSnapshots, pc, round>>

(* main uses the map without the mutex.  When the goroutine is inside its  *)
(* assignment the Go runtime may detect it and abort the process.          *)
ConcurrentMapAbort ==
    /\ pc \in {"check", "use"}
    /\ executing /= {}
    /\ pc' = "crashed"
    /\ UNCHANGED <<poolVars, leaderVars, chainVars, execVars, specVars, localVars,
                   BlockVote, LastVerifiedHeight, MempoolSnapshots, round>>

-----------------------------------------------------------------------------
(* main: ProcessPendingExecutions.                                         *)

(* It takes the whole queue, or returns when there is none.                *)
ProcessPendingExecutions ==
    /\ pc = "process"
    /\ pendingBlocks' = PendingExecutions
    /\ PendingExecutions' = <<>>
    /\ pc' = IF PendingExecutions = <<>> THEN "rotate" ELSE "check"
    /\ UNCHANGED <<poolVars, leaderVars, Blocks, CurrentHeight, LastFinalizedHeight,
                   execVars, specVars, newBlock, specRoot, BlockVote,
                   LastVerifiedHeight, MempoolSnapshots, round>>

Pending == Head(pendingBlocks)

(* validateSpeculativeResults: as many transactions as the snapshot holds, *)
(* and every ID among its IDs.                                             *)
SpeculationValid(h) ==
    /\ h \in DOMAIN MempoolSnapshots
    /\ LET txs == BlockAt(h).Transactions
           snapshot == MempoolSnapshots[h]
       IN  /\ Cardinality(txs) = Cardinality(snapshot)
           /\ {IDOf(p) : p \in txs} \subseteq {IDOf(p) : p \in snapshot}

Usable(h) ==
    /\ h \in DOMAIN SpeculativeStateRoot
    /\ SpeculativeEnabled
    /\ SpeculationValid(h)

CheckSpeculation ==
    /\ pc = "check"
    /\ IF Usable(Pending)
       THEN pc' = "use" /\ specRoot' = SpeculativeStateRoot[Pending]
       ELSE pc' = "execute" /\ UNCHANGED specRoot
    /\ UNCHANGED <<poolVars, leaderVars, chainVars, execVars, specVars, newBlock,
                   pendingBlocks, BlockVote, LastVerifiedHeight, MempoolSnapshots, round>>

(* Mutant: the height of the tip is recorded as executed.                  *)
RecordTip(h, root) ==
    /\ Blocks' = [Blocks EXCEPT ![h + 1].StateRoot = root]
    /\ PendingStateRoots' = Put(PendingStateRoots, h, root)
    /\ LastExecutedHeight' = CurrentHeight

(* What both ways of executing a finalized block record about it.          *)
RecordExecution(h, root) ==
    /\ Blocks' = [Blocks EXCEPT ![h + 1].StateRoot = root]
    /\ PendingStateRoots' = Put(PendingStateRoots, h, root)
    /\ LastExecutedHeight' = h

UseSpeculation ==
    /\ pc = "use"
    /\ RecordExecution(Pending, specRoot)
    /\ SpeculativeStateRoot' =
           Keep(SpeculativeStateRoot, DOMAIN SpeculativeStateRoot \ {Pending})
    /\ specRoot' = NoRoot
    /\ pc' = "verify"
    /\ UNCHANGED <<poolVars, leaderVars, CurrentHeight, LastFinalizedHeight,
                   PendingExecutions, State, waiting, executing, newBlock,
                   pendingBlocks, BlockVote, LastVerifiedHeight, MempoolSnapshots, round>>

(* ExecuteBlock(block, false), all of it under ExecutionMutex.             *)
ExecuteFinalized ==
    /\ pc = "execute"
    /\ MutexFree
    /\ LET txs == BlockAt(Pending).Transactions
       IN  /\ RecordExecution(Pending, RootOf(Executed(txs)))
           /\ State' = Committed(txs, FALSE)
    /\ pc' = "verify"
    /\ UNCHANGED <<poolVars, leaderVars, CurrentHeight, LastFinalizedHeight,
                   PendingExecutions, specVars, localVars, BlockVote,
                   LastVerifiedHeight, MempoolSnapshots, round>>

(* VerifyBlock, for a block at least D below the tip.                      *)
Verifiable(h) == h + ExecutionDelay <= CurrentHeight

(* Mutant: the block gets the root of the accounts of the moment.          *)
VerifiedFromState(h) ==
    /\ LastVerifiedHeight' = h
    /\ Blocks' = [Blocks EXCEPT ![h + 1].Status = "Verified",
                                ![h + 1].StateRoot = RootOf(State)]
    /\ PendingStateRoots' = Keep(PendingStateRoots, DOMAIN PendingStateRoots \ {h})

Verified(h) ==
    /\ LastVerifiedHeight' = h
    /\ Blocks' = [Blocks EXCEPT
           ![h + 1].Status = "Verified",
           ![h + 1].StateRoot =
               IF h \in DOMAIN PendingStateRoots THEN PendingStateRoots[h] ELSE @]
    /\ PendingStateRoots' = Keep(PendingStateRoots, DOMAIN PendingStateRoots \ {h})

VerifyBlock ==
    /\ pc = "verify"
    /\ IF Verifiable(Pending) THEN Verified(Pending)
       ELSE UNCHANGED <<LastVerifiedHeight, Blocks, PendingStateRoots>>
    /\ pendingBlocks' = Tail(pendingBlocks)
    /\ pc' = IF Tail(pendingBlocks) = <<>> THEN "rotate" ELSE "check"
    /\ UNCHANGED <<poolVars, leaderVars, CurrentHeight, LastFinalizedHeight,
                   PendingExecutions, LastExecutedHeight, State, specVars, newBlock,
                   specRoot, BlockVote, MempoolSnapshots, round>>

(* CheckConsistency: VerifyBlock's caller prints a complaint when FALSE.   *)
CheckConsistency(h) ==
    \/ h <= ExecutionDelay \/ h >= Len(Blocks)
    \/ BlockAt(h).StateRoot = BlockAt(h + ExecutionDelay).DelayedRoot

-----------------------------------------------------------------------------
(* main: the end of a round.                                               *)

(* Mutant: no wrap-around.                                                 *)
LeaderPlusOne == CurrentLeader + 1

NextLeader == (CurrentLeader + 1) % NumValidators

RotateLeader ==
    /\ pc = "rotate"
    /\ CurrentLeader' = NextLeader
    /\ IsLeader' = [[IsLeader EXCEPT ![CurrentLeader] = FALSE]
                        EXCEPT ![NextLeader] = TRUE]
    /\ newBlock' = Genesis
    /\ pc' = "propose" /\ round' = round + 1
    /\ UNCHANGED <<poolVars, chainVars, execVars, specVars, pendingBlocks, specRoot,
                   BlockVote, LastVerifiedHeight, MempoolSnapshots>>

-----------------------------------------------------------------------------
(* PrintExecutionStats, the report main prints at the end: by status, and  *)
(* by height.  The genesis block counts.                                   *)
CountedAs(S) == {i \in 1 .. Len(Blocks) : Blocks[i].Status \in S}

TotalBlocks     == CurrentHeight + 1
FinalizedBlocks == Cardinality(CountedAs({"Finalized", "Verified"}))
VerifiedBlocks  == Cardinality(CountedAs({"Verified"}))
ExecutionLag    == TotalBlocks - LastExecutedHeight - 1
VerificationLag == TotalBlocks - LastVerifiedHeight - 1

-----------------------------------------------------------------------------
GeneratorStep ==
    \/ \E t \in TxSet : SubmitTransaction(t)
    \/ AppendRead \/ AppendStore

MainStep ==
    \/ ProposeNothing \/ TakeLength \/ TakeAll \/ TakeSome \/ RestRead \/ TrimStore
    \/ ProposalSigningFails \/ PurgeRead \/ ProposeBlock
    \/ VoteOnBlock \/ AddBlock
    \/ ProcessPendingExecutions \/ CheckSpeculation \/ UseSpeculation
    \/ ExecuteFinalized \/ VerifyBlock \/ RotateLeader

SpeculatorStep ==
    \/ \E g \in waiting : SpeculativeExecute(g)
    \/ \E e \in executing : StoreSpeculation(e)

Finished == pc = "propose" /\ round = NumRounds

(* After the last round main reports and exits; an aborted process is gone. *)
Stopped == (~Alive \/ Finished) /\ UNCHANGED vars

Next ==
    \/ GeneratorStep
    \/ MainStep
    \/ SpeculatorStep
    \/ ConcurrentMapAbort
    \/ Stopped

Spec == Init /\ [][Next]_vars

(* main and the goroutines are scheduled; nobody has to submit anything.   *)
Fairness == WF_vars(MainStep) /\ WF_vars(SpeculatorStep)

FairSpec == Spec /\ Fairness
=============================================================================
