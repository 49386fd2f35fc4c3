-------------------------- MODULE BlockchainProofs --------------------------
(***************************************************************************)
(* Proofs about Blockchain, for every number of validators, block size,    *)
(* delay, quorum, workload and number of rounds.  First types and the      *)
(* finality pipeline, with the properties that follow from it; then the    *)
(* chain: what a block keeps once it is on it, that every block is         *)
(* certified, which root it carries; then what signing a block means, what *)
(* speculation needs, what holds without it, and what the report of the    *)
(* run adds up to.  None of it depends on what the mempools hold: they are *)
(* read and stored without a lock, and MempoolRaceProofs says what is left *)
(* of them.                                                                *)
(***************************************************************************)
EXTENDS BlockchainInvariant, WellFoundedInduction, FiniteSetTheorems, SequenceTheorems, TLAPS

-----------------------------------------------------------------------------
(* Operators.                                                              *)

LEMMA RankType ==
    ASSUME NEW n \in Nat, NEW S \in SUBSET (1 .. n), NEW p
    PROVE  Rank(S, p) \in Nat
<1>1. IsFiniteSet(1 .. n)
  BY FS_Interval
<1>2. IsFiniteSet({q \in S : q <= p})
  BY <1>1, FS_Subset
<1> QED BY <1>2, FS_CardinalityType DEF Rank

LEMMA OldestIsPart == \A S, k : Oldest(S, k) \subseteq S
BY DEF Oldest

LEMMA IDListType ==
    ASSUME AccountsAssumption, accepted \in Seq(TxSet),
           NEW S \in SUBSET (1 .. Len(accepted))
    PROVE  IDList(S) \in SUBSET (Nat \X (Addr \X Nat))
<1> SUFFICES ASSUME NEW p \in S
             PROVE  <<Rank(S, p), IDOf(p)>> \in Nat \X (Addr \X Nat)
  BY DEF IDList
<1>1. Len(accepted) \in Nat
  BY LenProperties
<1>2. Rank(S, p) \in Nat
  BY <1>1, RankType
<1>3. accepted[p] \in Transaction
  BY ElementOfSeq DEF AccountsAssumption
<1>4. IDOf(p) \in Addr \X Nat
  BY <1>3 DEF IDOf, TxID, Transaction
<1> QED BY <1>2, <1>4

LEMMA ExecutedType ==
    ASSUME State \in AccountMap, NEW S, NEW isSpec
    PROVE  /\ Executed(S) \in AccountMap
           /\ RootOf(Executed(S)) \in AccountMap
           /\ Committed(S, isSpec) \in AccountMap
<1>1. \A txs, n, m : BatchResult(State, txs, n, m) \in AccountMap
  BY DEF BatchResult, AccountMap, ZeroAccount, Account
<1>2. Executed(S) \in AccountMap
  BY <1>1 DEF Executed, SequentialResult
<1> QED BY <1>2 DEF Committed, RootOf

LEMMA PutType ==
    ASSUME NEW f, RootMap(f), NEW k \in Height, NEW x \in AccountMap
    PROVE  /\ RootMap(Put(f, k, x))
           /\ DOMAIN Put(f, k, x) = DOMAIN f \cup {k}
           /\ Put(f, k, x)[k] = x
           /\ \A h \in DOMAIN f : h /= k => Put(f, k, x)[h] = f[h]
BY DEF Put, RootMap

LEMMA KeepType ==
    ASSUME NEW f, RootMap(f), NEW S
    PROVE  /\ RootMap(Keep(f, S))
           /\ DOMAIN Keep(f, S) = DOMAIN f \cap S
           /\ \A h \in DOMAIN f \cap S : Keep(f, S)[h] = f[h]
BY DEF Keep, RootMap

LEMMA GenesisType == ConfigAssumption /\ AccountsAssumption => Genesis \in Block
<1> SUFFICES ASSUME ConfigAssumption, AccountsAssumption PROVE Genesis \in Block
  OBVIOUS
<1>1. 0 \in Validator
  BY DEF ConfigAssumption, Validator
<1>2. GenesisRoot \in Root /\ <<>> \in Hash
  BY DEF Root, Hash
<1> QED BY <1>1, <1>2 DEF Genesis, Block, BlockStatus

(* What setting one block's fields does to the chain.                      *)
WithStatus(bs, i, s) == [bs EXCEPT ![i].Status = s]

LEMMA SetStatus ==
    ASSUME NEW bs \in Seq(Block), NEW i \in 1 .. Len(bs), NEW s \in BlockStatus
    PROVE  LET cs == WithStatus(bs, i, s)
           IN  /\ cs \in Seq(Block) /\ Len(cs) = Len(bs)
               /\ cs[i] = [bs[i] EXCEPT !.Status = s] /\ cs[i] \in Block
               /\ \A j \in 1 .. Len(bs) : j /= i => cs[j] = bs[j]
<1> DEFINE c == [bs[i] EXCEPT !.Status = s]
           cs == [bs EXCEPT ![i] = c]
<1>1. bs[i] \in Block
  BY ElementOfSeq
<1>2. c \in Block
  BY <1>1 DEF Block
<1>3. cs \in Seq(Block) /\ Len(cs) = Len(bs)
  BY <1>2, ExceptSeq
<1>4. cs[i] = c /\ \A j \in 1 .. Len(bs) : j /= i => cs[j] = bs[j]
  BY <1>2, ExceptSeq
<1>5. cs = WithStatus(bs, i, s)
  BY DEF WithStatus
<1> QED BY <1>2, <1>3, <1>4, <1>5

WithRoot(bs, i, r) == [bs EXCEPT ![i].StateRoot = r]

LEMMA SetRoot ==
    ASSUME NEW bs \in Seq(Block), NEW i \in 1 .. Len(bs), NEW r \in Root
    PROVE  LET cs == WithRoot(bs, i, r)
           IN  /\ cs \in Seq(Block) /\ Len(cs) = Len(bs)
               /\ cs[i] = [bs[i] EXCEPT !.StateRoot = r] /\ cs[i] \in Block
               /\ \A j \in 1 .. Len(bs) : j /= i => cs[j] = bs[j]
<1> DEFINE c == [bs[i] EXCEPT !.StateRoot = r]
           cs == [bs EXCEPT ![i] = c]
<1>1. bs[i] \in Block
  BY ElementOfSeq
<1>2. c \in Block
  BY <1>1 DEF Block
<1>3. cs \in Seq(Block) /\ Len(cs) = Len(bs)
  BY <1>2, ExceptSeq
<1>4. cs[i] = c /\ \A j \in 1 .. Len(bs) : j /= i => cs[j] = bs[j]
  BY <1>2, ExceptSeq
<1>5. cs = WithRoot(bs, i, r)
  BY DEF WithRoot
<1> QED BY <1>2, <1>3, <1>4, <1>5

-----------------------------------------------------------------------------
(* The chain as a sequence.                                                *)

LEMMA BlockAtType ==
    ASSUME TypeOK, QueueInv, NEW h \in 0 .. CurrentHeight
    PROVE  BlockAt(h) \in Block
<1>1. h + 1 \in 1 .. Len(Blocks)
  BY DEF TypeOK, QueueInv, Height
<1> QED BY <1>1, ElementOfSeq DEF TypeOK, BlockAt

LEMMA DelayedRootType ==
    ASSUME ConfigAssumption, AccountsAssumption, TypeOK, QueueInv
    PROVE  DelayedRootFor(CurrentHeight + 1) \in Root
<1>1. CASE CurrentHeight + 1 > ExecutionDelay
  <2>1. (CurrentHeight + 1) - ExecutionDelay - 1 \in 0 .. CurrentHeight
    BY <1>1 DEF ConfigAssumption, TypeOK, Height
  <2>2. BlockAt((CurrentHeight + 1) - ExecutionDelay - 1) \in Block
    BY <2>1, BlockAtType
  <2>3. BlockAt((CurrentHeight + 1) - ExecutionDelay - 1).StateRoot \in Root
    BY <2>2 DEF Block
  <2>4. DelayedRootFor(CurrentHeight + 1) =
            BlockAt((CurrentHeight + 1) - ExecutionDelay - 1).StateRoot
    BY <1>1 DEF DelayedRootFor
  <2> QED BY <2>3, <2>4
<1>2. CASE ~(CurrentHeight + 1 > ExecutionDelay)
  BY <1>2 DEF DelayedRootFor, Root
<1> QED BY <1>1, <1>2

LEMMA ProposalType ==
    ASSUME ConfigAssumption, AccountsAssumption, TypeOK, QueueInv
    PROVE  /\ NextProposal \in Block
           /\ NextProposal.Height = CurrentHeight + 1
           /\ NextProposal.PreviousHash = BlockAt(CurrentHeight).Hash
           /\ NextProposal.Proposer = CurrentLeader
           /\ NextProposal.Signatures = {CurrentLeader}
           /\ NextProposal.StateRoot = NoRoot
           /\ NextProposal.Status = "Proposed"
<1> DEFINE prev == BlockAt(CurrentHeight).Hash
           root == DelayedRootFor(CurrentHeight + 1)
           hash == CalculateHash(prev, CurrentLeader, root, txsToInclude)
<1>1. CurrentHeight \in Nat /\ CurrentLeader \in Validator
  BY DEF TypeOK, Height
<1>2. BlockAt(CurrentHeight) \in Block
  BY <1>1, BlockAtType
<1>3. prev \in Hash
  BY <1>2 DEF Block
<1>4. root \in Root
  BY DelayedRootType
<1>5. txsToInclude \in SUBSET (1 .. Len(accepted))
  BY DEF TypeOK
<1>6. IDList(txsToInclude) \in SUBSET (Nat \X (Addr \X Nat))
  BY <1>5, IDListType DEF TypeOK
<1>7. [Proposer |-> CurrentLeader, DelayedRoot |-> root, IDs |-> IDList(txsToInclude)]
          \in HashContent
  BY <1>1, <1>4, <1>6 DEF HashContent
<1>8. hash \in Hash
  BY <1>3, <1>7, AppendProperties DEF CalculateHash, Hash
<1>9. txsToInclude \subseteq Position
  BY <1>5 DEF Position
<1>10. NoRoot \in Root /\ "Proposed" \in BlockStatus
  BY DEF Root, BlockStatus
<1> HIDE DEF prev, root, hash
<1>11. NextProposal = [Height |-> CurrentHeight + 1, Hash |-> hash,
         PreviousHash |-> prev, Transactions |-> txsToInclude,
         Proposer |-> CurrentLeader, StateRoot |-> NoRoot, DelayedRoot |-> root,
         Signatures |-> {CurrentLeader}, Status |-> "Proposed"]
  BY DEF NextProposal, prev, root, hash
<1> QED BY <1>1, <1>3, <1>4, <1>8, <1>9, <1>10, <1>11 DEF Block, prev

-----------------------------------------------------------------------------
(* Steps that leave the chain alone.                                       *)

LEMMA SubmitKeeps ==
    ASSUME ConfigAssumption, PipelineInv, NEW t \in TxSet, SubmitTransaction(t)
    PROVE  PipelineInv'
<1>1. accepted' \in Seq(TxSet) /\ Len(accepted') = Len(accepted) + 1
      /\ Len(accepted) \in Nat
  BY AppendProperties, LenProperties DEF SubmitTransaction, PipelineInv, TypeOK
<1>2. 1 .. Len(accepted) \subseteq 1 .. Len(accepted')
      /\ Len(accepted) + 1 \in 1 .. Len(accepted') /\ accepted' /= <<>>
  BY <1>1
<1>3. /\ Mempool' \subseteq 1 .. Len(accepted')
      /\ ValidatorMempool' \in [Validator -> SUBSET (1 .. Len(accepted'))]
      /\ gpc' = "read" /\ gTarget' = 0 /\ gSlice' \subseteq 1 .. Len(accepted')
      /\ mSlice' \subseteq 1 .. Len(accepted') /\ mpc' = mpc
      /\ txsToInclude' \subseteq 1 .. Len(accepted')
  BY <1>2 DEF SubmitTransaction, PipelineInv, TypeOK, takeVars
<1>4. 0 \in 0 .. NumValidators
  BY DEF ConfigAssumption
<1>5. TypeOK'
  BY <1>1, <1>2, <1>3, <1>4 DEF SubmitTransaction, PipelineInv, TypeOK, nodeVars,
     leaderVars, chainVars, execVars, specVars, RootMap
<1> QED BY <1>5 DEF SubmitTransaction, PipelineInv, QueueInv, VerifiedInv, BlocksInv,
        RootsInv, ProposalInv, Above, BlockAt, Done, Before, Idle, Working, Quorum,
        nodeVars, leaderVars, chainVars, execVars, specVars

(* One access to a mempool, by the generator or by main.                   *)
Access ==
    \/ AppendRead \/ AppendStore
    \/ TakeLength \/ TakeAll \/ TakeSome \/ RestRead \/ TrimStore \/ PurgeRead

LEMMA AccessLeaves ==
    ASSUME Access
    PROVE  UNCHANGED <<accepted, nodeVars, newBlock, pc, round>>
BY DEF Access, AppendRead, AppendStore, TakeLength, TakeAll, TakeSome, RestRead,
   TrimStore, PurgeRead, InProposal, genVars

LEMMA AccessTypes ==
    ASSUME ConfigAssumption, TypeOK, Access
    PROVE  /\ Mempool' \subseteq 1 .. Len(accepted)
           /\ ValidatorMempool' \in [Validator -> SUBSET (1 .. Len(accepted))]
           /\ gpc' \in {"idle", "read", "store"} /\ gTarget' \in 0 .. NumValidators
           /\ gSlice' \subseteq 1 .. Len(accepted) /\ (gpc' /= "idle" => accepted /= <<>>)
           /\ mpc' \in {"check", "all", "some", "rest", "trim", "sign", "purge"}
           /\ mSlice' \subseteq 1 .. Len(accepted)
           /\ txsToInclude' \subseteq 1 .. Len(accepted)
<1>1. LeaderMempool \subseteq 1 .. Len(accepted)
      /\ Oldest(LeaderMempool, BlockSize) \subseteq 1 .. Len(accepted)
  BY OldestIsPart DEF LeaderMempool, TypeOK
<1>2. NumValidators \in Nat
  BY DEF ConfigAssumption
<1>3. CASE AppendRead
  <2>1. gTarget /= 0 => gTarget - 1 \in Validator
    BY <1>2 DEF TypeOK, Validator
  <2> QED BY <1>3, <2>1 DEF AppendRead, TypeOK, takeVars
<1>4. CASE AppendStore
  <2>1. gSlice \cup {Len(accepted)} \subseteq 1 .. Len(accepted)
    <3>1. accepted /= <<>> /\ accepted \in Seq(TxSet)
      BY <1>4 DEF AppendStore, TypeOK
    <3>2. Len(accepted) \in Nat /\ Len(accepted) >= 1
      BY <3>1, EmptySeq, LenProperties
    <3>3. Len(accepted) \in 1 .. Len(accepted)
      BY <3>2
    <3> QED BY <3>3 DEF TypeOK
  <2>2. gTarget' \in 0 .. NumValidators /\ gpc' \in {"idle", "read"} /\ gSlice' = {}
    BY <1>2, <1>4 DEF AppendStore, TypeOK
  <2>3. Mempool' \subseteq 1 .. Len(accepted)
        /\ ValidatorMempool' \in [Validator -> SUBSET (1 .. Len(accepted))]
    BY <1>4, <2>1 DEF AppendStore, TypeOK
  <2> QED BY <1>4, <2>2, <2>3 DEF AppendStore, TypeOK, takeVars
<1>5. CASE TakeLength \/ TakeAll \/ TakeSome \/ RestRead \/ TrimStore \/ PurgeRead
  BY <1>1, <1>5 DEF TakeLength, TakeAll, TakeSome, RestRead, TrimStore, PurgeRead,
     InProposal, genVars, TypeOK
<1> QED BY <1>3, <1>4, <1>5 DEF Access

LEMMA AccessKeeps ==
    ASSUME ConfigAssumption, PipelineInv, Access
    PROVE  PipelineInv'
<1>1. UNCHANGED <<accepted, nodeVars, newBlock, pc, round>>
  BY AccessLeaves
<1>2. TypeOK'
  BY <1>1, AccessTypes DEF PipelineInv, TypeOK, nodeVars, leaderVars, chainVars,
     execVars, specVars, RootMap
<1> QED BY <1>1, <1>2 DEF PipelineInv, QueueInv, VerifiedInv, BlocksInv,
        RootsInv, ProposalInv, Above, BlockAt, Done, Before, Idle, Working, Quorum,
        nodeVars, leaderVars, chainVars, execVars, specVars

LEMMA SpeculativeExecuteKeeps ==
    ASSUME PipelineInv, NEW g \in waiting, SpeculativeExecute(g)
    PROVE  PipelineInv'
<1>1. g \in Task
  BY DEF PipelineInv, TypeOK
<1>2. State' \in AccountMap /\ RootOf(Executed(g.Transactions)) \in AccountMap
  BY ExecutedType DEF SpeculativeExecute, PipelineInv, TypeOK
<1> DEFINE r == RootOf(Executed(g.Transactions))
<1>3. executing' = {[Height |-> g.Height, Root |-> r]} /\ g.Height \in Height
  BY <1>1 DEF SpeculativeExecute, Task
<1> HIDE DEF r
<1>4. executing' \subseteq [Height : Height, Root : AccountMap]
  BY <1>2, <1>3 DEF r
<1>5. TypeOK'
  BY <1>2, <1>4 DEF SpeculativeExecute, PipelineInv, TypeOK, poolVars, genVars,
     takeVars, leaderVars,
     chainVars, localVars, RootMap
<1> QED BY <1>5 DEF SpeculativeExecute, PipelineInv, QueueInv, VerifiedInv, BlocksInv,
        RootsInv, ProposalInv, Above, BlockAt, Done, Before, Idle, Working, Quorum,
        poolVars, genVars, takeVars, leaderVars, chainVars, localVars

LEMMA StoreSpeculationKeeps ==
    ASSUME PipelineInv, NEW e \in executing, StoreSpeculation(e)
    PROVE  PipelineInv'
<1>1. e.Height \in Height /\ e.Root \in AccountMap
  BY DEF PipelineInv, TypeOK
<1>2. RootMap(SpeculativeStateRoot')
  <2>1. RootMap(SpeculativeStateRoot)
    BY DEF PipelineInv, TypeOK
  <2>2. RootMap(Put(SpeculativeStateRoot, e.Height, e.Root))
    BY <1>1, <2>1, PutType
  <2> QED BY <2>2 DEF StoreSpeculation
<1>3. TypeOK'
  BY <1>2 DEF StoreSpeculation, PipelineInv, TypeOK, poolVars, genVars, takeVars,
     leaderVars,
     chainVars, execVars, localVars, RootMap
<1> QED BY <1>3 DEF StoreSpeculation, PipelineInv, QueueInv, VerifiedInv, BlocksInv,
        RootsInv, ProposalInv, Above, BlockAt, Done, Before, Idle, Working, Quorum,
        poolVars, genVars, takeVars, leaderVars, chainVars, execVars, localVars

LEMMA AbortKeeps == PipelineInv /\ ConcurrentMapAbort => PipelineInv'
<1> SUFFICES ASSUME PipelineInv, ConcurrentMapAbort PROVE PipelineInv'
  OBVIOUS
<1>1. TypeOK'
  BY DEF ConcurrentMapAbort, PipelineInv, TypeOK, poolVars, genVars, takeVars,
     leaderVars, chainVars,
     execVars, specVars, localVars, RootMap
<1> QED BY <1>1 DEF ConcurrentMapAbort, PipelineInv, QueueInv, VerifiedInv, BlocksInv,
        RootsInv, ProposalInv, Above, BlockAt, Done, Before, Idle, Working, Quorum,
        poolVars, genVars, takeVars, leaderVars, chainVars, execVars, specVars,
           localVars

-----------------------------------------------------------------------------
(* Proposing, voting, and the end of a round.                              *)

LEMMA SkipRoundKeeps ==
    ASSUME ConfigAssumption, PipelineInv, ProposeNothing \/ ProposalSigningFails
    PROVE  PipelineInv'
<1>1. SkipRound /\ Running
  BY DEF ProposeNothing, ProposalSigningFails
<1>2. round' \in 0 .. NumRounds
  BY <1>1 DEF Running, SkipRound, PipelineInv, TypeOK, ConfigAssumption
<1>3. TypeOK'
  BY <1>1, <1>2 DEF SkipRound, PipelineInv, TypeOK, genVars, nodeVars, leaderVars,
     chainVars, execVars, specVars, RootMap
<1> QED BY <1>1, <1>3 DEF Running, SkipRound, PipelineInv, QueueInv, VerifiedInv,
        BlocksInv, RootsInv, ProposalInv, Above, BlockAt, Done, Before, Idle, Working,
        Quorum, nodeVars, leaderVars, chainVars, execVars, specVars

LEMMA ProposeBlockKeeps ==
    ASSUME ConfigAssumption, AccountsAssumption, PipelineInv, ProposeBlock
    PROVE  PipelineInv'
<1>1. /\ newBlock' \in Block
      /\ newBlock'.Height = CurrentHeight + 1
      /\ newBlock'.PreviousHash = BlockAt(CurrentHeight).Hash
      /\ newBlock'.Signatures = {newBlock'.Proposer}
      /\ newBlock'.StateRoot = NoRoot
      /\ newBlock'.Status = "Proposed"
  BY ProposalType DEF ProposeBlock, PipelineInv
<1>2. Mempool' \subseteq 1 .. Len(accepted)
  BY DEF ProposeBlock, Unincluded, PipelineInv, TypeOK
<1>3. TypeOK'
  BY SMTT(30), <1>1, <1>2 DEF ProposeBlock, PipelineInv, TypeOK, genVars, nodeVars,
     leaderVars, chainVars, execVars, specVars, RootMap
<1> QED BY <1>1, <1>3 DEF ProposeBlock, Running, PipelineInv, QueueInv, VerifiedInv,
        BlocksInv, RootsInv, ProposalInv, Above, BlockAt, Done, Before, Idle, Working,
        Quorum, nodeVars, leaderVars, chainVars, execVars, specVars

(* More votes keep a quorum.                                               *)
LEMMA QuorumMonotone ==
    ASSUME ConfigAssumption, NEW m \in Nat, NEW n \in Nat, m <= n, Quorum(m)
    PROVE  Quorum(n)
<1>1. QuorumDen \in Nat
  BY DEF ConfigAssumption
<1>2. n * QuorumDen = m * QuorumDen + (n - m) * QuorumDen
  BY <1>1
<1>3. (n - m) \in Nat /\ (n - m) * QuorumDen >= 0
  BY <1>1
<1>4. m * QuorumDen \in Int /\ n * QuorumDen \in Int
      /\ (n - m) * QuorumDen \in Int /\ QuorumNum * NumValidators \in Int
  BY <1>1, <1>3 DEF ConfigAssumption
<1> QED BY <1>2, <1>3, <1>4 DEF Quorum

(* The signatures VoteOnBlock leaves on a block it declares voted: up to   *)
(* the first validator whose vote makes the quorum, all of them signed.    *)
LEMMA VotersMakeQuorum ==
    ASSUME ConfigAssumption, NEW able \in SUBSET Validator, NEW proposer,
           proposer \notin able, QuorumReached(able)
    PROVE  Quorum(Cardinality({proposer} \cup Voters(able)))
<1> DEFINE enough == {v \in able : Quorum(1 + Rank(able, v))}
<1>1. IsFiniteSet(able) /\ able \subseteq Nat
  <2>1. NumValidators - 1 \in Int /\ Validator \subseteq Nat
    BY DEF ConfigAssumption, Validator
  <2>2. IsFiniteSet(Validator)
    BY <2>1, FS_Interval DEF Validator
  <2> QED BY <2>1, <2>2, FS_Subset
<1>2. PICK w \in enough : \A v \in enough : w <= v
  <2>1. enough \subseteq Nat /\ enough /= {}
    BY <1>1 DEF QuorumReached
  <2> DEFINE R == {ss \in Nat \X Nat : ss[1] < ss[2]}
  <2>2. IsWellFoundedOn(R, Nat)
    BY NatLessThanWellFounded DEF OpToRel
  <2>3. \A v, w \in Nat : <<v, w>> \notin R => w <= v
    OBVIOUS
  <2> HIDE DEF R, enough
  <2>4. PICK w \in enough : \A v \in enough : <<v, w>> \notin R
    BY <2>1, <2>2, WFMin
  <2>5. \A v \in enough : w <= v
    BY <2>1, <2>3, <2>4
  <2> QED BY <2>5
<1> DEFINE first == {q \in able : q <= w}
<1>3. first \subseteq Voters(able)
  <2> SUFFICES ASSUME NEW v \in first, NEW u \in able, u < v
               PROVE  ~Quorum(1 + Rank(able, u))
    BY DEF Voters
  <2>1. ~(w <= u)
    BY <1>1, <1>2
  <2> QED BY <2>1, <1>2
<1>4. /\ IsFiniteSet(Voters(able)) /\ IsFiniteSet(first)
      /\ Cardinality(Voters(able)) \in Nat /\ Cardinality(first) \in Nat
      /\ Cardinality(first) <= Cardinality(Voters(able))
  <2>1. Voters(able) \subseteq able
    BY DEF Voters
  <2> QED BY <2>1, <1>1, <1>3, FS_Subset, FS_CardinalityType
<1>5. Cardinality({proposer} \cup Voters(able)) = Cardinality(Voters(able)) + 1
  <2>1. proposer \notin Voters(able) /\ {proposer} \cup Voters(able)
            = Voters(able) \cup {proposer}
    BY DEF Voters
  <2> QED BY <2>1, <1>4, FS_AddElement
<1>6. Quorum(1 + Cardinality(first))
  BY <1>2 DEF Rank
<1>7. 1 + Cardinality(first) \in Nat /\ Cardinality(Voters(able)) + 1 \in Nat
      /\ 1 + Cardinality(first) <= Cardinality(Voters(able)) + 1
  BY <1>4
<1> QED BY <1>5, <1>6, <1>7, QuorumMonotone

LEMMA VoteKeeps ==
    ASSUME ConfigAssumption, PipelineInv, VoteOnBlock
    PROVE  PipelineInv'
<1>1. PICK failing \in SUBSET (Validator \ {newBlock.Proposer}) :
        LET able == IF ValidBlock(newBlock)
                    THEN (Validator \ {newBlock.Proposer}) \ failing ELSE {}
            reached == QuorumReached(able)
        IN  /\ newBlock' = [newBlock EXCEPT
                   !.Signatures = @ \cup Voters(able),
                   !.Status = IF reached THEN "Voted" ELSE @]
            /\ BlockVote' = [v \in Validator |->
                   IF v \in Voters(able) THEN BlockVote[v] \cup {newBlock.Hash}
                   ELSE BlockVote[v]]
            /\ pc' = IF reached THEN "add" ELSE "rotate"
  BY DEF VoteOnBlock
<1> DEFINE able == IF ValidBlock(newBlock)
                   THEN (Validator \ {newBlock.Proposer}) \ failing ELSE {}
<1>2. able \in SUBSET Validator /\ newBlock.Proposer \notin able
      /\ Voters(able) \subseteq Validator
  BY DEF Voters
<1>3. newBlock \in Block /\ newBlock.Signatures = {newBlock.Proposer}
      /\ newBlock.Height = CurrentHeight + 1
      /\ newBlock.PreviousHash = BlockAt(CurrentHeight).Hash
      /\ newBlock.StateRoot = NoRoot
  BY DEF VoteOnBlock, PipelineInv, ProposalInv, TypeOK
<1>4. newBlock' = [newBlock EXCEPT !.Signatures = @ \cup Voters(able),
                                   !.Status = IF QuorumReached(able) THEN "Voted" ELSE @]
      /\ pc' = (IF QuorumReached(able) THEN "add" ELSE "rotate")
      /\ BlockVote' = [v \in Validator |->
                   IF v \in Voters(able) THEN BlockVote[v] \cup {newBlock.Hash}
                   ELSE BlockVote[v]]
  BY <1>1
<1> HIDE DEF able
<1>5. /\ newBlock' \in Block
      /\ newBlock'.Signatures = {newBlock.Proposer} \cup Voters(able)
      /\ newBlock'.Height = newBlock.Height /\ newBlock'.StateRoot = NoRoot
      /\ newBlock'.PreviousHash = newBlock.PreviousHash
      /\ newBlock'.Proposer = newBlock.Proposer
      /\ QuorumReached(able) => newBlock'.Status = "Voted"
  BY <1>2, <1>3, <1>4 DEF Block, BlockStatus
<1>6. QuorumReached(able) => Quorum(Cardinality(newBlock'.Signatures))
  BY <1>2, <1>5, VotersMakeQuorum
<1>7. BlockVote' \in [Validator -> SUBSET Hash]
  BY <1>3, <1>4 DEF PipelineInv, TypeOK, Block
<1>8. pc' \in {"add", "rotate"} /\ (pc' = "add" => QuorumReached(able))
  BY <1>4
<1>9. TypeOK'
  <2>1. UNCHANGED <<poolVars, leaderVars, chainVars, execVars, specVars,
                   pendingBlocks, specRoot, LastVerifiedHeight, MempoolSnapshots,
                      round>>
    BY DEF VoteOnBlock
  <2>2. newBlock' \in Block
    BY <1>5
  <2> QED BY <2>1, <2>2, <1>7, <1>8 DEF PipelineInv, TypeOK, poolVars, genVars,
     takeVars, leaderVars,
          chainVars, execVars, specVars, RootMap
<1>10. ProposalInv'
  BY <1>3, <1>5, <1>6, <1>8 DEF VoteOnBlock, ProposalInv, chainVars, BlockAt, Quorum
<1> QED BY <1>8, <1>9, <1>10 DEF VoteOnBlock, PipelineInv, QueueInv, VerifiedInv,
        BlocksInv, RootsInv, Above, BlockAt, Done, Before, Idle, Working,
        chainVars, execVars

LEMMA RotateKeeps ==
    ASSUME ConfigAssumption, AccountsAssumption, PipelineInv, RotateLeader
    PROVE  PipelineInv'
<1>1. NextLeader \in Validator
  <2>1. NumValidators \in Nat /\ NumValidators > 0 /\ CurrentLeader + 1 \in Nat
    BY DEF PipelineInv, TypeOK, Validator, ConfigAssumption
  <2>2. (CurrentLeader + 1) % NumValidators \in 0 .. NumValidators - 1
    BY <2>1
  <2> QED BY <2>2 DEF NextLeader, Validator
<1>2. IsLeader' \in [Validator -> BOOLEAN]
  BY <1>1 DEF RotateLeader, PipelineInv, TypeOK
<1>3. round' \in 0 .. NumRounds /\ Genesis \in Block
  BY GenesisType DEF RotateLeader, PipelineInv, TypeOK, QueueInv, ConfigAssumption
<1>4. TypeOK'
  BY <1>1, <1>2, <1>3 DEF RotateLeader, PipelineInv, TypeOK, poolVars, genVars,
     takeVars, chainVars,
     execVars, specVars, RootMap
<1> QED BY <1>4 DEF RotateLeader, PipelineInv, QueueInv, VerifiedInv, BlocksInv,
        RootsInv, ProposalInv, Above, BlockAt, Done, Before, Idle, Working, Quorum,
        chainVars, execVars

-----------------------------------------------------------------------------
(* Executing what is final.                                                *)

LEMMA ProcessKeeps ==
    ASSUME PipelineInv, ProcessPendingExecutions
    PROVE  PipelineInv'
<1>1. TypeOK'
  BY DEF ProcessPendingExecutions, PipelineInv, TypeOK, poolVars, genVars, takeVars,
     leaderVars,
     execVars, specVars, RootMap
<1>2. /\ pc = "process" /\ CurrentHeight >= 1 /\ CurrentHeight \in Nat
      /\ PendingExecutions =
             IF CurrentHeight > 1 THEN <<CurrentHeight - 1>> ELSE <<>>
      /\ LastExecutedHeight = Before /\ LastFinalizedHeight = Done
      /\ Len(Blocks) = CurrentHeight + 1 /\ round < NumRounds
  BY DEF ProcessPendingExecutions, PipelineInv, TypeOK, QueueInv, Height
<1>3. UNCHANGED <<Blocks, CurrentHeight, LastFinalizedHeight, LastExecutedHeight,
                  round>>
      /\ pendingBlocks' = PendingExecutions /\ PendingExecutions' = <<>>
      /\ pc' = IF PendingExecutions = <<>> THEN "rotate" ELSE "check"
  BY DEF ProcessPendingExecutions, execVars
<1>4. QueueInv'
  <2>1. CASE CurrentHeight > 1
    <3>1. PendingExecutions = <<CurrentHeight - 1>> /\ PendingExecutions /= <<>>
          /\ pc' = "check"
      BY <2>1, <1>2, <1>3
    <3> QED BY <2>1, <3>1, <1>2, <1>3 DEF QueueInv, Done, Before, Idle, Working
  <2>2. CASE ~(CurrentHeight > 1)
    <3>1. PendingExecutions = <<>> /\ pc' = "rotate" /\ CurrentHeight = 1
      BY <2>2, <1>2, <1>3
    <3> QED BY <3>1, <1>2, <1>3 DEF QueueInv, Done, Before, Idle, Working
  <2> QED BY <2>1, <2>2
<1> QED BY <1>1, <1>4 DEF ProcessPendingExecutions, PipelineInv, VerifiedInv, BlocksInv,
        RootsInv, ProposalInv, Above, BlockAt, execVars

(* main works on the block below the tip.                                  *)
LEMMA PendingIsBelowTip ==
    ASSUME PipelineInv, Working
    PROVE  /\ Pending = CurrentHeight - 1 /\ Tail(pendingBlocks) = <<>>
           /\ CurrentHeight >= 2 /\ CurrentHeight \in Nat
           /\ Pending \in Above /\ Pending + 1 \in 1 .. Len(Blocks)
           /\ Done = Pending
           /\ Before = IF Pending = 1 THEN -1 ELSE Pending - 1
<1>1. pendingBlocks = <<CurrentHeight - 1>> /\ CurrentHeight >= 2
      /\ CurrentHeight \in Nat /\ Len(Blocks) = CurrentHeight + 1
  BY DEF PipelineInv, QueueInv, TypeOK, Height
<1>2. Pending = CurrentHeight - 1 /\ Tail(pendingBlocks) = <<>>
  BY <1>1 DEF Pending
<1> QED BY <1>1, <1>2 DEF Above, Done, Before

LEMMA CheckKeeps ==
    ASSUME PipelineInv, CheckSpeculation
    PROVE  PipelineInv'
<1>1. pc' = "use" => specRoot' \in AccountMap
  BY DEF CheckSpeculation, Usable, PipelineInv, TypeOK, RootMap
<1>2. pc' \in {"use", "execute"} /\ (pc' = "execute" => specRoot' = specRoot)
  BY DEF CheckSpeculation
<1>3. TypeOK'
  BY <1>1, <1>2 DEF CheckSpeculation, PipelineInv, TypeOK, poolVars, genVars,
     takeVars, leaderVars,
     chainVars, execVars, specVars, RootMap
<1>4. QueueInv'
  BY <1>1, <1>2 DEF CheckSpeculation, PipelineInv, QueueInv, Done, Before, Idle,
     Working,
     chainVars, execVars
<1> QED BY <1>2, <1>3, <1>4 DEF CheckSpeculation, PipelineInv, VerifiedInv, BlocksInv,
        RootsInv, ProposalInv, Above, BlockAt, Before, chainVars, execVars

(* What recording the outcome of a block does to the chain and the roots.  *)
LEMMA RecordProperties ==
    ASSUME PipelineInv, pc \in {"use", "execute"},
           NEW r \in AccountMap, RecordExecution(Pending, r)
    PROVE  /\ Blocks' \in Seq(Block) /\ Len(Blocks') = Len(Blocks)
           /\ \A h \in 0 .. CurrentHeight :
                h /= Pending => Blocks'[h + 1] = Blocks[h + 1]
           /\ Blocks'[Pending + 1] = [Blocks[Pending + 1] EXCEPT !.StateRoot = r]
           /\ Blocks'[Pending + 1].StateRoot = r
           /\ Blocks'[Pending + 1].Status = Blocks[Pending + 1].Status
           /\ RootMap(PendingStateRoots')
           /\ DOMAIN PendingStateRoots' = DOMAIN PendingStateRoots \cup {Pending}
           /\ PendingStateRoots'[Pending] = r
           /\ \A h \in DOMAIN PendingStateRoots :
                h /= Pending => PendingStateRoots'[h] = PendingStateRoots[h]
           /\ LastExecutedHeight' = Pending
<1>1. Pending = CurrentHeight - 1 /\ CurrentHeight \in Nat
      /\ Pending \in Above /\ Pending + 1 \in 1 .. Len(Blocks)
  BY PendingIsBelowTip DEF Working
<1>2. Blocks \in Seq(Block) /\ r \in Root /\ Len(Blocks) = CurrentHeight + 1
  BY DEF PipelineInv, TypeOK, QueueInv, Root
<1>3. Blocks' = WithRoot(Blocks, Pending + 1, r)
  BY DEF RecordExecution, WithRoot
<1>4. /\ Blocks' \in Seq(Block) /\ Len(Blocks') = Len(Blocks)
      /\ Blocks'[Pending + 1] = [Blocks[Pending + 1] EXCEPT !.StateRoot = r]
      /\ \A j \in 1 .. Len(Blocks) : j /= Pending + 1 => Blocks'[j] = Blocks[j]
  BY <1>1, <1>2, <1>3, SetRoot
<1>5. Blocks[Pending + 1] \in Block
  BY <1>1, <1>2, ElementOfSeq
<1>6. Blocks'[Pending + 1].StateRoot = r
      /\ Blocks'[Pending + 1].Status = Blocks[Pending + 1].Status
  BY <1>4, <1>5 DEF Block
<1>7. \A h \in 0 .. CurrentHeight : h /= Pending => Blocks'[h + 1] = Blocks[h + 1]
  BY <1>1, <1>2, <1>4
<1>8. Pending \in Height /\ RootMap(PendingStateRoots)
      /\ PendingStateRoots' = Put(PendingStateRoots, Pending, r)
      /\ LastExecutedHeight' = Pending
  BY <1>1 DEF RecordExecution, Height, PipelineInv, TypeOK
<1>9. /\ RootMap(PendingStateRoots')
      /\ DOMAIN PendingStateRoots' = DOMAIN PendingStateRoots \cup {Pending}
      /\ PendingStateRoots'[Pending] = r
      /\ \A h \in DOMAIN PendingStateRoots :
           h /= Pending => PendingStateRoots'[h] = PendingStateRoots[h]
  <2> DEFINE put == Put(PendingStateRoots, Pending, r)
  <2>1. RootMap(put) /\ DOMAIN put = DOMAIN PendingStateRoots \cup {Pending}
        /\ put[Pending] = r
    BY <1>8, PutType
  <2>2. \A h \in DOMAIN PendingStateRoots :
           h /= Pending => put[h] = PendingStateRoots[h]
    BY <1>8, PutType
  <2> QED BY <1>8, <2>1, <2>2
<1> QED BY <1>4, <1>6, <1>7, <1>8, <1>9

LEMMA RecordKeeps ==
    ASSUME PipelineInv, pc \in {"use", "execute"}, pc' = "verify",
           NEW r \in AccountMap, RecordExecution(Pending, r),
           UNCHANGED <<CurrentHeight, LastFinalizedHeight, LastVerifiedHeight,
                       PendingExecutions, pendingBlocks, round>>
    PROVE  QueueInv' /\ VerifiedInv' /\ BlocksInv' /\ RootsInv' /\ ProposalInv'
<1>1. /\ Pending = CurrentHeight - 1 /\ CurrentHeight \in Nat /\ CurrentHeight >= 2
      /\ Pending \in Above /\ Done = Pending
      /\ Before = IF Pending = 1 THEN -1 ELSE Pending - 1
  BY PendingIsBelowTip DEF Working
<1>0. /\ Len(Blocks') = Len(Blocks)
      /\ \A h \in 0 .. CurrentHeight :
           h /= Pending => Blocks'[h + 1] = Blocks[h + 1]
      /\ Blocks'[Pending + 1].StateRoot = r
      /\ Blocks'[Pending + 1].Status = Blocks[Pending + 1].Status
      /\ DOMAIN PendingStateRoots' = DOMAIN PendingStateRoots \cup {Pending}
      /\ PendingStateRoots'[Pending] = r
      /\ \A h \in DOMAIN PendingStateRoots :
           h /= Pending => PendingStateRoots'[h] = PendingStateRoots[h]
      /\ LastExecutedHeight' = Pending
  BY RecordProperties
<1>2. LastExecutedHeight = Before
  BY DEF PipelineInv, QueueInv
<1>3. QueueInv'
  BY <1>1, <1>0 DEF PipelineInv, QueueInv, Idle, Working, Done
<1>4. VerifiedInv'
  BY <1>2 DEF PipelineInv, VerifiedInv, Before
<1>5. BlocksInv'
  <2> SUFFICES ASSUME NEW h \in Above
               PROVE  /\ Blocks'[h + 1].Status \in {"Finalized", "Verified"}
                            <=> h < CurrentHeight
                      /\ h > Pending => Blocks'[h + 1].StateRoot = NoRoot
                      /\ h <= Pending => Blocks'[h + 1].StateRoot \in AccountMap
    BY <1>0 DEF BlocksInv, Above, BlockAt
  <2>1. /\ Blocks[h + 1].Status \in {"Finalized", "Verified"} <=> h < CurrentHeight
        /\ h > Before => Blocks[h + 1].StateRoot = NoRoot
        /\ h <= Before => Blocks[h + 1].StateRoot \in AccountMap
    BY <1>2 DEF PipelineInv, BlocksInv, BlockAt
  <2>2. CASE h = Pending
    BY <1>1, <2>1, <2>2, <1>0
  <2>3. CASE h /= Pending
    <3>1. h \in 0 .. CurrentHeight /\ h \in Int
      BY <1>1 DEF Above
    <3>2. Blocks'[h + 1] = Blocks[h + 1]
      BY <2>3, <3>1, <1>0
    <3>3. (h > Pending => h > Before) /\ (h <= Pending => h <= Before)
      BY <1>1, <2>3, <3>1 DEF Above
    <3> QED BY <2>1, <3>2, <3>3
  <2> QED BY <2>2, <2>3
<1>6. RootsInv'
  <2> SUFFICES ASSUME NEW h \in DOMAIN PendingStateRoots'
               PROVE  h \in 1 .. Pending /\ PendingStateRoots'[h] = Blocks'[h + 1].StateRoot
    BY <1>0 DEF RootsInv, BlockAt
  <2>1. CASE h = Pending
    BY <1>1, <2>1, <1>0 DEF Above
  <2>2. CASE h /= Pending
    <3>1. h \in DOMAIN PendingStateRoots
          /\ PendingStateRoots'[h] = PendingStateRoots[h]
      BY <2>2, <1>0
    <3>2. h \in 1 .. Before /\ PendingStateRoots[h] = Blocks[h + 1].StateRoot
      BY <1>2, <3>1 DEF PipelineInv, RootsInv, BlockAt
    <3>3. h \in 0 .. CurrentHeight /\ h \in 1 .. Pending
      BY <1>1, <3>2
    <3>4. Blocks'[h + 1] = Blocks[h + 1]
      BY <2>2, <3>3, <1>0
    <3> QED BY <3>1, <3>2, <3>3, <3>4
  <2> QED BY <2>1, <2>2
<1>7. ProposalInv'
  BY DEF ProposalInv
<1> QED BY <1>3, <1>4, <1>5, <1>6, <1>7

LEMMA UseKeeps ==
    ASSUME AccountsAssumption, PipelineInv, UseSpeculation
    PROVE  PipelineInv'
<1>1. specRoot \in AccountMap /\ RecordExecution(Pending, specRoot)
      /\ pc = "use" /\ pc' = "verify"
  BY DEF UseSpeculation, PipelineInv, QueueInv
<1>2. RootMap(SpeculativeStateRoot')
  BY KeepType DEF UseSpeculation, PipelineInv, TypeOK
<1>3. Pending \in Height
  BY <1>1, PendingIsBelowTip DEF Working, Height
<1>4. TypeOK'
  BY <1>1, <1>2, <1>3, RecordProperties DEF UseSpeculation, PipelineInv, TypeOK,
     poolVars, genVars, takeVars, leaderVars
<1>5. QueueInv' /\ VerifiedInv' /\ BlocksInv' /\ RootsInv' /\ ProposalInv'
  BY <1>1, RecordKeeps DEF UseSpeculation
<1> QED BY <1>4, <1>5 DEF PipelineInv

LEMMA ExecuteFinalizedKeeps ==
    ASSUME PipelineInv, ExecuteFinalized
    PROVE  PipelineInv'
<1> DEFINE txs == BlockAt(Pending).Transactions
           r == RootOf(Executed(txs))
<1>1. RecordExecution(Pending, r) /\ State' = Committed(txs, FALSE)
      /\ pc = "execute" /\ pc' = "verify"
  BY DEF ExecuteFinalized
<1>2. r \in AccountMap /\ State' \in AccountMap
  BY <1>1, ExecutedType DEF PipelineInv, TypeOK
<1>3. Pending \in Height
  BY <1>1, PendingIsBelowTip DEF Working, Height
<1>4. UNCHANGED <<poolVars, leaderVars, CurrentHeight, LastFinalizedHeight,
                  PendingExecutions, specVars, localVars, BlockVote,
                  LastVerifiedHeight, MempoolSnapshots, round>>
  BY DEF ExecuteFinalized
<1> HIDE DEF r, txs
<1>5. TypeOK'
  BY <1>1, <1>2, <1>3, <1>4, RecordProperties DEF PipelineInv, TypeOK, RootMap,
     poolVars, genVars, takeVars, leaderVars, specVars, localVars
<1>6. QueueInv' /\ VerifiedInv' /\ BlocksInv' /\ RootsInv' /\ ProposalInv'
  BY <1>1, <1>2, <1>4, RecordKeeps DEF localVars
<1> QED BY <1>5, <1>6 DEF PipelineInv

(* Verifying a block changes its status and nothing else: the root it      *)
(* stores is the one the block has.                                        *)
LEMMA VerifiedProperties ==
    ASSUME PipelineInv, pc = "verify", Verified(Pending)
    PROVE  /\ Blocks' \in Seq(Block) /\ Len(Blocks') = Len(Blocks)
           /\ \A h \in 0 .. CurrentHeight :
                h /= Pending => Blocks'[h + 1] = Blocks[h + 1]
           /\ Blocks'[Pending + 1] = [Blocks[Pending + 1] EXCEPT !.Status = "Verified"]
           /\ Blocks'[Pending + 1].StateRoot = Blocks[Pending + 1].StateRoot
           /\ Blocks'[Pending + 1].Status = "Verified"
           /\ RootMap(PendingStateRoots')
           /\ DOMAIN PendingStateRoots' = DOMAIN PendingStateRoots \ {Pending}
           /\ \A h \in DOMAIN PendingStateRoots' :
                PendingStateRoots'[h] = PendingStateRoots[h]
           /\ LastVerifiedHeight' = Pending
<1>1. Pending = CurrentHeight - 1 /\ CurrentHeight \in Nat
      /\ Pending \in Above /\ Pending + 1 \in 1 .. Len(Blocks)
  BY PendingIsBelowTip DEF Working
<1>2. Blocks \in Seq(Block) /\ Len(Blocks) = CurrentHeight + 1 /\ "Verified" \in BlockStatus
  BY DEF PipelineInv, TypeOK, QueueInv, BlockStatus
<1>3. Blocks[Pending + 1] \in Block
  BY <1>1, <1>2, ElementOfSeq
<1>4. Pending \in DOMAIN PendingStateRoots =>
          PendingStateRoots[Pending] = Blocks[Pending + 1].StateRoot
  BY DEF PipelineInv, RootsInv, BlockAt
<1>5. Blocks' = WithStatus(Blocks, Pending + 1, "Verified")
  <2> DEFINE b == Blocks[Pending + 1]
             root == IF Pending \in DOMAIN PendingStateRoots
                     THEN PendingStateRoots[Pending] ELSE b.StateRoot
  <2>1. Blocks' = [Blocks EXCEPT ![Pending + 1] =
                      [b EXCEPT !.Status = "Verified", !.StateRoot = root]]
    BY <1>1, <1>3 DEF Verified, Block
  <2>2. root = b.StateRoot
    BY <1>4
  <2>3. [b EXCEPT !.Status = "Verified", !.StateRoot = b.StateRoot]
            = [b EXCEPT !.Status = "Verified"]
    BY <1>3 DEF Block
  <2> QED BY <2>1, <2>2, <2>3 DEF WithStatus
<1>6. /\ Blocks' \in Seq(Block) /\ Len(Blocks') = Len(Blocks)
      /\ Blocks'[Pending + 1] = [Blocks[Pending + 1] EXCEPT !.Status = "Verified"]
      /\ \A j \in 1 .. Len(Blocks) : j /= Pending + 1 => Blocks'[j] = Blocks[j]
  BY <1>1, <1>2, <1>5, SetStatus
<1>7. Blocks'[Pending + 1].StateRoot = Blocks[Pending + 1].StateRoot
      /\ Blocks'[Pending + 1].Status = "Verified"
  BY <1>3, <1>6 DEF Block
<1>8. \A h \in 0 .. CurrentHeight : h /= Pending => Blocks'[h + 1] = Blocks[h + 1]
  BY <1>1, <1>2, <1>6
<1>9. /\ RootMap(PendingStateRoots')
      /\ DOMAIN PendingStateRoots' = DOMAIN PendingStateRoots \ {Pending}
      /\ \A h \in DOMAIN PendingStateRoots' : PendingStateRoots'[h] = PendingStateRoots[h]
      /\ LastVerifiedHeight' = Pending
  BY DEF Verified, Keep, RootMap, PipelineInv, TypeOK
<1> QED BY <1>6, <1>7, <1>8, <1>9

LEMMA VerifyKeeps ==
    ASSUME ConfigAssumption, PipelineInv, VerifyBlock
    PROVE  PipelineInv'
<1>1. /\ Pending = CurrentHeight - 1 /\ CurrentHeight \in Nat /\ CurrentHeight >= 2
      /\ Pending \in Above /\ Done = Pending /\ Tail(pendingBlocks) = <<>>
      /\ Before = IF Pending = 1 THEN -1 ELSE Pending - 1
  BY PendingIsBelowTip DEF VerifyBlock, Working
<1>2. pc = "verify" /\ pc' = "rotate" /\ pendingBlocks' = <<>>
      /\ LastExecutedHeight = Pending
      /\ UNCHANGED <<poolVars, leaderVars, CurrentHeight, LastFinalizedHeight,
                   PendingExecutions, LastExecutedHeight, State, specVars, newBlock,
                   specRoot, BlockVote, MempoolSnapshots, round>>
  BY <1>1 DEF VerifyBlock, PipelineInv, QueueInv
<1>3. Verifiable(Pending) <=> ExecutionDelay <= 1
  BY <1>1 DEF Verifiable, ConfigAssumption
<1>4. CASE Verifiable(Pending)
  <2>1. /\ Blocks' \in Seq(Block) /\ Len(Blocks') = Len(Blocks)
        /\ \A h \in 0 .. CurrentHeight :
             h /= Pending => Blocks'[h + 1] = Blocks[h + 1]
        /\ Blocks'[Pending + 1].StateRoot = Blocks[Pending + 1].StateRoot
        /\ Blocks'[Pending + 1].Status = "Verified"
        /\ RootMap(PendingStateRoots')
        /\ DOMAIN PendingStateRoots' = DOMAIN PendingStateRoots \ {Pending}
        /\ \A h \in DOMAIN PendingStateRoots' :
             PendingStateRoots'[h] = PendingStateRoots[h]
        /\ LastVerifiedHeight' = Pending
    BY <1>2, <1>4, VerifiedProperties DEF VerifyBlock
  <2>2. Pending \in Height
    BY <1>1 DEF Height
  <2>3. TypeOK'
    <3>1. LastVerifiedHeight' \in Height \cup {-1} /\ pendingBlocks' \in Seq(Height)
      BY <1>2, <2>1, <2>2
    <3>2. RootMap(SpeculativeStateRoot)'
      BY <1>2 DEF specVars, PipelineInv, TypeOK, RootMap
    <3> QED BY <1>2, <2>1, <3>1, <3>2 DEF PipelineInv, TypeOK, poolVars, genVars,
       takeVars, leaderVars,
            specVars
  <2>4. QueueInv'
    BY <1>1, <1>2, <2>1 DEF PipelineInv, QueueInv, Done, Idle, Working
  <2>5. VerifiedInv'
    BY <1>2, <1>3, <1>4, <2>1 DEF VerifiedInv, ConfigAssumption
  <2>6. BlocksInv'
    <3> SUFFICES ASSUME NEW h \in Above
                 PROVE  /\ Blocks'[h + 1].Status \in {"Finalized", "Verified"}
                              <=> h < CurrentHeight
                        /\ h > Pending => Blocks'[h + 1].StateRoot = NoRoot
                        /\ h <= Pending => Blocks'[h + 1].StateRoot \in AccountMap
      BY <1>2 DEF BlocksInv, Above, BlockAt
    <3>1. /\ Blocks[h + 1].Status \in {"Finalized", "Verified"} <=> h < CurrentHeight
          /\ h > Pending => Blocks[h + 1].StateRoot = NoRoot
          /\ h <= Pending => Blocks[h + 1].StateRoot \in AccountMap
      BY <1>2 DEF PipelineInv, BlocksInv, BlockAt
    <3>2. CASE h = Pending
      BY <1>1, <2>1, <3>1, <3>2
    <3>3. CASE h /= Pending
      BY <1>1, <2>1, <3>1, <3>3 DEF Above
    <3> QED BY <3>2, <3>3
  <2>7. RootsInv'
    <3> SUFFICES ASSUME NEW h \in DOMAIN PendingStateRoots'
                 PROVE  h \in 1 .. Pending
                        /\ PendingStateRoots'[h] = Blocks'[h + 1].StateRoot
      BY <1>2 DEF RootsInv, BlockAt
    <3>1. h \in DOMAIN PendingStateRoots /\ h /= Pending
          /\ PendingStateRoots'[h] = PendingStateRoots[h]
      BY <2>1
    <3>2. h \in 1 .. Pending /\ PendingStateRoots[h] = Blocks[h + 1].StateRoot
      BY <1>2, <3>1 DEF PipelineInv, RootsInv, BlockAt
    <3>3. h \in 0 .. CurrentHeight
      BY <1>1, <3>2
    <3> QED BY <2>1, <3>1, <3>2, <3>3
  <2> QED BY <1>2, <2>3, <2>4, <2>5, <2>6, <2>7 DEF PipelineInv, ProposalInv
<1>5. CASE ~Verifiable(Pending)
  <2>1. UNCHANGED <<LastVerifiedHeight, Blocks, PendingStateRoots>>
    BY <1>5 DEF VerifyBlock
  <2>2. TypeOK'
    <3>1. RootMap(PendingStateRoots)' /\ RootMap(SpeculativeStateRoot)'
      BY <1>2, <2>1 DEF PipelineInv, TypeOK, specVars, RootMap
    <3> QED BY SMTT(30), <1>2, <2>1, <3>1 DEF PipelineInv, TypeOK, poolVars, genVars,
            takeVars, leaderVars, specVars
  <2>3. QueueInv'
    BY <1>1, <1>2, <2>1 DEF PipelineInv, QueueInv, Done, Idle, Working
  <2>4. VerifiedInv'
    BY <1>3, <1>5, <2>1 DEF PipelineInv, VerifiedInv, ConfigAssumption
  <2> QED BY <1>2, <2>1, <2>2, <2>3, <2>4 DEF PipelineInv, BlocksInv, RootsInv,
          ProposalInv, Above, BlockAt
<1> QED BY <1>4, <1>5

-----------------------------------------------------------------------------
(* Adding a block.                                                         *)

LEMMA AddedBlocks ==
    ASSUME PipelineInv, AddBlock
    PROVE  /\ Blocks' \in Seq(Block) /\ Len(Blocks') = Len(Blocks) + 1
           /\ \A h \in 0 .. CurrentHeight - 1 : Blocks'[h + 1] = Blocks[h + 1]
           /\ CurrentHeight > 0 =>
                Blocks'[CurrentHeight + 1] =
                    [Blocks[CurrentHeight + 1] EXCEPT !.Status = "Finalized"]
           /\ CurrentHeight = 0 => Blocks'[1] = Blocks[1]
           /\ Blocks'[CurrentHeight + 2] = newBlock
<1>1. /\ Blocks \in Seq(Block) /\ newBlock \in Block /\ CurrentHeight \in Nat
      /\ Len(Blocks) = CurrentHeight + 1
      /\ newBlock.Height - 1 = CurrentHeight
  BY DEF PipelineInv, TypeOK, QueueInv, ProposalInv, AddBlock, Height
<1> DEFINE bs == Append(Blocks, newBlock)
<1>2. /\ bs \in Seq(Block) /\ Len(bs) = CurrentHeight + 2
      /\ \A j \in 1 .. CurrentHeight + 1 : bs[j] = Blocks[j]
      /\ bs[CurrentHeight + 2] = newBlock
  BY <1>1, AppendProperties
<1>3. Blocks' = FinalizedPrefix(CurrentHeight, bs)
  BY <1>1 DEF AddBlock
<1> HIDE DEF bs
<1>4. CASE CurrentHeight > 0
  <2>1. Blocks' = WithStatus(bs, CurrentHeight + 1, "Finalized")
    BY <1>3, <1>4 DEF FinalizedPrefix, WithStatus
  <2>2. CurrentHeight + 1 \in 1 .. Len(bs) /\ "Finalized" \in BlockStatus
    BY <1>1, <1>2 DEF BlockStatus
  <2>3. /\ Blocks' \in Seq(Block) /\ Len(Blocks') = Len(bs)
        /\ Blocks'[CurrentHeight + 1] = [bs[CurrentHeight + 1] EXCEPT !.Status = "Finalized"]
        /\ \A j \in 1 .. Len(bs) : j /= CurrentHeight + 1 => Blocks'[j] = bs[j]
    BY <1>2, <2>1, <2>2, SetStatus
  <2>4. CurrentHeight + 1 \in 1 .. CurrentHeight + 1
        /\ CurrentHeight + 2 \in 1 .. Len(bs) /\ CurrentHeight + 2 /= CurrentHeight + 1
    BY <1>1, <1>2
  <2>5. Blocks'[CurrentHeight + 1] = [Blocks[CurrentHeight + 1] EXCEPT !.Status = "Finalized"]
        /\ Blocks'[CurrentHeight + 2] = newBlock
    BY <1>2, <2>3, <2>4
  <2>6. ASSUME NEW h \in 0 .. CurrentHeight - 1
        PROVE  Blocks'[h + 1] = Blocks[h + 1]
    <3>1. h + 1 \in 1 .. Len(bs) /\ h + 1 \in 1 .. CurrentHeight + 1
          /\ h + 1 /= CurrentHeight + 1
      BY <1>1, <1>2
    <3> QED BY <3>1, <1>2, <2>3
  <2> QED BY <1>1, <1>2, <1>4, <2>3, <2>5, <2>6
<1>5. CASE CurrentHeight = 0
  BY <1>1, <1>2, <1>3, <1>5 DEF FinalizedPrefix
<1> QED BY <1>1, <1>4, <1>5

LEMMA SpeculationType ==
    ASSUME TypeOK, SpeculateOn(newBlock)
    PROVE  waiting' \subseteq Task /\ DOMAIN MempoolSnapshots' \subseteq Height
<1>1. newBlock.Height \in Nat /\ newBlock.Transactions \subseteq Position
  BY DEF TypeOK, Block
<1>2. Oldest(Mempool, BlockSize) \subseteq Position
  <2>1. Mempool \subseteq Position
    BY DEF TypeOK, Position
  <2>2. Oldest(Mempool, BlockSize) \subseteq Mempool
    BY OldestIsPart
  <2> QED BY <2>1, <2>2
<1>3. SpeculationTarget(newBlock) \in Task
  BY <1>1, <1>2 DEF SpeculationTarget, Task, Height
<1>4. DOMAIN SnapshotsAfter(newBlock.Height)
          \subseteq DOMAIN MempoolSnapshots \cup {newBlock.Height}
  BY DEF SnapshotsAfter, Put, Keep
<1> QED BY <1>1, <1>3, <1>4 DEF SpeculateOn, TypeOK, Height

LEMMA AddKeeps ==
    ASSUME ConfigAssumption, AccountsAssumption, PipelineInv, AddBlock
    PROVE  PipelineInv'
<1>1. /\ CurrentHeight \in Nat /\ Len(Blocks) = CurrentHeight + 1
      /\ newBlock.Height - 1 = CurrentHeight
      /\ newBlock.StateRoot = NoRoot /\ newBlock.Status = "Voted"
      /\ PendingExecutions = <<>> /\ pendingBlocks = <<>>
      /\ LastExecutedHeight = Done /\ LastFinalizedHeight = Done
      /\ round < NumRounds
      /\ ExecutionDelay <= 1 => LastVerifiedHeight = LastExecutedHeight
      /\ ExecutionDelay >= 2 => LastVerifiedHeight = -1
  BY DEF PipelineInv, TypeOK, QueueInv, VerifiedInv, ProposalInv, AddBlock, Height, Idle
<1>2. /\ CurrentHeight' = CurrentHeight + 1
      /\ LastFinalizedHeight' = IF CurrentHeight > 0 THEN CurrentHeight
                                ELSE LastFinalizedHeight
      /\ PendingExecutions' = IF CurrentHeight > 0 THEN <<CurrentHeight>> ELSE <<>>
      /\ newBlock' = Genesis /\ pc' = "process"
      /\ UNCHANGED <<poolVars, leaderVars, execVars, SpeculativeStateRoot, executing,
                   pendingBlocks, specRoot, BlockVote, LastVerifiedHeight, round>>
  BY <1>1 DEF AddBlock
<1>3. /\ Blocks' \in Seq(Block) /\ Len(Blocks') = Len(Blocks) + 1
      /\ \A h \in 0 .. CurrentHeight - 1 : Blocks'[h + 1] = Blocks[h + 1]
      /\ CurrentHeight > 0 =>
           Blocks'[CurrentHeight + 1] =
               [Blocks[CurrentHeight + 1] EXCEPT !.Status = "Finalized"]
      /\ Blocks'[CurrentHeight + 2] = newBlock
  BY AddedBlocks
<1>4. TypeOK'
  <2>1. waiting' \subseteq Task /\ DOMAIN MempoolSnapshots' \subseteq Height
    BY SpeculationType DEF AddBlock, PipelineInv
  <2>2. Genesis \in Block
    BY GenesisType
  <2>3. PendingExecutions' \in Seq(Height) /\ CurrentHeight' \in Height
        /\ LastFinalizedHeight' \in Height \cup {-1}
    BY <1>1, <1>2 DEF Height, PipelineInv, TypeOK
  <2> QED BY <1>2, <1>3, <2>1, <2>2, <2>3 DEF PipelineInv, TypeOK, poolVars, genVars,
     takeVars, leaderVars,
          execVars, RootMap
<1>5. QueueInv'
  <2>1. LastFinalizedHeight' = Done' /\ Before' = Done
    BY <1>1, <1>2 DEF Done, Before
  <2>2. CurrentHeight' > 1 <=> CurrentHeight > 0
    BY <1>1, <1>2
  <2>3. PendingExecutions' = IF CurrentHeight' > 1 THEN <<CurrentHeight' - 1>> ELSE <<>>
    BY <1>1, <1>2, <2>2
  <2>4. UNCHANGED <<LastExecutedHeight, pendingBlocks, round>>
    BY <1>2 DEF execVars
  <2> QED BY SMTT(30), <1>1, <1>2, <1>3, <2>1, <2>3, <2>4 DEF QueueInv, Idle, Working
<1>6. VerifiedInv'
  BY <1>1, <1>2 DEF VerifiedInv, execVars
<1>7. BlocksInv'
  <2> SUFFICES ASSUME NEW h \in 1 .. CurrentHeight + 1
               PROVE  /\ Blocks'[h + 1].Status \in {"Finalized", "Verified"}
                            <=> h < CurrentHeight + 1
                      /\ h > LastExecutedHeight => Blocks'[h + 1].StateRoot = NoRoot
                      /\ h <= LastExecutedHeight => Blocks'[h + 1].StateRoot \in AccountMap
    BY <1>2 DEF BlocksInv, Above, BlockAt, execVars
  <2>1. h <= CurrentHeight =>
          /\ Blocks[h + 1].Status \in {"Finalized", "Verified"} <=> h < CurrentHeight
          /\ h > LastExecutedHeight => Blocks[h + 1].StateRoot = NoRoot
          /\ h <= LastExecutedHeight => Blocks[h + 1].StateRoot \in AccountMap
          /\ Blocks[h + 1] \in Block
    BY <1>1, ElementOfSeq DEF PipelineInv, TypeOK, BlocksInv, BlockAt, Above
  <2>2. CASE h = CurrentHeight + 1
    <3>1. h + 1 = CurrentHeight + 2
      BY <1>1, <2>2
    <3>2. Blocks'[h + 1].Status = "Voted" /\ Blocks'[h + 1].StateRoot = NoRoot
      BY <1>1, <1>3, <3>1
    <3>3. h > LastExecutedHeight /\ ~(h <= LastExecutedHeight) /\ ~(h < CurrentHeight + 1)
      BY <1>1, <2>2 DEF Done
    <3> QED BY <3>2, <3>3
  <2>3. CASE h = CurrentHeight
    <3>1. Blocks'[h + 1] = [Blocks[h + 1] EXCEPT !.Status = "Finalized"]
      BY <1>3, <2>3
    <3>2. Blocks'[h + 1].Status = "Finalized"
          /\ Blocks'[h + 1].StateRoot = Blocks[h + 1].StateRoot
      BY <1>1, <2>1, <2>3, <3>1 DEF Block
    <3>3. h <= CurrentHeight /\ h < CurrentHeight + 1
      BY <1>1, <2>3
    <3> QED BY <2>1, <3>2, <3>3
  <2>4. CASE h < CurrentHeight
    <3>1. h \in 0 .. CurrentHeight - 1 /\ h <= CurrentHeight /\ h < CurrentHeight + 1
      BY <1>1, <2>4
    <3> QED BY <1>3, <2>1, <2>4, <3>1
  <2> QED BY <1>1, <2>2, <2>3, <2>4
<1>8. RootsInv'
  <2> SUFFICES ASSUME NEW h \in DOMAIN PendingStateRoots
               PROVE  h \in 1 .. LastExecutedHeight
                      /\ PendingStateRoots[h] = Blocks'[h + 1].StateRoot
    BY <1>2 DEF RootsInv, BlockAt, execVars
  <2>1. h \in 1 .. LastExecutedHeight /\ PendingStateRoots[h] = Blocks[h + 1].StateRoot
    BY DEF PipelineInv, RootsInv, BlockAt
  <2>2. h \in 0 .. CurrentHeight - 1
    BY <1>1, <2>1 DEF Done
  <2> QED BY <1>3, <2>1, <2>2
<1> QED BY <1>2, <1>4, <1>5, <1>6, <1>7, <1>8 DEF PipelineInv, ProposalInv

-----------------------------------------------------------------------------
LEMMA PipelineInit ==
    ConfigAssumption /\ AccountsAssumption /\ Init => PipelineInv
<1> SUFFICES ASSUME ConfigAssumption, AccountsAssumption, Init PROVE PipelineInv
  OBVIOUS
<1>1. Genesis \in Block /\ Blocks = <<Genesis>> /\ Len(Blocks) = 1
  BY GenesisType DEF Init
<1>2. 0 \in Validator /\ NumRounds \in Nat
  BY DEF Validator, ConfigAssumption
<1>3. TypeOK
  BY <1>1, <1>2 DEF Init, TypeOK, RootMap, Height, AccountsAssumption
<1>4. QueueInv
  BY <1>1 DEF Init, QueueInv, Done, Before, Idle, Working
<1> QED BY <1>3, <1>4 DEF Init, PipelineInv, VerifiedInv, BlocksInv, RootsInv,
        ProposalInv, Above, Before

LEMMA PipelineStep ==
    ConfigAssumption /\ AccountsAssumption /\ PipelineInv /\ [Next]_vars => PipelineInv'
<1> SUFFICES ASSUME ConfigAssumption, AccountsAssumption, PipelineInv, [Next]_vars
             PROVE  PipelineInv'
  OBVIOUS
<1>1. CASE \E t \in TxSet : SubmitTransaction(t)
  BY <1>1, SubmitKeeps
<1>2. CASE Access
  BY <1>2, AccessKeeps
<1>3. CASE ProposeNothing \/ ProposalSigningFails
  BY <1>3, SkipRoundKeeps
<1>4. CASE ProposeBlock
  BY <1>4, ProposeBlockKeeps
<1>5. CASE VoteOnBlock
  BY <1>5, VoteKeeps
<1>6. CASE AddBlock
  BY <1>6, AddKeeps
<1>7. CASE ProcessPendingExecutions
  BY <1>7, ProcessKeeps
<1>8. CASE CheckSpeculation
  BY <1>8, CheckKeeps
<1>9. CASE UseSpeculation
  BY <1>9, UseKeeps
<1>10. CASE ExecuteFinalized
  BY <1>10, ExecuteFinalizedKeeps
<1>11. CASE VerifyBlock
  BY <1>11, VerifyKeeps
<1>12. CASE RotateLeader
  BY <1>12, RotateKeeps
<1>13. CASE \E g \in waiting : SpeculativeExecute(g)
  BY <1>13, SpeculativeExecuteKeeps
<1>14. CASE \E e \in executing : StoreSpeculation(e)
  BY <1>14, StoreSpeculationKeeps
<1>15. CASE ConcurrentMapAbort
  BY <1>15, AbortKeeps
<1>16. CASE UNCHANGED vars
  <2>1. TypeOK'
    <3>1. RootMap(PendingStateRoots)' /\ RootMap(SpeculativeStateRoot)'
      BY <1>16 DEF vars, execVars, specVars, PipelineInv, TypeOK, RootMap
    <3> QED BY SMTT(30), <1>16, <3>1 DEF vars, poolVars, genVars, takeVars, leaderVars,
            chainVars, execVars, specVars, localVars, PipelineInv, TypeOK
  <2> QED BY <1>16, <2>1 DEF vars, poolVars, genVars, takeVars, leaderVars,
     chainVars, execVars, specVars,
          localVars, PipelineInv, QueueInv, VerifiedInv, BlocksInv, RootsInv,
          ProposalInv, Above, BlockAt, Done, Before, Idle, Working, Quorum
<1> QED BY <1>1, <1>2, <1>3, <1>4, <1>5, <1>6, <1>7, <1>8, <1>9, <1>10, <1>11, <1>12,
        <1>13, <1>14, <1>15, <1>16 DEF Next, GeneratorStep, Access, MainStep,
        SpeculatorStep, Stopped

(* The inductive invariant: types, and where the queue of finalized        *)
(* blocks, the executed height and the proposal in hand stand for every    *)
(* position of main, whatever the generator and the goroutines do.         *)
THEOREM PipelineInvariant == Spec => []PipelineInv
<1>1. Init => PipelineInv
  BY PipelineInit, ConfigAssumption, AccountsAssumption
<1>2. PipelineInv /\ [Next]_vars => PipelineInv'
  BY PipelineStep, ConfigAssumption, AccountsAssumption
<1> QED BY <1>1, <1>2, PTL DEF Spec

(* Every variable of the node keeps its type.                              *)
THEOREM TypeCorrect == Spec => []TypeOK
BY PipelineInvariant, PTL DEF PipelineInv

(* Blocks are finalized, executed and verified in chain order, each has a  *)
(* state root exactly when it was executed, and the tip is never final.    *)
THEOREM ExecutionIsOrdered == Spec => []ExecutionFollowsFinality
<1>1. PipelineInv => ExecutionFollowsFinality
  <2> SUFFICES ASSUME PipelineInv PROVE ExecutionFollowsFinality
    OBVIOUS
  <2>1. CurrentHeight \in Nat /\ LastExecutedHeight \in {Done, Before}
        /\ LastFinalizedHeight = Done
    BY DEF PipelineInv, TypeOK, QueueInv, Height, Idle
  <2>2. LastVerifiedHeight <= LastExecutedHeight
    BY <2>1, ConfigAssumption DEF PipelineInv, QueueInv, VerifiedInv, ConfigAssumption,
       Done, Before
  <2>3. \A h \in Above : BlockAt(h).StateRoot = NoRoot <=> h > LastExecutedHeight
    BY <2>1, AccountsAssumption DEF PipelineInv, BlocksInv, AccountsAssumption, Above,
       Done, Before
  <2>4. \A h \in Above :
          BlockAt(h).Status \in {"Finalized", "Verified"} <=> h < CurrentHeight
    BY DEF PipelineInv, BlocksInv
  <2> QED BY <2>1, <2>2, <2>3, <2>4 DEF ExecutionFollowsFinality, Done, Before
<1> QED BY <1>1, PipelineInvariant, PTL

(* VerifyBlock is called once per block, when it has just been executed    *)
(* with one block on top of it, so that what CheckConsistency compares and *)
(* the README promises for every delay depends on it: with a delay of two  *)
(* or more nothing is ever verified (mc_verify finds the case of two), and *)
(* with less every block is when main leaves it.                           *)
THEOREM VerifiedOrNever ==
    Spec => [](IF ExecutionDelay >= 2 THEN LastVerifiedHeight = -1
               ELSE pc /= "verify" => LastVerifiedHeight = LastExecutedHeight)
<1>1. PipelineInv => IF ExecutionDelay >= 2 THEN LastVerifiedHeight = -1
                     ELSE pc /= "verify" => LastVerifiedHeight = LastExecutedHeight
  BY ConfigAssumption DEF PipelineInv, VerifiedInv, ConfigAssumption
<1> QED BY <1>1, PipelineInvariant, PTL

-----------------------------------------------------------------------------
(* What a signature covers, and the signatures.                            *)
SameHeader(b, c) ==
    /\ b.Height = c.Height /\ b.Hash = c.Hash /\ b.PreviousHash = c.PreviousHash
    /\ b.Proposer = c.Proposer /\ b.DelayedRoot = c.DelayedRoot
    /\ b.Transactions = c.Transactions /\ b.Signatures = c.Signatures

(* The block of height h keeps its header, and its root unless it has none. *)
Kept(h) ==
    /\ SameHeader(Blocks'[h + 1], Blocks[h + 1])
    /\ h = 0 \/ h <= LastExecutedHeight => Blocks'[h + 1].StateRoot = Blocks[h + 1].StateRoot

ChainExtended ==
    /\ pc = "add" /\ CurrentHeight' = CurrentHeight + 1
    /\ Blocks'[CurrentHeight + 2] = newBlock
    /\ UNCHANGED LastExecutedHeight

(* Execution of the block below the tip, the one after the latest executed. *)
ResultRecorded ==
    /\ CurrentHeight' = CurrentHeight /\ CurrentHeight >= 2
    /\ LastExecutedHeight = Before /\ LastExecutedHeight' = CurrentHeight - 1
    /\ LastFinalizedHeight = CurrentHeight - 1 /\ UNCHANGED LastFinalizedHeight
    /\ Blocks'[CurrentHeight].StateRoot \in AccountMap

ChainUndisturbed ==
    UNCHANGED <<CurrentHeight, LastExecutedHeight, LastFinalizedHeight>>

ChainEvolves ==
    /\ \A h \in 0 .. CurrentHeight : Kept(h)
    /\ ChainExtended \/ ResultRecorded \/ ChainUndisturbed

LEMMA RootKeepsHeader ==
    ASSUME NEW b \in Block, NEW r
    PROVE  SameHeader([b EXCEPT !.StateRoot = r], b)
BY DEF SameHeader, Block

LEMMA UnchangedKept ==
    ASSUME NEW h, Blocks'[h + 1] = Blocks[h + 1]
    PROVE  Kept(h)
BY DEF Kept, SameHeader

LEMMA AddEvolves ==
    ASSUME PipelineInv, AddBlock
    PROVE  ChainEvolves
<1>1. CurrentHeight \in Nat /\ CurrentHeight' = CurrentHeight + 1 /\ pc = "add"
      /\ UNCHANGED LastExecutedHeight
  BY DEF PipelineInv, TypeOK, Height, AddBlock, execVars
<1>2. /\ \A h \in 0 .. CurrentHeight - 1 : Blocks'[h + 1] = Blocks[h + 1]
      /\ CurrentHeight > 0 =>
           Blocks'[CurrentHeight + 1] =
               [Blocks[CurrentHeight + 1] EXCEPT !.Status = "Finalized"]
      /\ CurrentHeight = 0 => Blocks'[1] = Blocks[1]
      /\ Blocks'[CurrentHeight + 2] = newBlock
  BY AddedBlocks
<1>3. Blocks[CurrentHeight + 1] \in Block
  BY <1>1, BlockAtType DEF PipelineInv, BlockAt
<1>4. ASSUME NEW h \in 0 .. CurrentHeight PROVE Kept(h)
  <2>1. CASE h < CurrentHeight
    <3>1. h \in 0 .. CurrentHeight - 1
      BY <1>1, <2>1
    <3> QED BY <1>2, <3>1, UnchangedKept
  <2>2. CASE h = CurrentHeight /\ h > 0
    BY <1>2, <1>3, <2>2 DEF Kept, SameHeader, Block
  <2>3. CASE h = 0 /\ CurrentHeight = 0
    BY <1>2, <2>3, UnchangedKept
  <2> QED BY <1>1, <2>1, <2>2, <2>3
<1> QED BY <1>1, <1>2, <1>4 DEF ChainEvolves, ChainExtended

LEMMA RecordEvolves ==
    ASSUME PipelineInv, pc \in {"use", "execute"},
           NEW r \in AccountMap, RecordExecution(Pending, r),
           UNCHANGED <<CurrentHeight, LastFinalizedHeight>>
    PROVE  ChainEvolves
<1>1. /\ Pending = CurrentHeight - 1 /\ CurrentHeight \in Nat /\ CurrentHeight >= 2
      /\ Done = Pending /\ Pending + 1 = CurrentHeight
      /\ Before = IF Pending = 1 THEN -1 ELSE Pending - 1
  BY PendingIsBelowTip DEF Working
<1>2. /\ \A h \in 0 .. CurrentHeight :
           h /= Pending => Blocks'[h + 1] = Blocks[h + 1]
      /\ Blocks'[Pending + 1] = [Blocks[Pending + 1] EXCEPT !.StateRoot = r]
      /\ Blocks'[Pending + 1].StateRoot = r
      /\ LastExecutedHeight' = Pending
  BY RecordProperties
<1>3. LastExecutedHeight = Before /\ LastFinalizedHeight = Done
  BY DEF PipelineInv, QueueInv
<1>4. ASSUME NEW h \in 0 .. CurrentHeight PROVE Kept(h)
  <2>1. CASE h = Pending
    <3>1. Blocks[h + 1] \in Block
      BY BlockAtType DEF PipelineInv, BlockAt
    <3>2. ~(h = 0 \/ h <= LastExecutedHeight)
      BY <1>1, <1>3, <2>1
    <3> QED BY <1>2, <2>1, <3>1, <3>2, RootKeepsHeader DEF Kept
  <2>2. CASE h /= Pending
    BY <1>2, <2>2, UnchangedKept
  <2> QED BY <2>1, <2>2
<1> QED BY <1>1, <1>2, <1>3, <1>4 DEF ChainEvolves, ResultRecorded

LEMMA VerifyEvolves ==
    ASSUME PipelineInv, VerifyBlock
    PROVE  ChainEvolves
<1>1. pc = "verify" /\ ChainUndisturbed
  BY DEF VerifyBlock, ChainUndisturbed
<1>2. ASSUME NEW h \in 0 .. CurrentHeight PROVE Kept(h)
  <2>1. CASE Verifiable(Pending)
    <3>1. Verified(Pending)
      BY <2>1 DEF VerifyBlock
    <3>2. /\ \A k \in 0 .. CurrentHeight :
               k /= Pending => Blocks'[k + 1] = Blocks[k + 1]
          /\ Blocks'[Pending + 1] = [Blocks[Pending + 1] EXCEPT !.Status = "Verified"]
      BY <1>1, <3>1, VerifiedProperties
    <3>3. CASE h = Pending
      <4>1. Blocks[h + 1] \in Block
        BY BlockAtType DEF PipelineInv, BlockAt
      <4> QED BY <3>2, <3>3, <4>1 DEF Kept, SameHeader, Block
    <3>4. CASE h /= Pending
      BY <3>2, <3>4, UnchangedKept
    <3> QED BY <3>3, <3>4
  <2>2. CASE ~Verifiable(Pending)
    BY <2>2, UnchangedKept DEF VerifyBlock
  <2> QED BY <2>1, <2>2
<1> QED BY <1>1, <1>2 DEF ChainEvolves

LEMMA OthersLeaveChain ==
    ASSUME UNCHANGED <<Blocks, CurrentHeight, LastExecutedHeight, LastFinalizedHeight>>
    PROVE  ChainEvolves
BY UnchangedKept DEF ChainEvolves, ChainUndisturbed

LEMMA ChainStep ==
    PipelineInv /\ [Next]_vars => ChainEvolves
<1> SUFFICES ASSUME PipelineInv, [Next]_vars PROVE ChainEvolves
  OBVIOUS
<1>1. CASE AddBlock
  BY <1>1, AddEvolves
<1>2. CASE UseSpeculation
  <2>1. specRoot \in AccountMap /\ RecordExecution(Pending, specRoot) /\ pc = "use"
        /\ UNCHANGED <<CurrentHeight, LastFinalizedHeight>>
    BY <1>2 DEF UseSpeculation, PipelineInv, QueueInv
  <2> QED BY <2>1, RecordEvolves
<1>3. CASE ExecuteFinalized
  <2> DEFINE r == RootOf(Executed(BlockAt(Pending).Transactions))
  <2>1. RecordExecution(Pending, r) /\ pc = "execute"
        /\ UNCHANGED <<CurrentHeight, LastFinalizedHeight>>
    BY <1>3 DEF ExecuteFinalized
  <2>2. r \in AccountMap
    BY ExecutedType DEF PipelineInv, TypeOK
  <2> HIDE DEF r
  <2> QED BY <2>1, <2>2, RecordEvolves
<1>4. CASE VerifyBlock
  BY <1>4, VerifyEvolves
<1>5. CASE \/ Access \/ \E t \in TxSet : SubmitTransaction(t)
           \/ ProposeNothing \/ ProposalSigningFails \/ ProposeBlock \/ VoteOnBlock
           \/ ProcessPendingExecutions \/ CheckSpeculation \/ RotateLeader
           \/ SpeculatorStep \/ ConcurrentMapAbort \/ UNCHANGED vars
  <2>1. UNCHANGED <<Blocks, CurrentHeight, LastExecutedHeight, LastFinalizedHeight>>
    BY <1>5, AccessLeaves DEF nodeVars, SubmitTransaction, ProposeNothing,
       ProposalSigningFails, SkipRound,
       ProposeBlock, VoteOnBlock, ProcessPendingExecutions, CheckSpeculation,
       RotateLeader, SpeculatorStep, SpeculativeExecute, StoreSpeculation,
       ConcurrentMapAbort, vars, chainVars, execVars
  <2> QED BY <2>1, OthersLeaveChain
<1> QED BY <1>1, <1>2, <1>3, <1>4, <1>5 DEF Next, GeneratorStep, Access, MainStep, Stopped

-----------------------------------------------------------------------------
(* Once a block has a state root no step changes it, and its hash is the   *)
(* one it was added with: ExecuteBlock publishes a root once, and what     *)
(* VerifyBlock stores again is the same.                                   *)
THEOREM RootsAreFinal == Spec => PublishedRootsKept
<1> DEFINE Step == \A i \in 1 .. Len(Blocks) :
        /\ Blocks[i].StateRoot /= NoRoot => Blocks'[i].StateRoot = Blocks[i].StateRoot
        /\ Blocks'[i].Hash = Blocks[i].Hash
<1>1. PipelineInv /\ [Next]_vars => Step
  <2> SUFFICES ASSUME PipelineInv, [Next]_vars, NEW i \in 1 .. Len(Blocks)
               PROVE  /\ Blocks[i].StateRoot /= NoRoot
                             => Blocks'[i].StateRoot = Blocks[i].StateRoot
                      /\ Blocks'[i].Hash = Blocks[i].Hash
    OBVIOUS
  <2>1. CurrentHeight \in Nat /\ Len(Blocks) = CurrentHeight + 1
        /\ LastExecutedHeight \in Int
    BY DEF PipelineInv, TypeOK, QueueInv, Height
  <2> DEFINE h == i - 1
  <2>2. h \in 0 .. CurrentHeight /\ h + 1 = i
    BY <2>1
  <2>3. Kept(h)
    BY <2>2, ChainStep DEF ChainEvolves
  <2>4. Blocks[i].StateRoot /= NoRoot => h = 0 \/ h <= LastExecutedHeight
    <3>1. CASE h > LastExecutedHeight /\ h /= 0
      <4>1. h \in Above
        BY <2>1, <2>2, <3>1 DEF Above
      <4> QED BY <2>2, <3>1, <4>1 DEF PipelineInv, BlocksInv, BlockAt
    <3> QED BY <2>1, <2>2, <3>1
  <2> QED BY <2>2, <2>3, <2>4 DEF Kept, SameHeader
<1> QED BY <1>1, PipelineInvariant, PTL DEF Spec, PublishedRootsKept

-----------------------------------------------------------------------------
(* The chain only ever extends by one block, and then by the block in hand. *)
LEMMA HeightStep ==
    ASSUME PipelineInv, ChainEvolves
    PROVE  /\ CurrentHeight \in Nat
           /\ CurrentHeight' = CurrentHeight \/ ChainExtended
           /\ LastExecutedHeight' >= LastExecutedHeight
BY DEF PipelineInv, TypeOK, Height, ChainEvolves, ChainExtended, ResultRecorded,
       ChainUndisturbed, Before

Certified(h) ==
    /\ BlockAt(h).Height = h
    /\ BlockAt(h).PreviousHash = BlockAt(h - 1).Hash
    /\ BlockAt(h).Proposer \in BlockAt(h).Signatures
    /\ Quorum(Cardinality(BlockAt(h).Signatures))

(* Every block on the chain extends the one below it and carries the       *)
(* signatures of its proposer and of a quorum of distinct validators: the  *)
(* vote loop stops at the quorum, and nothing is added without it.         *)
THEOREM ChainIsCertified == Spec => []CertifiedChain
<1>1. Init => CertifiedChain
  BY DEF Init, CertifiedChain, Above
<1>2. PipelineInv /\ PipelineInv' /\ CertifiedChain /\ [Next]_vars => CertifiedChain'
  <2> SUFFICES ASSUME PipelineInv, PipelineInv', CertifiedChain, ChainEvolves,
                      NEW h \in Above'
               PROVE  Certified(h)'
    BY ChainStep DEF CertifiedChain, Certified, PipelineInv, QueueInv
  <2>1. /\ CurrentHeight \in Nat
        /\ CurrentHeight' = CurrentHeight \/ ChainExtended
        /\ h \in 1 .. CurrentHeight'
    BY HeightStep DEF Above
  <2>2. CASE h \in Above
    <3>1. h \in 0 .. CurrentHeight /\ h - 1 \in 0 .. CurrentHeight
      BY <2>1, <2>2 DEF Above
    <3>2. SameHeader(BlockAt(h)', BlockAt(h))
          /\ SameHeader(BlockAt(h - 1)', BlockAt(h - 1))
      BY <3>1 DEF ChainEvolves, Kept, BlockAt
    <3>3. Certified(h)
      BY <2>2 DEF CertifiedChain, Certified
    <3> QED BY <3>2, <3>3 DEF SameHeader, Certified, Quorum, BlockAt
  <2>3. CASE h \notin Above
    <3>1. h = CurrentHeight + 1 /\ ChainExtended
      BY <2>1, <2>3 DEF Above, ChainExtended
    <3>2. BlockAt(h)' = newBlock /\ SameHeader(BlockAt(h - 1)', BlockAt(h - 1))
      <4>1. h + 1 = CurrentHeight + 2 /\ h - 1 \in 0 .. CurrentHeight
        BY <2>1, <3>1
      <4>2. Kept(h - 1)
        BY <4>1 DEF ChainEvolves
      <4> QED BY <3>1, <4>1, <4>2 DEF ChainExtended, BlockAt, Kept
    <3>3. /\ newBlock.Height = h /\ newBlock.PreviousHash = BlockAt(h - 1).Hash
          /\ newBlock.Proposer \in newBlock.Signatures
          /\ Quorum(Cardinality(newBlock.Signatures))
      BY <2>1, <3>1 DEF ChainExtended, PipelineInv, ProposalInv
    <3> QED BY <3>2, <3>3 DEF SameHeader, Certified, Quorum, BlockAt
  <2> QED BY <2>2, <2>3
<1> QED BY <1>1, <1>2, PipelineInvariant, PTL DEF Spec

-----------------------------------------------------------------------------
(* The root a block carries.                                               *)

(* The same for the block in hand.                                         *)
ProposedRootInv ==
    pc \in {"vote", "add"} => newBlock.DelayedRoot = DelayedRootFor(newBlock.Height)

(* The block a delayed root is copied from is executed already, so that    *)
(* its root is there to stay.                                              *)
LEMMA RootSourceKept ==
    ASSUME ConfigAssumption, PipelineInv, ChainEvolves, ExecutionDelay >= 1,
           NEW h \in 1 .. CurrentHeight + 1, Idle \/ h <= CurrentHeight
    PROVE  DelayedRootFor(h)' = DelayedRootFor(h)
<1>1. CurrentHeight \in Nat /\ ExecutionDelay \in Nat /\ h \in Nat
  BY DEF PipelineInv, TypeOK, Height, ConfigAssumption
<1>2. LastExecutedHeight \in {Done, Before} /\ (Idle => LastExecutedHeight = Done)
  BY DEF PipelineInv, QueueInv, TypeOK, Idle
<1>3. CASE h > ExecutionDelay
  <2> DEFINE k == h - ExecutionDelay - 1
  <2>1. k \in 0 .. CurrentHeight
    BY <1>1, <1>3
  <2>2. k = 0 \/ k <= LastExecutedHeight
    BY <1>1, <1>2, <1>3 DEF Done, Before
  <2>3. BlockAt(k)'.StateRoot = BlockAt(k).StateRoot
    BY <2>1, <2>2 DEF ChainEvolves, Kept, BlockAt
  <2> QED BY <1>3, <2>3 DEF DelayedRootFor, BlockAt
<1>4. CASE ~(h > ExecutionDelay)
  BY <1>4 DEF DelayedRootFor
<1> QED BY <1>3, <1>4

LEMMA ProposedRootStep ==
    ASSUME PipelineInv, ProposedRootInv, [Next]_vars
    PROVE  ProposedRootInv'
<1>1. Blocks' = Blocks => \A h : DelayedRootFor(h)' = DelayedRootFor(h)
  BY DEF DelayedRootFor, BlockAt
<1>2. CASE ProposeBlock
  BY <1>1, <1>2 DEF ProposeBlock, NextProposal, ProposedRootInv, nodeVars,
     chainVars
<1>3. CASE VoteOnBlock
  <2>1. PICK sigs, status :
            newBlock' = [newBlock EXCEPT !.Signatures = sigs, !.Status = status]
    BY <1>3 DEF VoteOnBlock
  <2>2. newBlock'.DelayedRoot = newBlock.DelayedRoot
        /\ newBlock'.Height = newBlock.Height
    BY <2>1 DEF PipelineInv, TypeOK, Block
  <2> QED BY <1>1, <1>3, <2>2 DEF VoteOnBlock, ProposedRootInv, chainVars
<1>4. CASE \/ Access \/ \E t \in TxSet : SubmitTransaction(t)
           \/ SpeculatorStep \/ UNCHANGED vars
  <2>1. UNCHANGED <<Blocks, newBlock, pc>>
    BY <1>4, AccessLeaves DEF nodeVars, SubmitTransaction, SpeculatorStep,
       SpeculativeExecute, StoreSpeculation,
       vars, chainVars, localVars
  <2> QED BY <1>1, <2>1 DEF ProposedRootInv
<1>5. CASE \/ ProposeNothing \/ ProposalSigningFails \/ AddBlock
           \/ ProcessPendingExecutions \/ CheckSpeculation \/ UseSpeculation
           \/ ExecuteFinalized \/ VerifyBlock \/ RotateLeader \/ ConcurrentMapAbort
  <2>1. pc' \notin {"vote", "add"}
    BY <1>5 DEF ProposeNothing, ProposalSigningFails, SkipRound, AddBlock,
       ProcessPendingExecutions, CheckSpeculation, UseSpeculation, ExecuteFinalized,
       VerifyBlock, RotateLeader, ConcurrentMapAbort
  <2> QED BY <2>1 DEF ProposedRootInv
<1> QED BY <1>2, <1>3, <1>4, <1>5 DEF Next, GeneratorStep, Access, MainStep, Stopped

(* With a delay of at least one, the root ProposeBlock copies into block h *)
(* is that of block h - D - 1 in every later state too: nobody ever signs  *)
(* a root that is still to be filled in.                                   *)
THEOREM DelayedRootIsFinal == Spec => []DelayedRootStable
<1> DEFINE Inv == ProposedRootInv /\ DelayedRootStable
<1>1. Init => Inv
  BY DEF Init, ProposedRootInv, DelayedRootStable, Above
<1>2. PipelineInv /\ Inv /\ [Next]_vars => Inv'
  <2> SUFFICES ASSUME PipelineInv, Inv, [Next]_vars PROVE DelayedRootStable'
    BY ProposedRootStep
  <2> SUFFICES ASSUME ExecutionDelay >= 1, NEW h \in Above'
               PROVE  BlockAt(h)'.DelayedRoot = DelayedRootFor(h)'
    BY DEF DelayedRootStable, DelayedRootFor
  <2>1. /\ ChainEvolves /\ CurrentHeight \in Nat
        /\ CurrentHeight' = CurrentHeight \/ ChainExtended
        /\ h \in 1 .. CurrentHeight'
    BY ChainStep, HeightStep DEF Above
  <2>2. CASE h \in Above
    <3>1. h \in 1 .. CurrentHeight + 1 /\ h <= CurrentHeight /\ h \in 0 .. CurrentHeight
      BY <2>1, <2>2 DEF Above
    <3>2. DelayedRootFor(h)' = DelayedRootFor(h)
      BY <2>1, <3>1, RootSourceKept, ConfigAssumption
    <3>3. BlockAt(h)'.DelayedRoot = BlockAt(h).DelayedRoot
      BY <2>1, <3>1 DEF ChainEvolves, Kept, SameHeader, BlockAt
    <3>4. BlockAt(h).DelayedRoot = DelayedRootFor(h)
      BY <2>2 DEF DelayedRootStable, DelayedRootFor
    <3> QED BY <3>2, <3>3, <3>4
  <2>3. CASE h \notin Above
    <3>1. h = CurrentHeight + 1 /\ ChainExtended /\ Idle
      BY <2>1, <2>3 DEF Above, ChainExtended, Idle
    <3>2. DelayedRootFor(h)' = DelayedRootFor(h)
      BY <2>1, <3>1, RootSourceKept, ConfigAssumption
    <3>3. BlockAt(h)' = newBlock
      <4>1. h + 1 = CurrentHeight + 2
        BY <2>1, <3>1
      <4> QED BY <3>1, <4>1 DEF ChainExtended, BlockAt
    <3>4. newBlock.DelayedRoot = DelayedRootFor(h)
      BY <3>1 DEF ProposedRootInv, ChainExtended, PipelineInv, ProposalInv
    <3> QED BY <3>2, <3>3, <3>4
  <2> QED BY <2>2, <2>3
<1> QED BY <1>1, <1>2, PipelineInvariant, PTL DEF Spec

-----------------------------------------------------------------------------
(* The refinement.                                                         *)

LEMMA FunctionIsSeq ==
    ASSUME NEW n \in Nat, NEW S, NEW f \in [1 .. n -> S]
    PROVE  f \in Seq(S) /\ Len(f) = n
<1>1. f \in Seq(S)
  BY SeqDef
<1> QED BY <1>1, LenProperties

LEMMA LongerByOne ==
    ASSUME NEW n \in Nat, NEW S, NEW s, Len(s) = n,
           NEW t \in [1 .. n + 1 -> S], \A i \in 1 .. n : t[i] = s[i]
    PROVE  Abstract!Longer(s, t, S)
BY FunctionIsSeq DEF Abstract!Longer

HashLog == [h \in 1 .. CurrentHeight |-> BlockAt(h).Hash]
FinalCount == IF LastFinalizedHeight < 0 THEN 0 ELSE LastFinalizedHeight
RootLog == [h \in 1 .. ExecutedCount |-> BlockAt(h).StateRoot]

LEMMA LogTypes ==
    ASSUME PipelineInv
    PROVE  /\ HashLog \in [1 .. CurrentHeight -> Hash] /\ Len(HashLog) = CurrentHeight
           /\ ExecutedCount \in 0 .. CurrentHeight
           /\ RootLog \in [1 .. ExecutedCount -> AccountMap]
           /\ Len(RootLog) = ExecutedCount
<1>1. CurrentHeight \in Nat /\ LastExecutedHeight \in {Done, Before}
  BY DEF PipelineInv, TypeOK, QueueInv, Height, Idle
<1>2. HashLog \in [1 .. CurrentHeight -> Hash]
  BY <1>1, BlockAtType DEF PipelineInv, HashLog, Block
<1>3. ExecutedCount \in 0 .. CurrentHeight
  BY <1>1 DEF ExecutedCount, Done, Before
<1>4. RootLog \in [1 .. ExecutedCount -> AccountMap]
  BY <1>1, <1>3 DEF PipelineInv, BlocksInv, Above, RootLog, ExecutedCount, Done, Before
<1>5. Len(HashLog) = CurrentHeight
  BY <1>1, <1>2, FunctionIsSeq
<1>6. Len(RootLog) = ExecutedCount
  BY <1>3, <1>4, FunctionIsSeq
<1> QED BY <1>2, <1>3, <1>4, <1>5, <1>6

(* The part of both logs that was there before a step stays.               *)
LEMMA LogsKept ==
    ASSUME PipelineInv, ChainEvolves
    PROVE  /\ \A h \in 1 .. CurrentHeight : BlockAt(h)'.Hash = BlockAt(h).Hash
           /\ \A h \in 1 .. ExecutedCount : BlockAt(h)'.StateRoot = BlockAt(h).StateRoot
<1>1. CurrentHeight \in Nat /\ ExecutedCount \in 0 .. CurrentHeight
  BY LogTypes DEF PipelineInv, TypeOK, Height
<1>2. \A h \in 1 .. ExecutedCount : h \in 0 .. CurrentHeight /\ h <= LastExecutedHeight
  BY <1>1 DEF ExecutedCount
<1>3. \A h \in 0 .. CurrentHeight : Kept(h)
  BY DEF ChainEvolves
<1>4. \A h \in 0 .. CurrentHeight : Blocks'[h + 1].Hash = Blocks[h + 1].Hash
  BY <1>3 DEF Kept, SameHeader
<1>5. \A h \in 1 .. ExecutedCount : Blocks'[h + 1].StateRoot = Blocks[h + 1].StateRoot
  BY <1>2, <1>3 DEF Kept
<1>6. \A h \in 1 .. CurrentHeight : h \in 0 .. CurrentHeight
  BY <1>1
<1> QED BY <1>4, <1>5, <1>6 DEF BlockAt

LEMMA ExtendImplements ==
    ASSUME PipelineInv, PipelineInv', ChainEvolves, ChainExtended
    PROVE  /\ Abstract!Longer(HashLog, HashLog', Hash)
           /\ FinalCount' = Len(HashLog) /\ RootLog' = RootLog
<1>1. CurrentHeight \in Nat /\ CurrentHeight' = CurrentHeight + 1
  BY DEF ChainExtended, PipelineInv, TypeOK, Height
<1>2. HashLog' \in [1 .. CurrentHeight + 1 -> Hash] /\ Len(HashLog) = CurrentHeight
  <2>1. (HashLog \in [1 .. CurrentHeight -> Hash])'
    BY LogTypes, PTL
  <2> QED BY <1>1, <2>1, LogTypes
<1>3. \A h \in 1 .. CurrentHeight : HashLog'[h] = HashLog[h]
  BY <1>1, LogsKept DEF HashLog
<1>4. Abstract!Longer(HashLog, HashLog', Hash)
  BY <1>1, <1>2, <1>3, LongerByOne
<1>5. FinalCount' = CurrentHeight
  BY <1>1 DEF FinalCount, PipelineInv, QueueInv, Done
<1>6. RootLog' = RootLog
  BY LogsKept DEF ChainExtended, RootLog, ExecutedCount
<1> QED BY <1>2, <1>4, <1>5, <1>6

LEMMA RecordImplements ==
    ASSUME PipelineInv, PipelineInv', ChainEvolves, ResultRecorded
    PROVE  /\ Abstract!Longer(RootLog, RootLog', AccountMap)
           /\ Len(RootLog) < FinalCount
           /\ HashLog' = HashLog /\ FinalCount' = FinalCount
<1>1. /\ CurrentHeight \in Nat /\ CurrentHeight >= 2 /\ CurrentHeight' = CurrentHeight
      /\ ExecutedCount = CurrentHeight - 2 /\ ExecutedCount' = CurrentHeight - 1
      /\ FinalCount = CurrentHeight - 1 /\ FinalCount' = FinalCount
  BY DEF ResultRecorded, PipelineInv, TypeOK, Height, ExecutedCount, FinalCount, Before
<1>2. Len(RootLog) = ExecutedCount /\ RootLog' \in [1 .. ExecutedCount' -> AccountMap]
  <2>1. (RootLog \in [1 .. ExecutedCount -> AccountMap])'
    BY LogTypes, PTL
  <2> QED BY <2>1, LogTypes
<1>3. \A h \in 1 .. ExecutedCount : RootLog'[h] = RootLog[h]
  BY <1>1, LogsKept DEF RootLog
<1>4. ExecutedCount \in Nat /\ ExecutedCount' = ExecutedCount + 1
  BY <1>1
<1>5. Abstract!Longer(RootLog, RootLog', AccountMap)
  BY <1>2, <1>3, <1>4, LongerByOne
<1>6. HashLog' = HashLog
  BY <1>1, LogsKept DEF HashLog
<1> QED BY <1>1, <1>2, <1>5, <1>6

(* The node implements FinalityPipeline: every step of main, of the        *)
(* generator and of a goroutine extends the log and finalizes what was     *)
(* there, or executes the next final block, or changes nothing of this.    *)
THEOREM NodeImplementsPipeline == Spec => Pipeline
<1>1. Init => Abstract!PipelineInit
  BY SeqDef DEF Init, Abstract!PipelineInit, ExecutedCount
<1>2. PipelineInv /\ PipelineInv' /\ [Next]_vars
          => [Abstract!PipelineNext]_(Abstract!pipelineVars)
  <2> SUFFICES ASSUME PipelineInv, PipelineInv', [Next]_vars
               PROVE  [Abstract!PipelineNext]_(Abstract!pipelineVars)
    OBVIOUS
  <2>1. ChainEvolves
    BY ChainStep
  <2>2. CASE ChainExtended
    BY <2>1, <2>2, ExtendImplements
       DEF Abstract!PipelineNext, Abstract!Extend, HashLog, RootLog, FinalCount
  <2>3. CASE ResultRecorded
    BY <2>1, <2>3, RecordImplements
       DEF Abstract!PipelineNext, Abstract!Execute, HashLog, RootLog, FinalCount
  <2>4. CASE ChainUndisturbed
    <3>1. HashLog' = HashLog /\ RootLog' = RootLog /\ FinalCount' = FinalCount
      BY <2>1, <2>4, LogsKept DEF ChainUndisturbed, HashLog, RootLog, FinalCount,
         ExecutedCount
    <3> QED BY <3>1 DEF Abstract!pipelineVars, HashLog, RootLog, FinalCount
  <2> QED BY <2>1, <2>2, <2>3, <2>4 DEF ChainEvolves
<1> QED BY <1>1, <1>2, PipelineInvariant, PTL DEF Spec, Pipeline, Abstract!PipelineSpec

-----------------------------------------------------------------------------
(* What signing a block means.                                             *)

LEMMA ValidatorsFinite ==
    ASSUME ConfigAssumption
    PROVE  /\ Validator \subseteq Nat /\ IsFiniteSet(Validator)
           /\ Cardinality(Validator) = NumValidators
<1>1. NumValidators - 1 \in Int /\ 0 \in Int /\ NumValidators \in Nat \ {0}
  BY DEF ConfigAssumption
<1>2. IsFiniteSet(0 .. NumValidators - 1)
      /\ Cardinality(0 .. NumValidators - 1) =
             IF 0 > NumValidators - 1 THEN 0 ELSE (NumValidators - 1) - 0 + 1
  BY <1>1, FS_Interval
<1> QED BY <1>1, <1>2 DEF Validator

(* The last of a set of validators is ranked by their number.              *)
LEMMA LastIsRankedLast ==
    ASSUME ConfigAssumption, NEW able \in SUBSET Validator, able /= {}
    PROVE  \E v \in able : Rank(able, v) = Cardinality(able)
<1> DEFINE Below == {k \in Nat : NumValidators - k \in able}
           R == {ss \in Nat \X Nat : ss[1] < ss[2]}
<1>1. NumValidators \in Nat
  BY DEF ConfigAssumption
<1>2. Below \subseteq Nat /\ Below /= {}
  <2>1. PICK v \in able : TRUE
    OBVIOUS
  <2>2. v \in Nat /\ v <= NumValidators
    BY <1>1, <2>1 DEF Validator
  <2>3. NumValidators - v \in Nat /\ NumValidators - (NumValidators - v) = v
    BY <1>1, <2>2
  <2> QED BY <2>1, <2>3
<1>3. IsWellFoundedOn(R, Nat)
  BY NatLessThanWellFounded DEF OpToRel
<1>4. \A j, k \in Nat : <<j, k>> \notin R => k <= j
  OBVIOUS
<1> HIDE DEF R
<1>5. PICK k \in Below : \A j \in Below : <<j, k>> \notin R
  <2> HIDE DEF Below
  <2> QED BY <1>2, <1>3, WFMin
<1>6. PICK v \in able : v = NumValidators - k
  BY <1>5
<1>7. \A q \in able : q <= v
  <2> SUFFICES ASSUME NEW q \in able PROVE q <= v
    OBVIOUS
  <2>1. q \in Nat /\ q <= NumValidators
    BY <1>1 DEF Validator
  <2>2. PICK j \in Nat : j = NumValidators - q
    BY <1>1, <2>1
  <2>3. j \in Below
    BY <1>1, <2>1, <2>2
  <2>4. k <= j
    BY <1>4, <1>5, <2>3
  <2> QED BY <1>1, <1>5, <1>6, <2>1, <2>2, <2>4
<1>8. {q \in able : q <= v} = able
  BY <1>7
<1> QED BY <1>8 DEF Rank

(* A vote without quorum: everybody able to sign has signed.               *)
LEMMA WithoutQuorum ==
    ASSUME ConfigAssumption, NEW able \in SUBSET Validator, NEW proposer,
           proposer \notin able, ~QuorumReached(able)
    PROVE  /\ Voters(able) = able
           /\ able /= {} => ~Quorum(Cardinality({proposer} \cup able))
           /\ able = {} => Cardinality({proposer} \cup able) = 1
<1>1. Voters(able) = able
  BY DEF Voters, QuorumReached
<1>2. IsFiniteSet(able) /\ Cardinality(able) \in Nat
  BY ValidatorsFinite, FS_Subset, FS_CardinalityType
<1>3. Cardinality({proposer} \cup able) = Cardinality(able) + 1
  <2>1. {proposer} \cup able = able \cup {proposer}
    OBVIOUS
  <2> QED BY <1>2, <2>1, FS_AddElement
<1>4. CASE able /= {}
  <2>1. PICK v \in able : Rank(able, v) = Cardinality(able)
    BY <1>4, LastIsRankedLast
  <2>2. ~Quorum(1 + Cardinality(able))
    BY <2>1 DEF QuorumReached
  <2>3. 1 + Cardinality(able) = Cardinality(able) + 1
    BY <1>2
  <2> QED BY <1>1, <1>3, <1>4, <2>2, <2>3
<1>5. CASE able = {}
  <2>1. Cardinality(able) = 0
    BY <1>5, FS_EmptySet
  <2> QED BY <1>1, <1>3, <1>5, <2>1
<1> QED BY <1>4, <1>5

(* VoteOnBlock, by the set of validators able to sign.                     *)
LEMMA VoteCases ==
    ASSUME PipelineInv, VoteOnBlock
    PROVE  \E failing \in SUBSET (Validator \ {newBlock.Proposer}),
              able \in SUBSET Validator :
              /\ able = IF ValidBlock(newBlock)
                        THEN (Validator \ {newBlock.Proposer}) \ failing ELSE {}
              /\ SigningCanFail \/ failing = {}
              /\ newBlock.Proposer \notin able
              /\ newBlock'.Signatures = {newBlock.Proposer} \cup Voters(able)
              /\ newBlock'.Hash = newBlock.Hash /\ newBlock'.Height = newBlock.Height
              /\ newBlock'.Status = IF QuorumReached(able) THEN "Voted" ELSE "Proposed"
              /\ BlockVote' = [v \in Validator |->
                     IF v \in Voters(able) THEN BlockVote[v] \cup {newBlock.Hash}
                     ELSE BlockVote[v]]
              /\ pc' = IF QuorumReached(able) THEN "add" ELSE "rotate"
<1>1. newBlock \in Block /\ newBlock.Signatures = {newBlock.Proposer}
      /\ newBlock.Status = "Proposed"
  BY DEF VoteOnBlock, PipelineInv, TypeOK, ProposalInv
<1>2. PICK failing \in SUBSET (Validator \ {newBlock.Proposer}) :
        LET able == IF ValidBlock(newBlock)
                    THEN (Validator \ {newBlock.Proposer}) \ failing ELSE {}
            reached == QuorumReached(able)
        IN  /\ SigningCanFail \/ failing = {}
            /\ newBlock' = [newBlock EXCEPT
                   !.Signatures = @ \cup Voters(able),
                   !.Status = IF reached THEN "Voted" ELSE @]
            /\ BlockVote' = [v \in Validator |->
                   IF v \in Voters(able) THEN BlockVote[v] \cup {newBlock.Hash}
                   ELSE BlockVote[v]]
            /\ pc' = IF reached THEN "add" ELSE "rotate"
  BY DEF VoteOnBlock
<1>3. PICK able \in SUBSET Validator :
          able = IF ValidBlock(newBlock)
                 THEN (Validator \ {newBlock.Proposer}) \ failing ELSE {}
  OBVIOUS
<1>4. /\ newBlock' = [newBlock EXCEPT
             !.Signatures = @ \cup Voters(able),
             !.Status = IF QuorumReached(able) THEN "Voted" ELSE @]
      /\ BlockVote' = [v \in Validator |->
             IF v \in Voters(able) THEN BlockVote[v] \cup {newBlock.Hash}
             ELSE BlockVote[v]]
      /\ pc' = IF QuorumReached(able) THEN "add" ELSE "rotate"
      /\ SigningCanFail \/ failing = {}
  BY <1>2, <1>3
<1>5. newBlock.Proposer \notin able
  BY <1>3
<1>6. /\ newBlock'.Signatures = {newBlock.Proposer} \cup Voters(able)
      /\ newBlock'.Hash = newBlock.Hash /\ newBlock'.Height = newBlock.Height
      /\ newBlock'.Status = IF QuorumReached(able) THEN "Voted" ELSE "Proposed"
  BY <1>1, <1>4 DEF Block
<1> QED BY <1>3, <1>4, <1>5, <1>6

(* Between AddBlock and the end of its round main has no block in hand.    *)
InHandInv ==
    /\ pc = "process" \/ Working => newBlock = Genesis
    /\ SignedMeansVoted

LEMMA InHandStep ==
    ASSUME ConfigAssumption, PipelineInv, ~Quorum(1), InHandInv, [Next]_vars
    PROVE  InHandInv'
<1>1. CASE VoteOnBlock
  <2>1. pc' \in {"add", "rotate"}
    BY <1>1 DEF VoteOnBlock
  <2>2. ASSUME pc' = "rotate" PROVE ~Quorum(Cardinality(newBlock'.Signatures))
    <3>1. PICK able \in SUBSET Validator :
              /\ newBlock.Proposer \notin able
              /\ newBlock'.Signatures = {newBlock.Proposer} \cup Voters(able)
              /\ pc' = IF QuorumReached(able) THEN "add" ELSE "rotate"
      BY <1>1, VoteCases
    <3>2. ~QuorumReached(able)
      BY <2>2, <3>1
    <3> QED BY <3>1, <3>2, WithoutQuorum
  <2> QED BY <2>1, <2>2 DEF InHandInv, SignedMeansVoted, Working, Quorum
<1>2. CASE \/ Access \/ \E t \in TxSet : SubmitTransaction(t)
           \/ SpeculatorStep \/ UNCHANGED vars
  <2>1. UNCHANGED <<newBlock, pc>>
    BY <1>2, AccessLeaves DEF nodeVars, SubmitTransaction, SpeculatorStep,
       SpeculativeExecute, StoreSpeculation,
       vars, localVars
  <2> QED BY <2>1 DEF InHandInv, SignedMeansVoted, Working, Quorum
<1>3. CASE \/ ProposeNothing \/ ProposalSigningFails \/ ProposeBlock \/ AddBlock
           \/ RotateLeader
  <2>1. pc' \in {"propose", "vote"} \/ (pc' = "process" /\ newBlock' = Genesis)
    BY <1>3 DEF ProposeNothing, ProposalSigningFails, SkipRound, ProposeBlock, AddBlock,
       RotateLeader
  <2> QED BY <2>1 DEF InHandInv, SignedMeansVoted, Working
<1>4. CASE \/ ProcessPendingExecutions \/ CheckSpeculation \/ UseSpeculation
           \/ ExecuteFinalized \/ VerifyBlock \/ ConcurrentMapAbort
  <2>1. (pc = "process" \/ Working) /\ UNCHANGED newBlock
    BY <1>4 DEF ProcessPendingExecutions, CheckSpeculation, UseSpeculation,
       ExecuteFinalized, VerifyBlock, ConcurrentMapAbort, Working, localVars
  <2> QED BY <2>1 DEF InHandInv, SignedMeansVoted, Genesis
<1> QED BY <1>1, <1>2, <1>3, <1>4 DEF Next, GeneratorStep, Access, MainStep, Stopped

(* With a quorum of more than one validator, a block that enough of them   *)
(* signed has been voted: the vote loop only stops short of a quorum when  *)
(* nobody is left to sign.  Where one signature is a quorum this is false, *)
(* since the test comes after somebody else's vote.                        *)
THEOREM SignedIsVoted == ASSUME ~Quorum(1) PROVE Spec => []SignedMeansVoted
<1>1. Init => InHandInv
  BY DEF Init, InHandInv, SignedMeansVoted, Working
<1>2. PipelineInv /\ InHandInv /\ [Next]_vars => InHandInv'
  BY InHandStep, ConfigAssumption
<1>3. InHandInv => SignedMeansVoted
  BY DEF InHandInv
<1> QED BY <1>1, <1>2, <1>3, PipelineInvariant, PTL DEF Spec

-----------------------------------------------------------------------------
(* What speculation needs and what it disturbs: the snapshots that         *)
(* validate it, and what holds of the node when it is off.                 *)

(* takeMempoolSnapshot drops no snapshot that is still needed: with a      *)
(* horizon of at least one block, every block still to be executed has its *)
(* snapshot when validateSpeculativeResults asks for it.                   *)
THEOREM SnapshotsLastLongEnough == Spec => []SnapshotsSuffice
<1>1. Init => SnapshotsSuffice
  BY DEF Init, SnapshotsSuffice, Above
<1>2. PipelineInv /\ SnapshotsSuffice /\ [Next]_vars => SnapshotsSuffice'
  <2> SUFFICES ASSUME PipelineInv, SnapshotsSuffice, [Next]_vars,
                      SpeculativeEnabled, SnapshotHorizon >= 1,
                      NEW h \in Above', h > LastExecutedHeight'
               PROVE  h \in DOMAIN MempoolSnapshots'
    BY DEF SnapshotsSuffice
  <2>1. /\ CurrentHeight \in Nat /\ LastExecutedHeight' >= LastExecutedHeight
        /\ LastExecutedHeight \in Int /\ LastExecutedHeight' \in Int
        /\ SnapshotHorizon \in Nat /\ h \in 1 .. CurrentHeight'
    <3>1. ChainEvolves
      BY ChainStep
    <3>2. LastExecutedHeight \in Int /\ LastExecutedHeight' \in Int
      BY <3>1 DEF PipelineInv, TypeOK, Height, ChainEvolves, ChainExtended,
         ResultRecorded, ChainUndisturbed
    <3> QED BY <3>1, <3>2, HeightStep, ConfigAssumption DEF Above, ConfigAssumption
  <2>2. h \in Above => h \in DOMAIN MempoolSnapshots
    BY <2>1 DEF SnapshotsSuffice, Above
  <2>3. CASE AddBlock
    <3>1. /\ CurrentHeight' = CurrentHeight + 1 /\ newBlock.Height = CurrentHeight + 1
          /\ LastExecutedHeight = Done /\ LastExecutedHeight' = Done
      BY <2>3 DEF AddBlock, PipelineInv, QueueInv, ProposalInv, Idle, execVars
    <3>2. DOMAIN MempoolSnapshots' =
              {k \in DOMAIN MempoolSnapshots \cup {CurrentHeight + 1} :
                  k >= (CurrentHeight + 1) - SnapshotHorizon}
      BY <2>3, <3>1 DEF AddBlock, SpeculateOn, SnapshotsAfter, Put, Keep
    <3>3. h >= (CurrentHeight + 1) - SnapshotHorizon
      BY <2>1, <3>1 DEF Done
    <3>4. h \in Above \/ h = CurrentHeight + 1
      BY <2>1, <3>1 DEF Above
    <3> QED BY <2>2, <3>2, <3>3, <3>4
  <2>4. CASE ~AddBlock
    <3>1. UNCHANGED <<CurrentHeight, MempoolSnapshots>>
      BY <2>4, AccessLeaves DEF Next, GeneratorStep, Access, nodeVars, genVars,
         MainStep, SpeculatorStep, Stopped, SubmitTransaction,
         ProposeNothing, ProposalSigningFails, SkipRound, ProposeBlock, VoteOnBlock,
         ProcessPendingExecutions, CheckSpeculation, UseSpeculation, ExecuteFinalized,
         VerifyBlock, RotateLeader, SpeculativeExecute, StoreSpeculation,
         ConcurrentMapAbort, vars, chainVars
    <3> QED BY <2>2, <3>1 DEF Above
  <2> QED BY <2>3, <2>4
<1> QED BY <1>1, <1>2, PipelineInvariant, PTL DEF Spec

-----------------------------------------------------------------------------
(* Without speculation main is alone.                                      *)
QuietInv == waiting = {} /\ executing = {} /\ pc \notin {"use", "crashed"}

LEMMA QuietStep ==
    ASSUME ~SpeculativeEnabled, QuietInv, [Next]_vars
    PROVE  QuietInv'
<1>1. CASE AddBlock
  BY <1>1 DEF AddBlock, SpeculateOn, QuietInv
<1>2. CASE CheckSpeculation
  BY <1>2 DEF CheckSpeculation, Usable, QuietInv, specVars
<1>3. CASE SpeculatorStep \/ ConcurrentMapAbort \/ UseSpeculation
  BY <1>3 DEF SpeculatorStep, ConcurrentMapAbort, UseSpeculation, QuietInv
<1>4. CASE \/ Access \/ \E t \in TxSet : SubmitTransaction(t)
           \/ ProposeNothing \/ ProposalSigningFails \/ ProposeBlock \/ VoteOnBlock
           \/ ProcessPendingExecutions \/ ExecuteFinalized \/ VerifyBlock
           \/ RotateLeader \/ UNCHANGED vars
  <2>1. UNCHANGED <<waiting, executing>>
    BY <1>4, AccessLeaves DEF nodeVars, SubmitTransaction, ProposeNothing,
       ProposalSigningFails, SkipRound,
       ProposeBlock, VoteOnBlock, ProcessPendingExecutions, ExecuteFinalized,
       VerifyBlock, RotateLeader, vars, specVars
  <2>2. pc' = pc \/ pc' \notin {"use", "crashed"}
    BY <1>4, AccessLeaves DEF nodeVars, SubmitTransaction, ProposeNothing,
       ProposalSigningFails, SkipRound,
       ProposeBlock, VoteOnBlock, ProcessPendingExecutions, ExecuteFinalized,
       VerifyBlock, RotateLeader, vars
  <2> QED BY <2>1, <2>2 DEF QuietInv
<1> QED BY <1>1, <1>2, <1>3, <1>4 DEF Next, GeneratorStep, Access, MainStep, Stopped

LEMMA QuietInvariant == ASSUME ~SpeculativeEnabled PROVE Spec => []QuietInv
<1>1. Init => QuietInv
  BY DEF Init, QuietInv
<1>2. QuietInv /\ [Next]_vars => QuietInv'
  BY QuietStep
<1> QED BY <1>1, <1>2, PTL DEF Spec

-----------------------------------------------------------------------------
(* What executing a set of transactions may change.                        *)
LEMMA EffectsAreOwn ==
    ASSUME NEW S, NEW n \in AccountName, Executed(S)[n] /= State[n]
    PROVE  n \in NamesOf(S)
<1>1. UseParallel(S)
  BY DEF Executed, SequentialResult
<1> DEFINE due == {t \in TxsAt(S) : CanExecute(State, t)}
           opened == OpenedNames(due, Cardinality(S), MinParallelBatchSize)
<1>2. Executed(S)[n] = IF n \in opened /\ State[n] = NoAccount THEN ZeroAccount
                       ELSE State[n]
  BY <1>1 DEF Executed, BatchResult
<1>3. n \in opened
  BY <1>2
<1> HIDE DEF due
<1>4. \E t \in due : n.addr \in {t.Sender, t.Recipient}
  <2>1. CASE \E key \in UNION {WriteKeys(t) : t \in due} : n = ParsedName(key)
    <3>0. PICK t \in due : \E key \in WriteKeys(t) : n = ParsedName(key)
      BY <2>1
    <3>1. PICK key \in WriteKeys(t) : n = ParsedName(key)
      BY <3>0
    <3>2. key[1] \in {t.Sender, t.Recipient}
      BY DEF WriteKeys
    <3>3. n.addr = key[1]
      BY <3>1 DEF ParsedName
    <3> QED BY <3>2, <3>3
  <2>2. CASE \E t \in due : n = Plain(t.Recipient)
    <3>1. PICK t \in due : n = Plain(t.Recipient)
      BY <2>2
    <3>2. n.addr = t.Recipient
      BY <3>1 DEF Plain
    <3> QED BY <3>2
  <2>3. \/ n \in {ParsedName(key) : key \in UNION {WriteKeys(t) : t \in due}}
        \/ n \in {Plain(t.Recipient) : t \in due}
    BY <1>3 DEF OpenedNames
  <2> QED BY <2>1, <2>2, <2>3
<1>5. \A t \in due : t \in TxsAt(S)
  BY DEF due
<1> QED BY <1>4, <1>5 DEF NamesOf

(* The accounts are those of the latest executed block.                    *)
StateInv == State = IF LastExecutedHeight < 1 THEN InitialAccounts
                    ELSE BlockAt(LastExecutedHeight).StateRoot

(* Names once involved stay so: accepted only grows.                       *)
LEMMA NamesKept ==
    ASSUME PipelineInv, [Next]_vars, NEW h \in 0 .. CurrentHeight,
           BlockAt(h).Transactions \subseteq 1 .. Len(accepted), ChainEvolves
    PROVE  NamesOf(BlockAt(h).Transactions) = NamesOf(BlockAt(h).Transactions)'
<1>1. BlockAt(h)'.Transactions = BlockAt(h).Transactions
  BY DEF ChainEvolves, Kept, SameHeader, BlockAt
<1>2. accepted' = accepted \/ \E t \in TxSet : accepted' = Append(accepted, t)
  BY AccessLeaves DEF Next, GeneratorStep, Access, nodeVars, genVars, MainStep,
     SpeculatorStep, Stopped, SubmitTransaction,
     ProposeNothing, ProposalSigningFails, SkipRound, ProposeBlock, VoteOnBlock,
        AddBlock,
     ProcessPendingExecutions, CheckSpeculation, UseSpeculation, ExecuteFinalized,
     VerifyBlock, RotateLeader, SpeculativeExecute, StoreSpeculation,
     ConcurrentMapAbort, vars, poolVars, genVars, takeVars
<1>3. \A p \in 1 .. Len(accepted) : accepted'[p] = accepted[p]
  <2>1. CASE \E t \in TxSet : accepted' = Append(accepted, t)
    <3>1. PICK t \in TxSet : accepted' = Append(accepted, t)
      BY <2>1
    <3>2. accepted \in Seq(TxSet)
      BY DEF PipelineInv, TypeOK
    <3> QED BY <3>1, <3>2, AppendProperties
  <2> QED BY <1>2, <2>1
<1> QED BY <1>1, <1>3 DEF NamesOf, TxsAt

(* The positions in blocks are positions of the log of submissions.        *)
PositionsInv ==
    /\ newBlock.Transactions \subseteq 1 .. Len(accepted)
    /\ \A h \in 0 .. CurrentHeight : BlockAt(h).Transactions \subseteq 1 .. Len(accepted)

LEMMA LogGrows ==
    ASSUME PipelineInv, [Next]_vars
    PROVE  1 .. Len(accepted) \subseteq 1 .. Len(accepted')
<1>1. CASE \E t \in TxSet : SubmitTransaction(t)
  <2>1. PICK t \in TxSet : accepted' = Append(accepted, t)
    BY <1>1 DEF SubmitTransaction
  <2>2. accepted \in Seq(TxSet)
    BY DEF PipelineInv, TypeOK
  <2>3. Len(accepted') = Len(accepted) + 1 /\ Len(accepted) \in Nat
    BY <2>1, <2>2, AppendProperties
  <2> QED BY <2>3
<1>2. CASE ~\E t \in TxSet : SubmitTransaction(t)
  BY <1>2, AccessLeaves DEF Next, GeneratorStep, Access, nodeVars, genVars, MainStep,
     SpeculatorStep, Stopped,
     ProposeNothing, ProposalSigningFails, SkipRound, ProposeBlock, VoteOnBlock,
        AddBlock,
     ProcessPendingExecutions, CheckSpeculation, UseSpeculation, ExecuteFinalized,
     VerifyBlock, RotateLeader, SpeculativeExecute, StoreSpeculation,
     ConcurrentMapAbort, vars, poolVars, genVars, takeVars
<1> QED BY <1>1, <1>2

LEMMA PositionsStep ==
    ASSUME PipelineInv, PositionsInv, [Next]_vars
    PROVE  PositionsInv'
<1>1. newBlock'.Transactions \subseteq 1 .. Len(accepted')
  <2>1. CASE ProposeBlock
    <3>1. newBlock'.Transactions = txsToInclude /\ accepted' = accepted
      BY <2>1 DEF ProposeBlock, NextProposal, genVars
    <3> QED BY <3>1 DEF PipelineInv, TypeOK
  <2>2. CASE VoteOnBlock
    <3>1. PICK sigs, status :
              newBlock' = [newBlock EXCEPT !.Signatures = sigs, !.Status = status]
      BY <2>2 DEF VoteOnBlock
    <3>2. newBlock'.Transactions = newBlock.Transactions
      BY <3>1 DEF PipelineInv, TypeOK, Block
    <3> QED BY <3>2, LogGrows DEF PositionsInv
  <2>3. CASE AddBlock \/ RotateLeader
    BY <2>3 DEF AddBlock, RotateLeader, Genesis
  <2>4. CASE ~(ProposeBlock \/ VoteOnBlock \/ AddBlock \/ RotateLeader)
    <3>1. newBlock' = newBlock
      BY <2>4, AccessLeaves DEF Next, GeneratorStep, Access, nodeVars, genVars,
         MainStep, SpeculatorStep, Stopped, SubmitTransaction,
         ProposeNothing, ProposalSigningFails, SkipRound, ProcessPendingExecutions,
         CheckSpeculation, UseSpeculation, ExecuteFinalized, VerifyBlock,
         SpeculativeExecute, StoreSpeculation, ConcurrentMapAbort, vars, localVars
    <3> QED BY <3>1, LogGrows DEF PositionsInv
  <2> QED BY <2>1, <2>2, <2>3, <2>4
<1>2. ASSUME NEW h \in 0 .. CurrentHeight'
      PROVE  BlockAt(h)'.Transactions \subseteq 1 .. Len(accepted')
  <2>1. ChainEvolves /\ CurrentHeight \in Nat
        /\ (CurrentHeight' = CurrentHeight \/ ChainExtended)
    BY ChainStep, HeightStep
  <2>2. CASE h \in 0 .. CurrentHeight
    <3>1. BlockAt(h)'.Transactions = BlockAt(h).Transactions
      BY <2>1, <2>2 DEF ChainEvolves, Kept, SameHeader, BlockAt
    <3> QED BY <2>2, <3>1, LogGrows DEF PositionsInv
  <2>3. CASE h \notin 0 .. CurrentHeight
    <3>1. h + 1 = CurrentHeight + 2 /\ ChainExtended
      BY <2>1, <2>3 DEF ChainExtended
    <3>2. BlockAt(h)' = newBlock
      BY <3>1 DEF ChainExtended, BlockAt
    <3> QED BY <3>2, LogGrows DEF PositionsInv
  <2> QED BY <2>2, <2>3
<1> QED BY <1>1, <1>2 DEF PositionsInv

(* Without speculation only ExecuteFinalized touches the accounts, and it  *)
(* publishes them as the root of the next block.                           *)
LEMMA ExecutedStep ==
    ASSUME PipelineInv, QuietInv, [Next]_vars
    PROVE  \/ UNCHANGED <<State, LastExecutedHeight>>
           \/ /\ pc = "execute" /\ Pending \in 1 .. CurrentHeight
              /\ LastExecutedHeight = (IF Pending = 1 THEN -1 ELSE Pending - 1)
              /\ LastExecutedHeight' = Pending
              /\ Blocks'[Pending + 1].StateRoot = State'
              /\ State' = Executed(BlockAt(Pending).Transactions)
<1>1. CASE ExecuteFinalized
  <2> DEFINE r == Executed(BlockAt(Pending).Transactions)
  <2>1. RecordExecution(Pending, r) /\ pc = "execute" /\ State' = r
    BY <1>1 DEF ExecuteFinalized, RootOf, Committed
  <2>2. r \in AccountMap
    BY ExecutedType DEF PipelineInv, TypeOK
  <2>3. /\ Pending = CurrentHeight - 1 /\ CurrentHeight \in Nat /\ CurrentHeight >= 2
        /\ Before = IF Pending = 1 THEN -1 ELSE Pending - 1
    BY <2>1, PendingIsBelowTip DEF Working
  <2>4. Blocks'[Pending + 1].StateRoot = r /\ LastExecutedHeight' = Pending
    BY <2>1, <2>2, RecordProperties
  <2>5. LastExecutedHeight = Before
    BY <2>1 DEF PipelineInv, QueueInv
  <2> QED BY <2>1, <2>3, <2>4, <2>5
<1>2. CASE ~ExecuteFinalized
  BY <1>2, AccessLeaves DEF QuietInv, Next, GeneratorStep, Access, nodeVars, genVars,
     MainStep, SpeculatorStep, Stopped, SubmitTransaction,
     ProposeNothing, ProposalSigningFails, SkipRound, ProposeBlock, VoteOnBlock,
        AddBlock,
     ProcessPendingExecutions, CheckSpeculation, UseSpeculation,
     VerifyBlock, RotateLeader, ConcurrentMapAbort, vars, execVars
<1> QED BY <1>1, <1>2

LEMMA ExecutedRange ==
    PipelineInv => /\ CurrentHeight \in Nat
                   /\ LastExecutedHeight \in {-1} \cup 1 .. CurrentHeight
BY DEF PipelineInv, TypeOK, QueueInv, Height, Idle, Done, Before

LEMMA StateStep ==
    ASSUME PipelineInv, QuietInv, StateInv, [Next]_vars
    PROVE  StateInv'
<1>1. ChainEvolves /\ CurrentHeight \in Nat
      /\ LastExecutedHeight \in {-1} \cup 1 .. CurrentHeight
  BY ChainStep, ExecutedRange
<1>2. CASE UNCHANGED <<State, LastExecutedHeight>>
  <2>1. CASE LastExecutedHeight = -1
    BY <1>2, <2>1 DEF StateInv, BlockAt
  <2>2. CASE LastExecutedHeight \in 1 .. CurrentHeight
    <3>1. Blocks'[LastExecutedHeight + 1].StateRoot = Blocks[LastExecutedHeight + 1].StateRoot
      BY <1>1, <2>2 DEF ChainEvolves, Kept
    <3>2. State = Blocks[LastExecutedHeight + 1].StateRoot
      BY <2>2 DEF StateInv, BlockAt
    <3>3. State' = Blocks'[LastExecutedHeight' + 1].StateRoot
      BY <1>2, <3>1, <3>2
    <3>4. LastExecutedHeight' \in Int /\ LastExecutedHeight' >= 1
      BY <1>1, <1>2, <2>2
    <3> QED BY <3>3, <3>4 DEF StateInv, BlockAt
  <2> QED BY <1>1, <2>1, <2>2
<1>3. CASE ~UNCHANGED <<State, LastExecutedHeight>>
  <2>1. /\ LastExecutedHeight' \in Int /\ LastExecutedHeight' >= 1
        /\ State' = Blocks'[LastExecutedHeight' + 1].StateRoot
    BY <1>1, <1>3, ExecutedStep
  <2> QED BY <2>1 DEF StateInv, BlockAt
<1> QED BY <1>2, <1>3

(* What a step leaves of the comparison of two executed blocks.            *)
LEMMA OwnedKept ==
    ASSUME PipelineInv, PositionsInv, OwnEffectsOnly, [Next]_vars,
           NEW h \in 1 .. LastExecutedHeight
    PROVE  \A n \in AccountName :
               BlockAt(h)'.StateRoot[n] /= AccountsBefore(h)'[n]
                   => n \in NamesOf(BlockAt(h).Transactions)'
<1>1. /\ ChainEvolves /\ CurrentHeight \in Nat /\ h \in 1 .. CurrentHeight
      /\ h - 1 \in 0 .. CurrentHeight /\ h \in 0 .. CurrentHeight
      /\ h <= LastExecutedHeight /\ h - 1 <= LastExecutedHeight
  BY ChainStep, ExecutedRange
<1>2. BlockAt(h)'.StateRoot = BlockAt(h).StateRoot
  BY <1>1 DEF ChainEvolves, Kept, BlockAt
<1>3. AccountsBefore(h)' = AccountsBefore(h)
  BY <1>1 DEF ChainEvolves, Kept, BlockAt, AccountsBefore
<1>4. NamesOf(BlockAt(h).Transactions)' = NamesOf(BlockAt(h).Transactions)
  BY <1>1, NamesKept DEF PositionsInv
<1> QED BY <1>2, <1>3, <1>4 DEF OwnEffectsOnly

(* The block just executed, against the accounts it was executed on.       *)
LEMMA NewlyOwned ==
    ASSUME PipelineInv, QuietInv, PositionsInv, StateInv, [Next]_vars,
           ~UNCHANGED <<State, LastExecutedHeight>>, NEW k, k = Pending
    PROVE  \A n \in AccountName :
               BlockAt(k)'.StateRoot[n] /= AccountsBefore(k)'[n]
                   => n \in NamesOf(BlockAt(k).Transactions)'
<1>1. /\ k \in 1 .. CurrentHeight
      /\ LastExecutedHeight = (IF k = 1 THEN -1 ELSE k - 1)
      /\ Blocks'[k + 1].StateRoot = Executed(BlockAt(k).Transactions)
  BY ExecutedStep
<1>2. ChainEvolves /\ CurrentHeight \in Nat
  BY ChainStep, ExecutedRange
<1>3. AccountsBefore(k)' = State
  <2>1. CASE k = 1
    BY <1>1, <2>1 DEF StateInv, AccountsBefore
  <2>2. CASE k /= 1
    <3>1. LastExecutedHeight = k - 1 /\ k - 1 \in 0 .. CurrentHeight /\ k - 1 >= 1
      BY <1>1, <1>2, <2>2
    <3>2. State = BlockAt(k - 1).StateRoot
      BY <3>1 DEF StateInv
    <3>3. BlockAt(k - 1)'.StateRoot = BlockAt(k - 1).StateRoot
      BY <1>2, <3>1 DEF ChainEvolves, Kept, BlockAt
    <3> QED BY <2>2, <3>2, <3>3 DEF AccountsBefore
  <2> QED BY <2>1, <2>2
<1>4. NamesOf(BlockAt(k).Transactions)' = NamesOf(BlockAt(k).Transactions)
  <2>1. k \in 0 .. CurrentHeight
    BY <1>1, <1>2
  <2> QED BY <1>2, <2>1, NamesKept DEF PositionsInv
<1>5. BlockAt(k)'.StateRoot = Executed(BlockAt(k).Transactions)
  BY <1>1 DEF BlockAt
<1> QED BY <1>3, <1>4, <1>5, EffectsAreOwn

(* With speculation off no block's root carries anything but the effects   *)
(* of its own transactions, sequentially or in parallel: what mc_leak      *)
(* finds is speculation's doing alone.                                     *)
THEOREM OwnEffectsWithoutSpeculation ==
    ASSUME ~SpeculativeEnabled PROVE Spec => []OwnEffectsOnly
<1> DEFINE Inv == PositionsInv /\ StateInv /\ OwnEffectsOnly
<1>1. Init => Inv
  <2> SUFFICES ASSUME Init PROVE Inv
    OBVIOUS
  <2>1. newBlock.Transactions = {} /\ StateInv /\ OwnEffectsOnly
    BY DEF Init, Genesis, StateInv, OwnEffectsOnly
  <2>2. \A h \in 0 .. CurrentHeight : BlockAt(h).Transactions = {}
    BY DEF Init, Genesis, BlockAt
  <2> QED BY <2>1, <2>2 DEF PositionsInv
<1>2. PipelineInv /\ PipelineInv' /\ QuietInv /\ Inv /\ [Next]_vars => Inv'
  <2> SUFFICES ASSUME PipelineInv, PipelineInv', QuietInv, Inv, [Next]_vars,
                      NEW h \in 1 .. LastExecutedHeight'
               PROVE  \A n \in AccountName :
                          BlockAt(h)'.StateRoot[n] /= AccountsBefore(h)'[n]
                              => n \in NamesOf(BlockAt(h).Transactions)'
    BY PositionsStep, StateStep DEF OwnEffectsOnly
  <2>1. CASE h \in 1 .. LastExecutedHeight
    BY <2>1, OwnedKept
  <2>2. CASE h \notin 1 .. LastExecutedHeight
    <3>1. ~UNCHANGED <<State, LastExecutedHeight>>
      BY <2>2
    <3>2. /\ Pending \in 1 .. CurrentHeight /\ LastExecutedHeight' = Pending
          /\ LastExecutedHeight = (IF Pending = 1 THEN -1 ELSE Pending - 1)
      BY <3>1, ExecutedStep
    <3>3. h = Pending
      BY <2>2, <3>2, ExecutedRange
    <3> QED BY <3>1, <3>3, NewlyOwned
  <2> QED BY <2>1, <2>2
<1> QED BY <1>1, <1>2, PipelineInvariant, QuietInvariant, PTL DEF Spec

-----------------------------------------------------------------------------
(* The report main prints at the end.                                      *)

(* VerifyBlock follows the chain: verified is what is not above the height *)
(* verified last, and genesis.                                             *)
StatusInv ==
    \A h \in 0 .. CurrentHeight :
        BlockAt(h).Status = "Verified" <=> h = 0 \/ h <= LastVerifiedHeight

LEMMA AddKeepsStatus ==
    ASSUME PipelineInv, StatusInv, AddBlock
    PROVE  StatusInv'
<1>1. /\ CurrentHeight \in Nat /\ CurrentHeight' = CurrentHeight + 1
      /\ LastVerifiedHeight' = LastVerifiedHeight
      /\ newBlock.Status = "Voted"
  BY DEF AddBlock, PipelineInv, TypeOK, ProposalInv, Height
<1>2. (LastVerifiedHeight \in Int /\ LastVerifiedHeight < CurrentHeight) \/ CurrentHeight = 0
  BY <1>1, ConfigAssumption
     DEF AddBlock, PipelineInv, QueueInv, VerifiedInv, Done, Idle, ConfigAssumption
<1>3. LastVerifiedHeight \in Int /\ LastVerifiedHeight <= CurrentHeight
  BY <1>1, ConfigAssumption
     DEF AddBlock, PipelineInv, QueueInv, VerifiedInv, Done, Idle, ConfigAssumption
<1>4. /\ \A h \in 0 .. CurrentHeight - 1 : Blocks'[h + 1] = Blocks[h + 1]
      /\ CurrentHeight > 0 =>
           Blocks'[CurrentHeight + 1] =
               [Blocks[CurrentHeight + 1] EXCEPT !.Status = "Finalized"]
      /\ CurrentHeight = 0 => Blocks'[1] = Blocks[1]
      /\ Blocks'[CurrentHeight + 2] = newBlock
  BY AddedBlocks
<1>5. ASSUME NEW h \in 0 .. CurrentHeight + 1
      PROVE  Blocks'[h + 1].Status = "Verified" <=> h = 0 \/ h <= LastVerifiedHeight
  <2>1. CASE h < CurrentHeight
    <3>1. h \in 0 .. CurrentHeight - 1 /\ h \in 0 .. CurrentHeight
      BY <1>1, <2>1
    <3> QED BY <1>4, <3>1 DEF StatusInv, BlockAt
  <2>2. CASE h = CurrentHeight /\ CurrentHeight > 0
    <3>1. Blocks[CurrentHeight + 1] \in Block
      BY <1>1, BlockAtType DEF PipelineInv, BlockAt
    <3>2. Blocks'[h + 1].Status = "Finalized"
      BY <1>4, <2>2, <3>1 DEF Block
    <3> QED BY <1>1, <1>2, <1>3, <2>2, <3>2
  <2>3. CASE h = CurrentHeight /\ CurrentHeight = 0
    BY <1>1, <1>4, <2>3 DEF StatusInv, BlockAt
  <2>4. CASE h = CurrentHeight + 1
    <3>1. Blocks'[h + 1] = newBlock /\ h /= 0 /\ ~(h <= LastVerifiedHeight)
      BY <1>1, <1>3, <1>4, <2>4
    <3> QED BY <1>1, <3>1
  <2> QED BY <1>1, <2>1, <2>2, <2>3, <2>4
<1> QED BY <1>1, <1>5 DEF StatusInv, BlockAt

LEMMA RecordKeepsStatus ==
    ASSUME PipelineInv, StatusInv, pc \in {"use", "execute"},
           NEW r \in AccountMap, RecordExecution(Pending, r),
           UNCHANGED <<CurrentHeight, LastVerifiedHeight>>
    PROVE  StatusInv'
<1>1. ASSUME NEW h \in 0 .. CurrentHeight
      PROVE  Blocks'[h + 1].Status = Blocks[h + 1].Status
  BY RecordProperties
<1> QED BY <1>1 DEF StatusInv, BlockAt

LEMMA VerifyKeepsStatus ==
    ASSUME PipelineInv, StatusInv, VerifyBlock
    PROVE  StatusInv'
<1>1. /\ Pending = CurrentHeight - 1 /\ CurrentHeight \in Nat /\ CurrentHeight >= 2
      /\ Before = IF Pending = 1 THEN -1 ELSE Pending - 1
  BY PendingIsBelowTip DEF VerifyBlock, Working
<1>2. pc = "verify" /\ CurrentHeight' = CurrentHeight
  BY DEF VerifyBlock
<1>3. CASE Verifiable(Pending)
  <2>1. ExecutionDelay <= 1
    BY <1>1, <1>3, ConfigAssumption DEF Verifiable, ConfigAssumption
  <2>2. LastVerifiedHeight = Before
    BY <1>2, <2>1 DEF PipelineInv, VerifiedInv
  <2>3. Verified(Pending)
    BY <1>3 DEF VerifyBlock
  <2>4. /\ \A h \in 0 .. CurrentHeight :
               h /= Pending => Blocks'[h + 1] = Blocks[h + 1]
        /\ Blocks'[Pending + 1].Status = "Verified"
        /\ LastVerifiedHeight' = Pending
    BY <1>2, <2>3, VerifiedProperties
  <2>5. ASSUME NEW h \in 0 .. CurrentHeight
        PROVE  Blocks'[h + 1].Status = "Verified" <=> h = 0 \/ h <= Pending
    <3>1. CASE h = Pending
      BY <1>1, <2>4, <3>1
    <3>2. CASE h /= Pending
      <4>1. h <= Pending <=> h = 0 \/ h <= LastVerifiedHeight
        BY <1>1, <2>2, <3>2
      <4> QED BY <2>4, <3>2, <4>1 DEF StatusInv, BlockAt
    <3> QED BY <3>1, <3>2
  <2> QED BY <1>2, <2>4, <2>5 DEF StatusInv, BlockAt
<1>4. CASE ~Verifiable(Pending)
  BY <1>2, <1>4 DEF VerifyBlock, StatusInv, BlockAt
<1> QED BY <1>3, <1>4

LEMMA StatusStep == PipelineInv /\ StatusInv /\ [Next]_vars => StatusInv'
<1> SUFFICES ASSUME PipelineInv, StatusInv, [Next]_vars PROVE StatusInv'
  OBVIOUS
<1>1. CASE AddBlock
  BY <1>1, AddKeepsStatus
<1>2. CASE UseSpeculation
  <2>1. specRoot \in AccountMap /\ RecordExecution(Pending, specRoot) /\ pc = "use"
        /\ UNCHANGED <<CurrentHeight, LastVerifiedHeight>>
    BY <1>2 DEF UseSpeculation, PipelineInv, QueueInv
  <2> QED BY <2>1, RecordKeepsStatus
<1>3. CASE ExecuteFinalized
  <2> DEFINE r == RootOf(Executed(BlockAt(Pending).Transactions))
  <2>1. RecordExecution(Pending, r) /\ pc = "execute"
        /\ UNCHANGED <<CurrentHeight, LastVerifiedHeight>>
    BY <1>3 DEF ExecuteFinalized
  <2>2. r \in AccountMap
    BY ExecutedType DEF PipelineInv, TypeOK
  <2> HIDE DEF r
  <2> QED BY <2>1, <2>2, RecordKeepsStatus
<1>4. CASE VerifyBlock
  BY <1>4, VerifyKeepsStatus
<1>5. CASE \/ Access \/ \E t \in TxSet : SubmitTransaction(t)
           \/ ProposeNothing \/ ProposalSigningFails \/ ProposeBlock \/ VoteOnBlock
           \/ ProcessPendingExecutions \/ CheckSpeculation \/ RotateLeader
           \/ SpeculatorStep \/ ConcurrentMapAbort \/ UNCHANGED vars
  <2>1. UNCHANGED <<Blocks, CurrentHeight, LastVerifiedHeight>>
    BY <1>5, AccessLeaves DEF nodeVars, SubmitTransaction, ProposeNothing,
       ProposalSigningFails, SkipRound,
       ProposeBlock, VoteOnBlock, ProcessPendingExecutions, CheckSpeculation,
       RotateLeader, SpeculatorStep, SpeculativeExecute, StoreSpeculation,
       ConcurrentMapAbort, vars, chainVars
  <2> QED BY <2>1 DEF StatusInv, BlockAt
<1> QED BY <1>1, <1>2, <1>3, <1>4, <1>5 DEF Next, GeneratorStep, Access, MainStep, Stopped

LEMMA IntervalSize ==
    ASSUME NEW n \in Nat PROVE Cardinality(1 .. n) = n
<1>1. 1 \in Int /\ n \in Int /\ (IF 1 > n THEN 0 ELSE n - 1 + 1) = n
  OBVIOUS
<1>2. Cardinality(1 .. n) = (IF 1 > n THEN 0 ELSE n - 1 + 1)
  BY <1>1, FS_Interval
<1> QED BY <1>1, <1>2

(* The counts by status and the lags by height of PrintExecutionStats are  *)
(* two accounts of the same chain, and agree between any two rounds.       *)
THEOREM ReportIsConsistent == Spec => []ReportAddsUp
<1>1. Init => StatusInv
  BY DEF Init, StatusInv, BlockAt, Genesis
<1>2. PipelineInv /\ StatusInv => ReportAddsUp
  <2> SUFFICES ASSUME PipelineInv, StatusInv, pc = "propose", LastExecutedHeight >= 1
               PROVE  /\ ExecutionLag = 1 /\ FinalizedBlocks = TotalBlocks - ExecutionLag
                      /\ LastVerifiedHeight >= 1 =>
                             VerifiedBlocks = TotalBlocks - VerificationLag
                      /\ LastVerifiedHeight < 1 => VerifiedBlocks = 1
    BY DEF ReportAddsUp
  <2>1. /\ CurrentHeight \in Nat /\ CurrentHeight >= 2 /\ Len(Blocks) = CurrentHeight + 1
        /\ LastExecutedHeight = CurrentHeight - 1
        /\ LastVerifiedHeight \in Int /\ LastVerifiedHeight < CurrentHeight
    <3>1. CurrentHeight \in Nat /\ LastExecutedHeight = Done
          /\ Len(Blocks) = CurrentHeight + 1
      BY DEF PipelineInv, TypeOK, QueueInv, Idle, Height
    <3>2. CurrentHeight >= 2 /\ LastExecutedHeight = CurrentHeight - 1
      BY <3>1 DEF Done
    <3>3. LastVerifiedHeight = -1 \/ LastVerifiedHeight = LastExecutedHeight
      BY ConfigAssumption DEF PipelineInv, VerifiedInv, ConfigAssumption
    <3> QED BY <3>1, <3>2, <3>3
  <2>2. ExecutionLag = 1 /\ TotalBlocks - ExecutionLag = CurrentHeight
    BY <2>1 DEF ExecutionLag, TotalBlocks
  <2>3. \A h \in 1 .. CurrentHeight :
            Blocks[h + 1].Status \in {"Finalized", "Verified"} <=> h < CurrentHeight
    BY DEF PipelineInv, BlocksInv, Above, BlockAt
  <2>4. \A h \in 0 .. CurrentHeight :
            Blocks[h + 1].Status = "Verified" <=> h = 0 \/ h <= LastVerifiedHeight
    BY DEF StatusInv, BlockAt
  <2>5. \A i \in 1 .. CurrentHeight + 1 :
            /\ i - 1 \in 0 .. CurrentHeight /\ i - 1 + 1 = i
            /\ i - 1 = 0 \/ i - 1 \in 1 .. CurrentHeight
    BY <2>1
  <2>6. ASSUME NEW i \in 1 .. CurrentHeight + 1
        PROVE  /\ Blocks[i].Status \in {"Finalized", "Verified"} <=> i <= CurrentHeight
               /\ Blocks[i].Status = "Verified" <=> i = 1 \/ i <= LastVerifiedHeight + 1
    <3>1. Blocks[i].Status = "Verified" <=> i - 1 = 0 \/ i - 1 <= LastVerifiedHeight
      BY <2>4, <2>5
    <3>2. CASE i - 1 = 0
      <4>1. i = 1 /\ i <= CurrentHeight
        BY <2>1, <3>2
      <4> QED BY <3>1, <3>2, <4>1
    <3>3. CASE i - 1 \in 1 .. CurrentHeight
      <4>1. Blocks[i].Status \in {"Finalized", "Verified"} <=> i - 1 < CurrentHeight
        BY <2>3, <2>5, <3>3
      <4> QED BY <2>1, <3>1, <3>3, <4>1
    <3> QED BY <2>5, <3>2, <3>3
  <2>7. CountedAs({"Finalized", "Verified"}) = 1 .. CurrentHeight
    BY <2>1, <2>6 DEF CountedAs
  <2>8. FinalizedBlocks = CurrentHeight
    BY <2>1, <2>7, IntervalSize DEF FinalizedBlocks
  <2>9. ASSUME LastVerifiedHeight >= 1
        PROVE  VerifiedBlocks = TotalBlocks - VerificationLag
    <3>1. CountedAs({"Verified"}) = 1 .. LastVerifiedHeight + 1
      BY <2>1, <2>6, <2>9 DEF CountedAs
    <3>2. LastVerifiedHeight + 1 \in Nat
      BY <2>1, <2>9
    <3>3. VerifiedBlocks = LastVerifiedHeight + 1
      BY <3>1, <3>2, IntervalSize DEF VerifiedBlocks
    <3> QED BY <2>1, <3>3 DEF TotalBlocks, VerificationLag
  <2>10. ASSUME LastVerifiedHeight < 1 PROVE VerifiedBlocks = 1
    <3>1. CountedAs({"Verified"}) = {1}
      BY <2>1, <2>6, <2>10 DEF CountedAs
    <3> QED BY <3>1, FS_Singleton DEF VerifiedBlocks
  <2> QED BY <2>2, <2>8, <2>9, <2>10
<1> QED BY <1>1, <1>2, StatusStep, PipelineInvariant, PTL DEF Spec
=============================================================================
