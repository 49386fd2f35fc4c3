# Verification of asynchronous-execution-simulation

TLA+ modules, TLC configurations and TLAPS proofs for the Go program in `../src`:
a proof-of-authority blockchain in one process that executes blocks
asynchronously, speculatively and in parallel. Paths below are relative to `src/`.

    tlc -config mc_core.cfg MCBlockchain     # model-check one run (modules: see 3)
    tlapm BlockchainProofs.tla               # check the proofs of one module

## 1. The system

| component | state it keeps | operations | what makes it correct |
|---|---|---|---|
| `state` | `Accounts` (address -> balance, nonce), `StateRoot`, `StateMutex` | `CreateAccount`, `GetAccount`, `ExecuteTransaction`, `Copy`, `CalculateStateRoot` | nonces spent once and in order, no overdraft, money conserved, root never stale |
| `transaction` | an immutable record; ID = function of sender and nonce | `New` | IDs identify transactions (they do not) |
| `block` | header, transactions, signatures, status, state root, delayed root | `New`, `CalculateHash`, `Sign`, `MarkAs...` | what is signed never changes, status only moves forward |
| `validator` | own mempool, `BlockVote`, `IsLeader`, key | `AddToMempool`, `GetTxFromMempool`, `SignData` | its mempool stays in submission order, whatever is lost; a block gets a quorum of distinct signatures or is dropped |
| `blockchain` | chain, heights (current, finalized, executed, verified), global mempool, execution queue, pending and speculative roots, mempool snapshots | submit, propose, vote, add, finalize, execute, verify, rotate | certified chain; execution follows finality; published roots are final; every finalized block is executed |
| `execution` | worker pool, channels, per-batch results | `ExecuteBatch`, dependency analysis, grouping, ordering, `applyChanges` | every call returns, every transaction is answered once, the result does not depend on the order of the workers |
| `main` | the round, the block in hand, the parallel-execution toggle | the loop, the arguments, the transaction generators | the counts add up, circles close; a strategy that was switched off is not used |
| `config` | parameters | presets | |
| `performance` | none the node reads | benchmark of a block on a copy of the state, summary of times | |
| `visualization` | none | printing | counts and lags agree with the chain |

**Interaction.** Everything runs in one process. Validators are objects of the
node, called in a loop; there is no network, no persistence and no restart. Four
kinds of goroutine interleave over shared memory:

* *main* (`main.go:243 runSimulation`): each round proposes, votes, adds the block
  (which finalizes the one below it), processes pending executions, rotates;
* *the generator* (`main.go:51`), which calls `SubmitTransaction` at any time;
* *speculation*: `AddBlock` starts `go bc.ExecuteBlock(b, true)` for the predicted
  next block, or for the block just added;
* *workers*: each parallel execution starts a pool of its own, which talks to it over
  channels.

`ExecuteBlock` holds `ExecutionMutex`; nothing else does. `bc.State`, the mempools
and `SpeculativeStateRoot` are also touched outside it.

**What is hard here.** The order in which goroutines and main get the mutex; roots
computed early and used late; a `D`-block delay whose boundary appears in five
places; failures between trimming a mempool and using what was taken; identity of
transactions by an ID that is not unique; effects of speculation leaking into the
state; slices and a lock that goroutines overwrite under each other; channels of
bounded capacity in both directions; batches cut by
one order and sorted by another. `PROJECT.json` lists each hazard at its line with the properties on it.

## 2. Modules

| module | what it is | code |
|---|---|---|
| `Accounts` | operators only: the account map, a transaction's checks and effect, the effect of a block | `state`, `transaction`, net effect of `execution` |
| `StateStore` | state machine of one `State` value: `CreateAccount`, `ExecuteSucceeds`, `ExecuteFails` | `state/state.go` |
| `Blockchain` | state machine of the node, its loop and its goroutines | `blockchain`, `block`, `validator`, `main.go` |
| `BlockchainProperties` | the claims about the node, and the refinement mapping | |
| `FinalityPipeline` | abstract specification: a log, a finalized prefix, results in log order | what the node promises |
| `BlockchainInvariant` | the inductive invariant `PipelineInv` | |
| `MempoolRace` | `SubmitTransaction` against `ProposeBlock`, access by access | mempools of `blockchain` and `validator` |
| `StateLock` | readers of the account store against executions that replace or overwrite it | `GetAccount`, the two ways `ExecuteBlock` stores a state |
| `Scheduling` | dependencies, grouping, ordering | `execution`, from line 398 |
| `ParallelExecutor` | executor, worker pool, channels, merge | `execution`, lines 105 to 396 |
| `BatchExecution` | abstract specification: accounts and answers change once per call, as functions of the accounts before it and the list | what a caller of `ExecuteBatch` relies on |
| `ExecutionStrategy` | which way a block is executed: arguments, presets, toggle, thresholds, benchmark | `main.go`, `config`, `ExecuteBlock`, `RunBlockBenchmark` |
| `Generator` | the patterns of payments | `generateTransactions` and its three helpers |
| `MainProgram` | `ExecutionStrategy` and `Generator` side by side | `main` |
| `StateStoreProofs`, `BlockchainProofs`, `ParallelExecutorProofs`, `SchedulingProofs`, `StateLockProofs`, `MempoolRaceProofs`, `GeneratorProofs`, `MainProgramProofs` | the theorems | |
| `MCStateStore`, `MCBlockchain`, `MCScheduling`, `MCParallelExecutor`, `MCStateLock` | instances for TLC; the other modules are run as they are | |

`Blockchain`, `StateStore` and `ParallelExecutor` extend `Accounts`: the node takes an
execution for one step that yields `BatchResult`, and `ParallelExecutor` shows that
this is what the workers and channels yield, by implementing `BatchExecution` with
`BatchResult` as the effect of a call. `BlockchainProperties` instantiates
`FinalityPipeline`. `MainProgram` composes `ExecutionStrategy` with `Generator`, which
share the arguments and what was submitted so far. `MempoolRace` has the steps of
`SubmitTransaction` and `ProposeBlock` that `Blockchain` has too, over sequences, and
so shows why `Blockchain` may take a mempool for a set. `StateLock` and `Scheduling`
look closer at something `Blockchain` takes for one step, and are not composed with
it. Operators whose comment starts with "Mutant:" are plausible bugs. No specification
uses them: they are there to be put in place of the operator after them, to see that a
property notices.

### How `Blockchain` corresponds to the code

* Variables keep the names of the Go fields. `pc` is where main is in the loop body,
  `newBlock`, `pendingBlocks` and `specRoot` are locals that live across steps.
  `waiting` are goroutines that have not got `ExecutionMutex`, `executing` the one
  that holds it.
* One action per step main can be interrupted at. `ProposeBlock` is a sequence of
  them: the check of `bc.Mempool` (`ProposeNothing` if it is empty); inside
  `GetTxFromMempool` the comparison (`TakeLength`), the result (`TakeAll`, `TakeSome`),
  the rest (`RestRead`) and the store (`TrimStore`); the signature
  (`ProposalSigningFails`); the purge, reading (`PurgeRead`) and storing
  (`ProposeBlock`). `mpc` says which is next, `mSlice` is the slice main holds. Then
  `VoteOnBlock`, `AddBlock` (with `FinalizeBlock`, snapshot and start of the
  goroutine), `ProcessPendingExecutions` (takes the queue), then per block
  `CheckSpeculation`, `UseSpeculation` or `ExecuteFinalized`, `VerifyBlock`; then
  `RotateLeader`. A goroutine has two steps: it executes, then stores its root.
  Between reading the speculative root and using it main can be interrupted.
* `SubmitTransaction` checks and accepts; then each append, to `bc.Mempool` and to
  the mempool of one validator after the other, is an `AppendRead` and an
  `AppendStore`. No lock orders them and the steps of `ProposeBlock`: whoever stores last
  wins, so a submission may vanish from a mempool and an included transaction return to
  one.
* Pointers to transactions are positions in `accepted`. Every slice of them stays in
  submission order, so a slice is the set of its positions, and "the first k" is
  `Oldest(S, k)`.
* A block hash is the sequence of what it digests, up the chain; an account root is
  the account map it digests. SHA-256 is thereby injective.
* `QuorumPercentage` is the fraction `QuorumNum / QuorumDen`; the floating-point
  comparison is exact for the values used.
* What executing a block does. *Sequential*: `ExecuteBlock` hands each
  transaction over as a pointer, `ExecuteTransaction` knows a bare struct and a map
  only, returns an error, and the accounts stay as they are (`SequentialResult`).
  *Parallel*: `applyChanges` parses its keys with `Sscanf("account:%s:%s")`, whose
  first `%s` takes everything up to white space, so a write to `account:a:balance`
  opens an account named `a:balance` and changes no balance (`BatchResult`). It
  follows that balances and nonces of existing accounts never move in the node,
  and that whether a transaction passes its checks does not depend on the order
  of execution; this is what makes the one-step `BatchResult` faithful.
* If main uses `SpeculativeStateRoot` while a goroutine may be inside its assignment
  to that map, the Go runtime may abort the process: `ConcurrentMapAbort`.
* `accepted` is history the code does not keep (except through its pointers). In
  `StateStore`, `spent`, `minted` and `lastCall` are history.

### How the other modules correspond to the code

* **`MempoolRace`**. `append` is a read of a slice and a store of the longer one;
  `GetTxFromMempool` reads the length of the leader's mempool, then the mempool for the
  result, then again for the rest, and stores that; the purge is a read and a store of the
  shorter slice, and copies element by element in between. The
  generator goes from `bc.Mempool` to the validators, main from its leader to
  `bc.Mempool`. A read or a store while the other goroutine stores the
  same slice is a data race on three words with no defined result: the model stops
  there (`TornAccess`), so its properties say what holds until then. A compiler that
  merges reads leaves fewer interleavings, all of them among these. Signatures
  succeed here, and IDs are all different; what a failing signature and equal IDs do is in
  `Blockchain`.
* **`StateLock`**. An object is one `State` value; `bc.State` is the number of one.
  Sequential execution makes the next object and points there; `*pe.State =
  *stateCopy` sets the lock of the current object to that of the copy, which is
  free. A reader loads the pointer, locks, unlocks; an unlock that nobody holds
  aborts the process. The copy that `ExecuteBlock` makes under the read lock is over
  before it stores, so its own lock does not show.
* **`Scheduling`**. `cursor` is `i` of the scan, one step per transaction. The scan
  goes up the list, so a batch in list order is its set. `senders` is in any order,
  as Go's map iteration is. The bubble sort by nonce is stable and is taken as "the
  first by nonce, then by position".
* **`ParallelExecutor`**. One action per statement that can block or be interrupted:
  send a task, receive it, handle and send the result, collect, apply. The list is
  cut into batches in any way (`NextBatch`), which includes that of `Scheduling`. A
  worker's effect on its own copy is gone with the copy. At least one worker.
  `BatchExecution` leaves open what a call does (`Effect` and `Answers` are any two
  functions) and only says that it does it once and that nothing but the accounts and
  the list matters. That `ParallelExecutor` implements it does not say the result is
  the one the README announces: `mc_conflicts` shows it is not.
* **`ExecutionStrategy`**. A block is its size and the round it was proposed in. One
  of three things happens to it: one by one in `ExecuteBlock`, one by one in
  `ExecuteBatch` below its minimum, or by the workers. Whether a speculative root is
  used, whether the vote succeeds and what is predicted are left open.
* **`Generator`**. A user is its number; one action per loop of the four functions,
  one step per submission. `int(float64(n) * 0.9)` and the like are tenths, rounded
  down, which is what the float gives for any count below 100000.
* **`MainProgram`**. The goroutine of the generator starts once the arguments are read
  and goes on beside the rounds until main exits. A round cannot propose more
  transactions than were submitted before it: that is what the two share here.
* **Report.** `TotalBlocks`, `FinalizedBlocks`, `VerifiedBlocks`, `ExecutionLag` and
  `VerificationLag` in `Blockchain` are what `PrintExecutionStats` prints.

### Abstractions to know of

* In `Blockchain` a slice is stored or read whole: a torn access has no defined
  outcome, and `MempoolRace` shows where there is one.
* `AddBlock` reads `bc.Mempool` twice, to copy it for the snapshot and to predict the
  next block; the two reads are one in `Blockchain`.
* The votes of one block are one step: what `validateTransaction` reads of the state
  does not move (see above), and nothing else it reads changes meanwhile.
* The accounts main and the generator create at start are `InitialAccounts`; the
  generator's own `CreateAccount` calls precede its first submission. Validator
  accounts are in no transaction and are left out.
* Amounts and deposits are natural numbers, as the generators produce them; the code
  does not check the sign. Balances are far from the width of a Go `int`.
* At least one worker: with `--workers=0` the first parallel execution waits for ever,
  as nobody receives.
* `ExecutionMetrics`, timestamps, sleeps and printing are left out.

## 3. Runs

Passing runs. In those of the node, four users `alice`, `bob`, `carol`, `dan` with 2
each.

| run (module) | instance | shows |
|---|---|---|
| `mc_core` (`MCBlockchain`) | 2 validators, D = 1, blocks of 1, 2 submissions, 3 rounds (parallel in the last 2), speculation on, signing may fail, mempools overwritten, snapshot horizon 1, fairness | type correctness; `CertifiedChain`; `ExecutionFollowsFinality`; `DelayedRootStable`; `SnapshotsSuffice`; `SignedMeansVoted`; `ReportAddsUp`; `PublishedRootsKept`; the liveness property `ExecutedEventually`; `Pipeline`, the refinement of `FinalityPipeline` |
| `mc_store` (`MCStateStore`) | 2 addresses, payments of 1 or 2, handed over as pointer, struct, map, or map without one field; deposits 0 and 3, at most 6 in circulation | `SpentInOrder`, `NoOverdraft`, `SupplyConserved`, `RootFresh` |
| `mc_race` (`MempoolRace`) | 2 validators, blocks of 1, 4 submissions, 5 rounds | `SubmissionOrder`; `OneCopyPerProposal`: a transaction no block has taken loses at most one of its copies to each proposal |
| `mc_lock` (`MCStateLock`) | 3 readers, 4 executions | `SharedObjectKept`, `NoPhantomHolder`: the parallel overwrite alone is to blame for a lost lock |
| `mc_schedule` (`MCScheduling`) | every list of 2 to 5 of six transactions, nonces 0 to 2 in any order | `EveryTransactionOnce`, `ResultIsPermutation`, `NothingTooLate`, `OrderInBatch`; `ScheduleCompletes` |
| `mc_executor` (`MCParallelExecutor`) | 2 workers, 1 place per worker in the channel, 2 calls, lists of up to 3 cut in any way, sequential below 2 | `EveryTransactionAnswered`; `BatchCompletes`; `ImplementsBatch`, the refinement of `BatchExecution` |
| `mc_program` (`MainProgram`) | 4 rounds, 4 modes, minimum 5, blocks of 9 or 12, 1 or 12 payments asked for | `ThresholdsAgree`, `FirstHalfOff`, `CirclesClose`, `CountsAddUp` |

Runs that find a disagreement between the code and what is said of it:

| run | said | the code |
|---|---|---|
| `mc_verify` (D = 2) | "D blocks later, the state root is verified against the delayed root in a future block" (`README.md:111`) | a block is looked at once, with one block on top of it; nobody looks again, so with D >= 2, the default included, none is ever verified |
| `mc_twice` | "Remove the included transactions from the mempool" (`blockchain.go:206`) | not from the other validators' mempools, which the next leaders propose from |
| `mc_leak` | "Update the actual state if not speculative" (`blockchain.go:459`) | the parallel executor stores through its pointer to the state in speculative runs too |
| `mc_stale` | "validates that speculative execution results are correct" (`blockchain.go:588`) | only IDs are compared, with a snapshot; the state the speculation started from is not |
| `mc_conflicts` | "Results are merged and conflicts are resolved" (`README.md:118`) | the write sets are applied one over the other, and two transactions that spend one nonce both succeed, unmarked |

Other things a document or a comment says and the program does not do. Each is a
definition at the end of its module; in place of the properties of the `.cfg` named,
with the constants given and `Spec` for `FairSpec`, TLC finds a counterexample. The last
column names what is proved or checked instead, if anything.

| definition, `.cfg` | said | the code | holds instead |
|---|---|---|---|
| `ConsistencyHolds`, `mc_twice` with `NumTransactions = 3` | "the block that should include this block's state root" (`blockchain.go:532`) | that is block h + D + 1, the check reads h + D | `DelayedRootStable` |
| `IncludedRemoved`, `mc_twice` with `TxSet <- OnePayment` | "Remove the included transactions" (`blockchain.go:206`) | by ID: an accepted transaction that is in no block goes too | |
| `IdleOnlyWhenNothingLeft`, `mc_twice` with `SigningCanFail = TRUE` | "Insufficient Votes" leads back to "Leader Selects Transactions" (`workflow diagram.md:14`) | the proposal has purged `bc.Mempool`, so the next leader proposes nothing though its own mempool holds the transaction | |
| `SignedMeansVoted`, `mc_twice` with `NumValidators = 1` | "When enough signatures are collected (quorum), the block is voted" (`README.md:103`) | the quorum is tested only after another validator's vote: with one validator no block is voted | itself, with two or more |
| `DueIsExecuted`, `mc_store` | "executes a single transaction against the state" (`state.go:83`) | not in the form every caller in the node passes it, a pointer | |
| `SubmittedInMempool`, `mc_race` | "adds a transaction to the mempool" (`blockchain.go:93`) | the purge overwrites a concurrent append | `OneCopyPerProposal` |
| `BlockWithinLimit`, `mc_race` | "gets transactions from the mempool up to a certain limit" (`validator.go:95`) | an append between the comparison and the result adds one more | |
| `IndependentBatches`, `mc_schedule` | "groups transactions into independent batches" (`parallel_execution.go:459`), "Independent transactions are grouped for parallel execution" (`README.md:116`) | what a scan takes counts as processed for the rest of the scan: dependent transactions share a batch | the opposite: `DependentShareBatch` |
| `SenderInOrder`, `mc_schedule` | "Each sender's transactions should be in order" (`parallel_execution.go:408`) | order by position and order by nonce make a cycle, broken at the first position | `OrderInBatch` |
| `WorkersBounded`, `mc_executor` | "Worker pool implementation to reduce goroutine creation overhead" (`README.md:12`) | a new pool per execution, none ever closed | `EveryTransactionAnswered`: what is left holds no task |
| `DurationsKnown`, `mc_executor` | "How long the execution took" (`parallel_execution.go:36`) | not set by workers | |
| `CountRespected`, `mc_program` | "Number of transactions to generate" (`README.md:67`) | circles are longer than they are counted | `CountsAddUp` |
| `IndependentAreIndependent`, `mc_program` with `Requests = {60}` | "different senders, different recipients" (`main.go:127`) | both repeat from the sixteenth on | |
| `NoncesIncrease`, `mc_program` | "Same sender with increasing nonces" (`README.md:86`) | every nonce is that of the account, which never moves | |
| `FirstHalfOfBlocks`, `mc_program` | "off for the first half of blocks" (`main.go:251`) | by round, so a block of the first half that executes late goes parallel | `FirstHalfOff` |
| `ComputeGoesParallel`, `mc_program` | "parallel for larger blocks or compute-intensive transactions" (`blockchain.go:358`) | `ExecuteBatch` applies the minimum again | `ThresholdsAgree` |
| `SequentialOnlyRespected`, `mc_program` | "Disable parallel execution" (`README.md:73`) | the presets of two test modes overrule the flag | |
| `SimulatedOnRequest`, `mc_program` with `Requests = {60}`, `Sizes = {31}`, `BlockSize = 31` | "Simulate compute-intensive transactions (default: false)" (`README.md:71`) | the benchmark simulates above 30 transactions, flag or not | |

**Bounds and why they are enough.** `NumTransactions` and `NumRounds` bound the
length of a run (the code has 10 rounds); `TxSet`, `Payments`, `Forms`, `Deposits`
and `MaxSupply` bound the inputs. Three rounds carry block 1
through its whole life: proposed, voted, finalized, executed, verified, its root copied
into block 3; the last two of them are the parallel half. With every access to a mempool
a step of its own this is what TLC finishes in a few minutes; that the same holds over
more rounds, with more validators and any delay is what the proofs add. The violation runs have 4 or 6 rounds: six let
the parallel half execute a block whose predecessor was executed there too. Two validators with a quorum
of 67% need both votes, and the one that is not the proposer can fail to sign. A
snapshot horizon of 1 instead of 10 makes the clean-up happen within a run. Every
action fires in some passing run.

In `mc_race` nearly every round has a submission to meet, and a submission can meet several
proposals. Five transactions of three users, with nonces of one sender up to 2, give
chains, circles, repeated nonces and positions against nonces, cycles included; five
entries are more than the longest cycle the inputs make. In `mc_executor` the channel
has room for 2 tasks and lists have 3, so the send blocks; a second call finds the
pool of the first. In `mc_program` the sizes lie on either side of the executor's own
minimum of 10, and a minimum of 5 is below both; 4 rounds have both halves with a
block executed late; 12 payments have circles in the complex mode and none in
the others, and all 12 must be submitted before a block of 12 can be proposed. Where
circles wrap round the 20 users is covered by the proof.

**Termination.** After `NumRounds` main reports and the process exits, and a runtime
abort ends it: both are the stuttering action `Stopped`, so deadlock is checked
everywhere and means a goroutine waits for ever. There are two ways to abort. In
`Blockchain`, main and a speculative goroutine meet in `SpeculativeStateRoot`
(`ConcurrentMapAbort`). In `StateLock`, a reader unlocks a lock that a parallel
execution has overwritten meanwhile; that needs no speculation, since the generator's
`GetAccount` runs beside main's own parallel executions, and it needs a parallel
execution (`AbortsNeedOverwrite`).

**Fairness.** `FairSpec` is weak fairness of main's steps together and of the
speculative goroutines' steps together: the Go scheduler runs each runnable
goroutine eventually. Weak fairness is enough for main's wait on `ExecutionMutex`
because a goroutine that holds it always releases it, and main starts at most one
goroutine per round. Nothing is assumed of the generator, and nothing of
signing, so a run in which nobody submits, or every signature fails, is fair.
`FairSpec` of `Scheduling` says that the function, once called, runs on;
that of `ParallelExecutor` that the caller's and the workers' goroutines are
scheduled, and nothing of whether anybody calls. `BatchCompletes` is therefore about
channels: no capacity and no order of answers makes caller and workers wait for each
other.

## 4. Proofs

All results hold for every value of the constants that satisfies
`ConfigAssumption` and `AccountsAssumption`, respectively the assumption
of their module; TLC evaluates these assumptions in the passing runs.

**`StateStoreProofs`.** `StoreInvariant`: types, the root is that of the accounts,
balances are not negative, spent nonces are 0, 1, 2, ... and as many as `Nonce`
says. The lemma that carries it is `TransferEffect`: what the composition
open-debit-credit-nonce does to the sender, to the recipient and to everybody else,
with sender and recipient equal or different and the recipient new or not.
`NoncesSpentInOrder`, `BalancesNeverNegative`, `RootAlwaysFresh` and
`StoreTypeCorrect` follow.

* `MoneyIsConserved`: `SupplyConserved`, for any finite set of addresses. The supply
  is a fold, that is, a choice among the solutions of a recursion. `SumExists` shows
  that there is a solution and `SumMoves` that it moves as far as one summand does
  (both from a smallest set for which it would fail); the balances of a
  `Transfer` are those before with one debit and one credit, and nothing at all when
  sender and recipient are the same.

**`BlockchainProofs`.** The properties say how four heights, the statuses and the
roots relate in every state, and are not inductive: that the tip is not final after
`AddBlock` needs that the queue was empty before, which needs where main was.
`PipelineInv` (module `BlockchainInvariant`) adds, for each position of main:

* `QueueInv`: what the queue and main's local copy of it hold (at most the block
  below the tip), and which of two values `LastExecutedHeight` has;
* `VerifiedInv`: `LastVerifiedHeight` as a function of the delay and of `pc`;
* `BlocksInv`: status and state root of every block;
* `RootsInv`: a pending root is the one its block already has, so that
  `VerifyBlock` changes no root;
* `ProposalInv`: the block in hand extends the tip and is signed by its proposer.

`PipelineStep` has one lemma per action. Speculative goroutines write only
`State`, `SpeculativeStateRoot` and their own bookkeeping, none of which the
invariant constrains beyond its type: that is the reason, for any number of them,
why they cannot disturb the order of execution. `VotersMakeQuorum` shows that the
loop of `VoteOnBlock`, which stops at the vote that makes the quorum, leaves a
block with that many distinct signatures. Proved from the invariant:

* `TypeCorrect`: `TypeOK`;
* `ExecutionIsOrdered`: `ExecutionFollowsFinality`;
* `VerifiedOrNever`: with D >= 2 no block is ever verified, which is the failure of
  `VerifiedEventually` in general; with D <= 1 each is as soon as it is executed.

**`BlockchainProofs`, the chain.** One lemma, `ChainStep`, says of every step what it can do to the
chain (`ChainEvolves`): all blocks keep their headers and signatures and, once
executed, their roots (`Kept`); and the step appends the block in hand
(`ChainExtended`), or publishes the root of the one block that is final and not
executed (`ResultRecorded`), or does neither. The rest follows:

* `RootsAreFinal`: `PublishedRootsKept`;
* `ChainIsCertified`: `CertifiedChain`, by induction with the new block from
  `ProposalInv` and the old ones from `Kept`;
* `DelayedRootIsFinal`: `DelayedRootStable`. The strengthening `ProposedRootInv` says
  it of the block in hand as well; the content is that, with D >= 1, the block
  whose root is copied has been executed when it is copied (`RootSourceKept`);
* `NodeImplementsPipeline`: `Spec => Pipeline`. `ChainExtended` is the abstract
  `Extend`, `ResultRecorded` is `Execute`, everything else a stutter;
* `SignedIsVoted`: `SignedMeansVoted`, if one signature is no quorum. `InHandInv` says
  what status and signatures of the block in hand are at each position of main.

**`BlockchainProofs`, speculation and the report.**

* `SnapshotsLastLongEnough`: `SnapshotsSuffice`, for every horizon of at least 1;
* `OwnEffectsWithoutSpeculation`: `OwnEffectsOnly` if `SpeculativeEnabled` is off. It
  needs `QuietInv` (there are no goroutines then), `StateInv` (the accounts are those of
  the latest executed block, which is exactly what a speculative parallel run breaks) and `PositionsInv` (blocks hold
  submitted transactions, and the log of submissions only grows). Together with
  `mc_leak` this says that speculation alone is to blame;
* `ReportIsConsistent`: `ReportAddsUp`. `StatusInv` says which blocks are
  verified, `BlocksInv` which are final; both are intervals of the chain, and their
  lengths are what the report counts.

**`ParallelExecutorProofs`.** `PoolInv` says where each transaction of a call is: in
the channel of tasks, with a worker, in the channel of answers, among the results or
still to be submitted, and in one of these only (`DistinctInv`). From it:

* `AllAnswered`: `EveryTransactionAnswered`, for any number of workers and any room in
  the channels;
* `ExecutorImplementsBatch`: `Spec => ImplementsBatch`. A call is the abstract `Invoke`
  when it begins and `Return` in `UpdateState`; all steps between are stutters. What
  makes the return the abstract one is that nothing a worker reads changes inside a
  call: write sets only open accounts, so a sender's account is the same in the
  state, in the copy and in every task (`TaskInv`), each answer is what the accounts before
  the call give (`AnswerInv`), and the copy is the outcome of the transactions merged so far
  (`CopyInv`), in whatever order they were;
* `PoolNeverStuck` and `CallsAreBounded`: what is behind `BatchCompletes`, but for the
  scheduler. Inside a call the caller or a worker can take a step (`SomebodyCanMove`
  spells out the conditions of their actions): if the submitting caller finds the channel
  full and no worker is free to receive, then a transaction is with a worker,
  and the answers are fewer than the batch, so there is room for another. And each step of
  either makes `Work` smaller, which weighs a transaction by how far it has come and
  is at most `10 * Len(transactions) + 4`.

**`SchedulingProofs`.** For every list, of any length. `GroupingIsPartition`:
`EveryTransactionOnce`; `DependenciesFirst`: `NothingTooLate`, with the invariant that
what has been processed is below the cursor or in a closed batch;
`WithoutForwardOneBatch`: a list in which no dependency points up the list becomes a
single batch. In the node, where a sender's transactions have one nonce, that is every
list. `DependentShareBatch` draws the consequence: two transactions of such a list
that have an account in common end up in one batch, to be executed in parallel, which
is the failure of `IndependentBatches` in general.
For the flattening, `FlattenInv` says that what is placed and what is left in the
groups of the senders are disjoint and make up the batches come to (`PlacedInv`), that
what is placed of a sender comes before what is left, and that the last one placed is
not of the sender whose turn it is unless that one is alone (`TurnInv`).
`OrderIsPermutation`: `ResultIsPermutation`; `SendersAlternate`: `OrderInBatch`.
What is behind `ScheduleCompletes`, but for the scheduler, are `LoopsNeverStuck` (a scan
begins only when something is unprocessed, `senderIdx` is the index of a sender, and that
sender has a group) and `LoopsAreBounded`: `LeftToDo` is `2 n^2 + 10 n` for a list of
`n` and smaller after every turn of a loop, since a scan that takes nothing is
followed by `BreakCycle`, which takes one.

**`StateLockProofs`.** For any number of readers and executions. The invariant says
that each lock counts at most its holders, exactly unless the object was overwritten,
and that objects not made yet have none. `SharedObjectIsKept`, `NoPhantoms`,
`AbortsNeedOverwrite`.

**`MempoolRaceProofs`.** `SlicesStayInOrder`: `SubmissionOrder`, for any number of
validators, submissions and rounds. The invariant bounds each slice from above: the
mempools, and the slices either goroutine has read and not stored yet, hold nothing
newer than the last submission already appended there, so that the next append is the
newest element wherever it lands, however old the slice it is appended to. What the
purge has copied is older than what it still has to look at.
`OneCopyLostPerProposal`: `OneCopyPerProposal`. As far as transactions in no block go,
a slice the generator has read never lacks what the mempool has, and a slice main has
read never has what the mempool lacks (`HeldInv`): so the generator's stores only bring copies
back, and main's only lose some. `LossInv` counts: a call of `ProposeBlock` trims a
validator's mempool first and purges the global one after, opposite to the order in
which `SubmitTransaction` appends; a transaction that lost its copy to the trim was
in the global mempool by then, where the purge sees it and keeps it.

**`GeneratorProofs`.** For every number of transactions and every mode. `Shares`: the
shares are rounded down and what is left goes to the last pattern, so nothing is lost.
`CountInv` says how many payments are out at each position of each loop, `CircleInv`
that the payments of a round are consecutive, each user paying the next and the last
one the first. `SharesAddUp`: `CountsAddUp`; `EveryCircleCloses`: `CirclesClose`.

**`MainProgramProofs`.** `DecisionsAgree`: `ThresholdsAgree`, and
`OffUntilTheSwitch`: `FirstHalfOff`, for any number of rounds, sizes and minimums. The
invariant says that there is nothing to execute before the loop and that the setting
is off in it until the round of the switch. `ProgramRunsBoth`: every behaviour of
`MainProgram` is one of `ExecutionStrategy` and one of `Generator`, and so
`ProgramKeepsBoth`: what is proved of either holds of the program.

**Only model-checked.** Liveness: `ExecutedEventually`, `BatchCompletes` and
`ScheduleCompletes`. The proof system has no rule for fairness or ENABLED; of the last
two the part that does without is proved (somebody can move, and every move brings the
end nearer), and that the conditions in those theorems are those under which the actions
are enabled is by reading them. Every invariant and action property of the passing runs and both
refinements are proved.

`SignedMeansVoted` needs that one signature is no quorum: with one validator it
is, but `VoteOnBlock` tests the quorum only after another's vote.
`DelayedRootStable` needs D >= 1: with D = 0 the proposer copies the root of the
block below before that block is executed.

## 5. Not modelled

* `visualization` but for the counts of `PrintExecutionStats`, and the statistics and
  tables of `performance` (`analyzeTxTimes` sorts a local copy of the durations to
  print their minimum, maximum and median): layout and wall-clock averages.
  `RunSequential`, `RunParallel` and `CompareBenchmarks` measure time on copies of the state; only the strategy they
  measure is modelled.
* Keys and signatures as data: `SignData` succeeds or fails, and a signature is there
  or not, which is all the node looks at.
* `Validator.SignBlock` and `VerifySignature`, `Block.HasQuorum`, `config.NewConfig`,
  `ConflictDetector` and `WorkerPool.Close` have no caller.
* `ExecutionMetrics`: written by `RecordExecutionMetrics` in whichever goroutine
  executes, under `ExecutionMutex`; no decision reads it.
* `--workers=0`, negative amounts, and a data race torn in the middle of a slice
  (the model stops).

## 6. Plan

1. Done: all modules above.
2. Done: proofs of all safety properties of the passing runs and of both refinements, and
   of what `BatchCompletes` and `ScheduleCompletes` rest on besides fairness.
3. Torn reads of a slice in `Blockchain`, and what a later round can still do with
   a transaction that overwritten mempools have forgotten.
4. Which lists the generator's patterns make, fed into `Scheduling`.
