------------------------- MODULE ExecutionStrategy -------------------------
(***************************************************************************)
(* Which way a block is executed: the arguments of the program, what       *)
(* createConfiguration and the presets of package config make of them, the *)
(* switch that runSimulation turns half-way, the decision of ExecuteBlock, *)
(* the one of ExecuteBatch below it, and the benchmark that main runs of   *)
(* every larger block.  A block is the number of its transactions and the  *)
(* round it was proposed in; its effects are modelled in Blockchain.       *)
(***************************************************************************)
EXTENDS Integers

CONSTANTS
    NumRounds,    \* 10 in the code
    TestModes,    \* values of --test-mode
    MinBatches,   \* values of --min-batch
    BlockSize,    \* value of --block-size
    Sizes         \* numbers of transactions a block may have: none, or more
                  \* than BlockSize, when mempools are overwritten (MempoolRace)

ASSUME StrategyAssumption ==
    /\ NumRounds \in Nat
    /\ MinBatches \subseteq Nat
    /\ BlockSize \in Nat /\ Sizes \subseteq Nat

VARIABLES
    args,                     \* the arguments
    Config,                   \* the fields of bc.Config that matter here
    originalParallelSetting,  \* local of runSimulation
    pc, round,                \* where main is
    newBlock,                 \* main's local
    tip,                      \* the last block added
    speculating,              \* blocks whose goroutine has not executed yet
    ran                       \* the execution that has just happened

vars == <<args, Config, originalParallelSetting, pc, round, newBlock, tip,
          speculating, ran>>

-----------------------------------------------------------------------------
NoBlock == [n |-> 0, Round |-> -1]

Args == [mode : TestModes, minBatch : MinBatches, compute : BOOLEAN,
         sequentialOnly : BOOLEAN]

NotRun == [by |-> "nobody", block |-> NoBlock, way |-> "sequential", simulated |-> FALSE]

-----------------------------------------------------------------------------
(* createConfiguration.                                                    *)

(* Flags have a default of their own, so nothing of DefaultConfig is left. *)
FlagValues ==
    [Parallel |-> ~args.sequentialOnly, MinBatch |-> args.minBatch,
     Simulate |-> args.compute]

(* ConfigureForSmallTransactions and its two companions.                   *)
Preset(c) ==
    CASE args.mode = "small"   -> [Parallel |-> FALSE, MinBatch |-> 50, Simulate |-> FALSE]
      [] args.mode = "medium"  -> [Parallel |-> TRUE, MinBatch |-> 20, Simulate |-> TRUE]
      [] args.mode = "complex" -> [Parallel |-> TRUE, MinBatch |-> 10, Simulate |-> TRUE]
      [] OTHER -> c

createConfiguration == Preset(FlagValues)

-----------------------------------------------------------------------------
(* Deciding.                                                               *)

(* The minimum NewParallelExecutor starts with.                            *)
DefaultMinBatch == 10

(* Mutant: SetMinBatchSize is not called.                                  *)
MinBatchUnset == DefaultMinBatch

(* What SetMinBatchSize has made of it when ExecuteBlock goes on.          *)
NodeMinBatch == Config.MinBatch

ExecuteBatch(n, minBatch) == IF n < minBatch THEN "smallBatch" ELSE "workers"

UseParallel(n) == Config.Parallel /\ (n >= Config.MinBatch \/ Config.Simulate)

Execution(b) ==
    [by |-> "node", block |-> b,
     way |-> IF UseParallel(b.n) THEN ExecuteBatch(b.n, NodeMinBatch) ELSE "sequential",
     simulated |-> Config.Simulate]

BenchmarkWorthIt(n) == n > 10

(* RunBlockBenchmark goes by size alone: it is told of no configuration    *)
(* but the number of workers, and its executor keeps the default minimum.  *)
Benchmark(b) ==
    [by |-> "benchmark", block |-> b, way |-> ExecuteBatch(b.n, DefaultMinBatch),
     simulated |-> b.n > 30]

-----------------------------------------------------------------------------
Init ==
    /\ args \in Args
    /\ Config = [Parallel |-> TRUE, MinBatch |-> 20, Simulate |-> FALSE]
    /\ originalParallelSetting = FALSE
    /\ pc = "configure" /\ round = 0
    /\ newBlock = NoBlock /\ tip = NoBlock
    /\ speculating = {} /\ ran = NotRun

Configure ==
    /\ pc = "configure"
    /\ Config' = createConfiguration
    /\ pc' = "start"
    /\ UNCHANGED <<args, originalParallelSetting, round, newBlock, tip, speculating, ran>>

(* Mutant: remembered, and left on.                                        *)
LeftOn == Config.Parallel

SwitchedOff == FALSE

StartSimulation ==
    /\ pc = "start"
    /\ originalParallelSetting' = Config.Parallel
    /\ Config' = [Config EXCEPT !.Parallel = SwitchedOff]
    /\ pc' = "switch"
    /\ UNCHANGED <<args, round, newBlock, tip, speculating, ran>>

MoreRounds == round < NumRounds

(* The head of the loop.  A round that proposes nothing ends here.         *)
BeginRound ==
    /\ pc = "switch" /\ MoreRounds
    /\ Config' = [Config EXCEPT !.Parallel =
                     IF round = NumRounds \div 2 THEN originalParallelSetting ELSE @]
    /\ \/ /\ \E n \in Sizes : newBlock' = [n |-> n, Round |-> round]
          /\ pc' = "benchmark" /\ UNCHANGED round
       \/ round' = round + 1 /\ UNCHANGED <<newBlock, pc>>
    /\ UNCHANGED <<args, originalParallelSetting, tip, speculating, ran>>

RunBlockBenchmark ==
    /\ pc = "benchmark"
    /\ ran' = IF BenchmarkWorthIt(newBlock.n) THEN Benchmark(newBlock) ELSE ran
    /\ pc' = "vote"
    /\ UNCHANGED <<args, Config, originalParallelSetting, round, newBlock, tip, speculating>>

NextRound == pc' = "switch" /\ round' = round + 1 /\ newBlock' = NoBlock

(* The block finds no quorum ...                                           *)
BlockRefused ==
    /\ pc = "vote"
    /\ NextRound
    /\ UNCHANGED <<args, Config, originalParallelSetting, tip, speculating, ran>>

(* ... or it is added.  The one below becomes final, its transactions are  *)
(* executed unless a speculative root is there to be used, and a goroutine *)
(* starts executing the new one, or the next, predicted to be full.        *)
AddAndProcess ==
    /\ pc = "vote"
    /\ tip' = newBlock
    /\ \E b \in {newBlock, [n |-> BlockSize, Round |-> round + 1]} :
           speculating' = speculating \cup {b}
    /\ ran' \in {ran} \cup {Execution(b) : b \in {tip} \ {NoBlock}}
    /\ NextRound
    /\ UNCHANGED <<args, Config, originalParallelSetting>>

(* A speculative goroutine gets ExecutionMutex, at any time.               *)
SpeculativeExecute(b) ==
    /\ pc /= "exited"
    /\ speculating' = speculating \ {b}
    /\ ran' = Execution(b)
    /\ UNCHANGED <<args, Config, originalParallelSetting, pc, round, newBlock, tip>>

EndSimulation ==
    /\ pc = "switch" /\ round = NumRounds
    /\ Config' = [Config EXCEPT !.Parallel = originalParallelSetting]
    /\ pc' = "report"
    /\ UNCHANGED <<args, originalParallelSetting, round, newBlock, tip, speculating, ran>>

Exit ==
    /\ pc = "report"
    /\ pc' = "exited"
    /\ UNCHANGED <<args, Config, originalParallelSetting, round, newBlock, tip,
                   speculating, ran>>

Exited == pc = "exited" /\ UNCHANGED vars

Step ==
    \/ Configure \/ StartSimulation \/ BeginRound \/ RunBlockBenchmark
    \/ BlockRefused \/ AddAndProcess \/ EndSimulation \/ Exit
    \/ \E b \in speculating : SpeculativeExecute(b)

Next == Step \/ Exited

Spec == Init /\ [][Next]_vars

-----------------------------------------------------------------------------
ByNode == ran.by = "node"

(* The decision is taken twice, in ExecuteBlock and in ExecuteBatch, with  *)
(* thresholds kept in two places.  Without compute simulation the second   *)
(* never undoes the first: no executor is set up for a batch that it then  *)
(* executes one by one.                                                    *)
ThresholdsAgree == ByNode /\ ran.way = "smallBatch" => ran.simulated

(* As long as main compares, that is up to the middle of its rounds, every *)
(* block the node executes is executed sequentially.                       *)
FirstHalfOff ==
    ran.way /= "sequential" /\ ByNode => round >= NumRounds \div 2

-----------------------------------------------------------------------------
(* What a comment or the README says and the program does not do.  The     *)
(* README tells which run shows it, with which property in its .cfg.       *)

(* "Toggle parallel execution off for the first half of blocks to          *)
(* compare", by block: one proposed in the first half goes sequentially.   *)
FirstHalfOfBlocks ==
    ByNode /\ ran.block.Round < NumRounds \div 2 => ran.way = "sequential"

(* "Use parallel for larger blocks or compute-intensive transactions".     *)
ComputeGoesParallel ==
    ByNode /\ ran.way = "smallBatch" => ~ran.simulated

(* "--sequential-only: Disable parallel execution".                        *)
SequentialOnlyRespected ==
    ByNode /\ args.sequentialOnly => ran.way = "sequential"

(* "--compute: Simulate compute-intensive transactions (default: false)":  *)
(* work is only simulated when the configuration asks for it.              *)
SimulatedOnRequest == ran.simulated => Config.Simulate
=============================================================================
