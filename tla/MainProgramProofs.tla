------------------------- MODULE MainProgramProofs --------------------------
(***************************************************************************)
(* Where the switch of runSimulation stands, for any number of rounds, any *)
(* sizes of blocks and any arguments; and that in the whole program each   *)
(* of its two goroutines does what its own module says, so that whatever   *)
(* is proved of the one holds whatever the other does.                     *)
(***************************************************************************)
EXTENDS MainProgram, GeneratorProofs, TLAPS

Half == NumRounds \div 2

TypeInv ==
    /\ args \in Args
    /\ Config \in [Parallel : BOOLEAN, MinBatch : Nat, Simulate : BOOLEAN]
    /\ originalParallelSetting \in BOOLEAN
    /\ pc \in {"configure", "start", "switch", "benchmark", "vote", "report", "exited"}
    /\ round \in Nat
    /\ newBlock.n \in Int /\ tip.n \in Int
    /\ \A b \in speculating : b.n \in Int

(* Before the loop there is nothing to execute; in it the strategy is off  *)
(* until the round of the switch, whatever it was before.                  *)
SwitchInv ==
    /\ pc \in {"configure", "start"} =>
           round = 0 /\ speculating = {} /\ ~ByNode
    /\ pc \in {"switch", "benchmark", "vote"} /\ Config.Parallel => round >= Half
    /\ pc \in {"report", "exited"} => round >= Half

StrategyInv == TypeInv /\ SwitchInv /\ ThresholdsAgree /\ FirstHalfOff

-----------------------------------------------------------------------------
LEMMA HalfType == Half \in Nat /\ Half <= NumRounds
BY StrategyAssumption DEF Half

LEMMA ConfigurationType ==
    ASSUME TypeInv
    PROVE  createConfiguration \in [Parallel : BOOLEAN, MinBatch : Nat, Simulate : BOOLEAN]
<1>1. FlagValues \in [Parallel : BOOLEAN, MinBatch : Nat, Simulate : BOOLEAN]
  BY StrategyAssumption DEF TypeInv, Args, FlagValues
<1> QED BY <1>1 DEF createConfiguration, Preset

(* Both decisions on one block, taken one after the other.                 *)
LEMMA ExecutionDecides ==
    ASSUME TypeInv, NEW b, b.n \in Int
    PROVE  /\ Execution(b).by = "node" /\ Execution(b).simulated = Config.Simulate
           /\ Execution(b).way = "smallBatch" => Config.Simulate
           /\ Execution(b).way /= "sequential" => Config.Parallel
BY DEF TypeInv, Execution, UseParallel, ExecuteBatch, NodeMinBatch

LEMMA BenchmarkIsNotNode ==
    ASSUME NEW b PROVE Benchmark(b).by /= "node"
BY DEF Benchmark

LEMMA StrategyStep == ASSUME StrategyInv, [Next]_vars PROVE StrategyInv'
<1> USE DEF StrategyInv
<1>1. CASE Configure
  BY <1>1, ConfigurationType
     DEF Configure, TypeInv, SwitchInv, ThresholdsAgree, FirstHalfOff, ByNode
<1>2. CASE StartSimulation
  BY <1>2 DEF StartSimulation, SwitchedOff, TypeInv, SwitchInv, ThresholdsAgree,
              FirstHalfOff, ByNode
<1>3. CASE BeginRound
  <2>1. /\ Config' \in [Parallel : BOOLEAN, MinBatch : Nat, Simulate : BOOLEAN]
        /\ Config'.Parallel = IF round = Half THEN originalParallelSetting
                              ELSE Config.Parallel
        /\ Config'.Parallel \in BOOLEAN
    <3>1. Config' = [Config EXCEPT !.Parallel =
                        IF round = Half THEN originalParallelSetting ELSE Config.Parallel]
      BY <1>3 DEF BeginRound, Half
    <3> QED BY <3>1 DEF TypeInv
  <2>2. newBlock'.n \in Int
    BY <1>3, StrategyAssumption DEF BeginRound, TypeInv
  <2>3. /\ pc = "switch" /\ pc' \in {"switch", "benchmark"}
        /\ round' = round \/ round' = round + 1
        /\ UNCHANGED <<args, originalParallelSetting, tip, speculating, ran>>
    BY <1>3 DEF BeginRound
  <2>4. TypeInv'
    BY <2>1, <2>2, <2>3 DEF TypeInv
  <2>5. Config'.Parallel => round' >= Half
    BY <2>1, <2>3, HalfType DEF TypeInv, SwitchInv
  <2>6. FirstHalfOff'
    BY <2>3, HalfType DEF TypeInv, FirstHalfOff, ByNode, Half
  <2>7. ThresholdsAgree'
    BY <2>3 DEF ThresholdsAgree, ByNode
  <2> QED BY <2>3, <2>4, <2>5, <2>6, <2>7 DEF SwitchInv
<1>4. CASE RunBlockBenchmark
  BY <1>4, BenchmarkIsNotNode
     DEF RunBlockBenchmark, TypeInv, SwitchInv, ThresholdsAgree, FirstHalfOff, ByNode
<1>5. CASE BlockRefused
  <2>1. TypeInv'
    BY <1>5 DEF BlockRefused, NextRound, NoBlock, TypeInv
  <2>2. pc = "vote" /\ pc' = "switch" /\ round' = round + 1 /\ UNCHANGED <<Config, ran>>
    BY <1>5 DEF BlockRefused, NextRound
  <2> QED BY <2>1, <2>2, HalfType
          DEF TypeInv, SwitchInv, ThresholdsAgree, FirstHalfOff, ByNode, Half
<1>6. CASE AddAndProcess
  <2>1. /\ pc = "vote" /\ pc' = "switch" /\ round' = round + 1
        /\ tip' = newBlock /\ newBlock' = NoBlock
        /\ UNCHANGED <<args, Config, originalParallelSetting>>
        /\ ran' \in {ran} \cup {Execution(b) : b \in {tip} \ {NoBlock}}
    BY <1>6 DEF AddAndProcess, NextRound
  <2>2. \A b \in speculating' : b.n \in Int
    <3>1. PICK b \in {newBlock, [n |-> BlockSize, Round |-> round + 1]} :
                speculating' = speculating \cup {b}
      BY <1>6 DEF AddAndProcess
    <3>2. b.n \in Int
      BY <3>1, StrategyAssumption DEF TypeInv
    <3> QED BY <3>1, <3>2 DEF TypeInv
  <2>3. TypeInv'
    BY <2>1, <2>2 DEF TypeInv, NoBlock
  <2>4. ran' = ran \/ ran' = Execution(tip)
    BY <2>1
  <2>5. ThresholdsAgree' /\ FirstHalfOff'
    <3>1. CASE ran' = ran
      BY <2>1, <3>1, HalfType
         DEF TypeInv, ThresholdsAgree, FirstHalfOff, ByNode, Half
    <3>2. CASE ran' = Execution(tip)
      BY <2>1, <3>2, ExecutionDecides, HalfType
         DEF TypeInv, SwitchInv, ThresholdsAgree, FirstHalfOff, ByNode, Half
    <3> QED BY <2>4, <3>1, <3>2
  <2>6. SwitchInv'
    BY <2>1, HalfType DEF TypeInv, SwitchInv
  <2> QED BY <2>3, <2>5, <2>6
<1>7. CASE EndSimulation
  BY <1>7, HalfType
     DEF EndSimulation, TypeInv, SwitchInv, ThresholdsAgree, FirstHalfOff, ByNode
<1>8. CASE Exit
  BY <1>8 DEF Exit, TypeInv, SwitchInv, ThresholdsAgree, FirstHalfOff, ByNode
<1>9. ASSUME NEW b \in speculating, SpeculativeExecute(b) PROVE StrategyInv'
  <2>1. /\ pc \notin {"configure", "start"} /\ ran' = Execution(b) /\ b.n \in Int
        /\ speculating' = speculating \ {b}
        /\ UNCHANGED <<args, Config, originalParallelSetting, pc, round, newBlock, tip>>
    BY <1>9 DEF SpeculativeExecute, TypeInv, SwitchInv
  <2>2. TypeInv' /\ SwitchInv'
    BY <2>1 DEF TypeInv, SwitchInv
  <2>3. ran'.way /= "sequential" => round' >= Half
    BY <2>1, ExecutionDecides DEF TypeInv, SwitchInv
  <2>4. ThresholdsAgree' /\ FirstHalfOff'
    BY <2>1, <2>3, ExecutionDecides DEF ThresholdsAgree, FirstHalfOff, ByNode, Half
  <2> QED BY <2>2, <2>4
<1>10. CASE UNCHANGED vars
  BY <1>10 DEF vars, TypeInv, SwitchInv, ThresholdsAgree, FirstHalfOff, ByNode
<1> QED BY <1>1, <1>2, <1>3, <1>4, <1>5, <1>6, <1>7, <1>8, <1>9, <1>10 DEF Next, Step, Exited

LEMMA StrategyInvariant == Spec => []StrategyInv
<1>1. Init => originalParallelSetting \in BOOLEAN
  BY DEF Init
<1>2. Init => StrategyInv
  BY <1>1 DEF Init, StrategyInv, TypeInv, SwitchInv, ThresholdsAgree, FirstHalfOff,
              ByNode, NotRun, NoBlock
<1> QED BY <1>2, StrategyStep, PTL DEF Spec

(* ExecuteBlock decides by Config.MinBatchSizeForParallel and ExecuteBatch *)
(* by the minimum that was last set in the executor: whatever the sizes    *)
(* and the arguments, they agree unless computing is simulated.            *)
THEOREM DecisionsAgree == Spec => []ThresholdsAgree
<1>1. StrategyInv => ThresholdsAgree
  BY DEF StrategyInv
<1> QED BY <1>1, StrategyInvariant, PTL

(* "Toggle parallel execution off for the first half of blocks" (main.go): *)
(* no block is executed in parallel before the round of the switch.        *)
THEOREM OffUntilTheSwitch == Spec => []FirstHalfOff
<1>1. StrategyInv => FirstHalfOff
  BY DEF StrategyInv
<1> QED BY <1>1, StrategyInvariant, PTL

-----------------------------------------------------------------------------
(* The rounds and the generator get into each other's way nowhere: a step  *)
(* of the program is one of the simulation, or one of the generator, and   *)
(* leaves the variables of the other alone.                                *)
THEOREM ProgramRunsBoth == ProgramSpec => Spec /\ GenSpec
<1>1. ProgramInit => Init /\ GenInit
  BY DEF ProgramInit
<1>2. [ProgramNext]_<<vars, genVars>> => [Next]_vars
  BY DEF ProgramNext, Generate, Simulate, Next
<1>3. [ProgramNext]_<<vars, genVars>> => [GenNext]_genVars
  BY DEF ProgramNext, Generate, Simulate, GenNext
<1> QED BY <1>1, <1>2, <1>3, PTL DEF ProgramSpec, Spec, GenSpec

(* With that, the program as a whole keeps what each part keeps, whatever  *)
(* the other does meanwhile: decisions that agree, no parallel execution   *)
(* before the switch, circles that close and shares that add up.           *)
THEOREM ProgramKeepsBoth ==
    ProgramSpec => [](ThresholdsAgree /\ FirstHalfOff /\ CirclesClose /\ CountsAddUp)
BY ProgramRunsBoth, DecisionsAgree, OffUntilTheSwitch, EveryCircleCloses, SharesAddUp, PTL
=============================================================================
