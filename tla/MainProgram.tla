---------------------------- MODULE MainProgram -----------------------------
(***************************************************************************)
(* func main: it configures the node from the arguments, starts            *)
(* generateTransactions and runs the simulation.  The goroutine and the    *)
(* rounds interleave from there on.  What they share is the arguments and  *)
(* the submissions: a block holds no more than was submitted so far.  When *)
(* main returns, the process exits, however far the generator has come.    *)
(***************************************************************************)
EXTENDS ExecutionStrategy, Generator

ProgramInit == Init /\ GenInit /\ testMode = args.mode

(* `go generateTransactions` comes after createConfiguration.              *)
Generate ==
    /\ pc \notin {"configure", "exited"}
    /\ GenStep
    /\ UNCHANGED vars

(* A round has at most what was submitted to propose: each mempool holds a *)
(* transaction once (MempoolRace), however often blocks have included it.  *)
Simulate ==
    /\ Step
    /\ newBlock'.n <= Len(submitted)
    /\ UNCHANGED genVars

ProgramNext == Generate \/ Simulate \/ (Exited /\ UNCHANGED genVars)

ProgramSpec == ProgramInit /\ [][ProgramNext]_<<vars, genVars>>
=============================================================================
