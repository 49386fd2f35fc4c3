-------------------------- MODULE FinalityPipeline --------------------------
(***************************************************************************)
(* What the node promises about ordering and execution, with no validator, *)
(* no mempool, no goroutine and no mutex: blocks are appended to a log,    *)
(* appending a block makes the ones before it final, and only final blocks *)
(* are executed, one at a time, in log order, each exactly once and with a *)
(* result that never changes.  Blockchain implements it                    *)
(* (BlockchainProperties!Pipeline).                                        *)
(***************************************************************************)
EXTENDS Integers, Sequences

CONSTANTS Entry,   \* what the log holds: the hashes of the blocks
          Result   \* what executing a block yields: a state root

VARIABLES log,       \* the blocks above genesis
          finalized, \* how many of them are final
          results    \* results[i] is the outcome of executing log[i]

pipelineVars == <<log, finalized, results>>

PipelineInit == log = <<>> /\ finalized = 0 /\ results = <<>>

Longer(s, t, S) ==
    /\ t \in Seq(S)
    /\ Len(t) = Len(s) + 1
    /\ \A i \in 1 .. Len(s) : t[i] = s[i]

(* A block is appended; everything below it becomes final.                 *)
Extend ==
    /\ Longer(log, log', Entry)
    /\ finalized' = Len(log)
    /\ UNCHANGED results

(* The next final block is executed.                                       *)
Execute ==
    /\ Len(results) < finalized
    /\ Longer(results, results', Result)
    /\ UNCHANGED <<log, finalized>>

PipelineNext == Extend \/ Execute

PipelineSpec == PipelineInit /\ [][PipelineNext]_pipelineVars
=============================================================================
