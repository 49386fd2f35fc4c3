------------------------ MODULE BlockchainInvariant -------------------------
(***************************************************************************)
(* The inductive invariant behind the proofs: where the pipeline stands    *)
(* for each position of main.                                              *)
(***************************************************************************)
EXTENDS BlockchainProperties

(* The height finalized, and executed once main is done with a round; and  *)
(* the height executed before main has worked on the block it finalized.   *)
Done   == IF CurrentHeight <= 1 THEN -1 ELSE CurrentHeight - 1
Before == IF CurrentHeight <= 2 THEN -1 ELSE CurrentHeight - 2

Idle == pc \in {"propose", "vote", "add", "rotate"}

Working == pc \in {"check", "use", "execute", "verify"}

(* The queue of finalized blocks holds at most the block below the tip:    *)
(* AddBlock fills it, and ProcessPendingExecutions drains it before main   *)
(* gets to the next proposal.                                              *)
QueueInv ==
    /\ Len(Blocks) = CurrentHeight + 1
    /\ LastFinalizedHeight = Done
    /\ pc /= "propose" => round < NumRounds
    /\ Idle => /\ PendingExecutions = <<>> /\ pendingBlocks = <<>>
               /\ LastExecutedHeight = Done
    /\ pc = "process" =>
           /\ CurrentHeight >= 1
           /\ PendingExecutions =
                  IF CurrentHeight > 1 THEN <<CurrentHeight - 1>> ELSE <<>>
           /\ pendingBlocks = <<>>
           /\ LastExecutedHeight = Before
    /\ Working => /\ CurrentHeight >= 2
                  /\ PendingExecutions = <<>>
                  /\ pendingBlocks = <<CurrentHeight - 1>>
    /\ pc \in {"check", "use", "execute", "crashed"} => LastExecutedHeight = Before
    /\ pc = "verify" => LastExecutedHeight = Done
    /\ pc = "use" => specRoot \in AccountMap

(* VerifyBlock in the same terms.                                          *)
VerifiedInv ==
    /\ ExecutionDelay >= 2 => LastVerifiedHeight = -1
    /\ ExecutionDelay <= 1 => LastVerifiedHeight =
           IF pc = "verify" THEN Before ELSE LastExecutedHeight

(* Status and state root of every block above genesis.                     *)
BlocksInv ==
    \A h \in Above :
        /\ BlockAt(h).Status \in {"Finalized", "Verified"} <=> h < CurrentHeight
        /\ h > LastExecutedHeight => BlockAt(h).StateRoot = NoRoot
        /\ h <= LastExecutedHeight => BlockAt(h).StateRoot \in AccountMap

(* PendingStateRoots only holds roots that are in their blocks too.        *)
RootsInv ==
    \A h \in DOMAIN PendingStateRoots :
        /\ h \in 1 .. LastExecutedHeight
        /\ PendingStateRoots[h] = BlockAt(h).StateRoot

(* The block under way between ProposeBlock and AddBlock.                  *)
ProposalInv ==
    pc \in {"vote", "add"} =>
        /\ newBlock.Height = CurrentHeight + 1
        /\ newBlock.PreviousHash = BlockAt(CurrentHeight).Hash
        /\ newBlock.Proposer \in newBlock.Signatures
        /\ newBlock.StateRoot = NoRoot
        /\ newBlock.Status = IF pc = "vote" THEN "Proposed" ELSE "Voted"
        /\ pc = "vote" => newBlock.Signatures = {newBlock.Proposer}
        /\ pc = "add" => Quorum(Cardinality(newBlock.Signatures))

PipelineInv ==
    TypeOK /\ QueueInv /\ VerifiedInv /\ BlocksInv /\ RootsInv /\ ProposalInv
=============================================================================
