--------------------------- MODULE BatchExecution ---------------------------
(***************************************************************************)
(* What a caller of ExecuteBatch may rely on, whatever executing a         *)
(* transaction does: the accounts change once per call, and what they      *)
(* become and how the transactions are answered depends on the accounts    *)
(* before the call and on the list, and on nothing else.  No worker, no    *)
(* channel and no order of answers has a say in it.                        *)
(***************************************************************************)
CONSTANTS Lists,          \* the lists of transactions it may be called with
          StartAccounts, NoCall,
          Effect(_, _),   \* the accounts after a call ...
          Answers(_, _)   \* ... and its results: any two functions

VARIABLES accounts, call, reply

BatchInit == accounts = StartAccounts /\ call = NoCall /\ reply = {}

Invoke(list) ==
    /\ call = NoCall
    /\ call' = list /\ reply' = {}
    /\ UNCHANGED accounts

Return ==
    /\ call /= NoCall
    /\ accounts' = Effect(accounts, call)
    /\ reply' = Answers(accounts, call)
    /\ call' = NoCall

InvokeEmpty ==
    /\ call = NoCall
    /\ reply' = {}
    /\ UNCHANGED <<accounts, call>>

BatchNext == (\E list \in Lists : Invoke(list)) \/ Return \/ InvokeEmpty

BatchSpec == BatchInit /\ [][BatchNext]_<<accounts, call, reply>>
=============================================================================
