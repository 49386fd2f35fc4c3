------------------------- MODULE MCParallelExecutor -------------------------
(***************************************************************************)
(* Instances of ParallelExecutor for TLC: alice and bob have accounts,     *)
(* carol has none before somebody pays her.                                *)
(***************************************************************************)
EXTENDS ParallelExecutor

CONSTANTS alice, bob, carol

MCAccounts ==
    [n \in AccountName |->
        IF n \in {Plain(alice), Plain(bob)} THEN [Balance |-> 1, Nonce |-> 0]
        ELSE NoAccount]

Pay(from, to, amount) ==
    [Sender |-> from, Recipient |-> to, Amount |-> amount, Nonce |-> 0,
     Signed |-> TRUE]

(* To an account, to a new one, and more than there is.                    *)
Payments == {Pay(alice, bob, 1), Pay(alice, carol, 1), Pay(bob, carol, 2)}
=============================================================================
