---------------------------- MODULE MCBlockchain ----------------------------
(***************************************************************************)
(* Instances of Blockchain for TLC: four users, a handful of transactions.  *)
(***************************************************************************)
EXTENDS BlockchainInvariant

CONSTANTS alice, bob, carol, dan

MCAccounts ==
    [n \in AccountName |->
        IF n.suffix = "" THEN [Balance |-> 2, Nonce |-> 0] ELSE NoAccount]

Pay(from, to, nonce) ==
    [Sender |-> from, Recipient |-> to, Amount |-> 1, Nonce |-> nonce,
     Signed |-> TRUE]

OnePayment == {Pay(alice, bob, 0)}

(* Two payments that have no account in common.                            *)
TwoPayments == OnePayment \cup {Pay(carol, dan, 0)}
=============================================================================
