---------------------------- MODULE MCScheduling ----------------------------
(***************************************************************************)
(* Instances of Scheduling for TLC.                                        *)
(***************************************************************************)
EXTENDS Scheduling

CONSTANTS alice, bob, carol

Pay(from, to, nonce) == [Sender |-> from, Recipient |-> to, Nonce |-> nonce]

(* Nonces that follow each other and nonces that do not, and the pairs     *)
(* that make chains and a circle.                                          *)
WithNonces == {Pay(alice, bob, 0), Pay(alice, carol, 1), Pay(bob, carol, 0),
               Pay(bob, alice, 1), Pay(bob, carol, 2), Pay(carol, alice, 0)}
=============================================================================
