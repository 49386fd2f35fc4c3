---------------------------- MODULE MCStateStore ----------------------------
(* Two addresses, every payment among them of 1 or 2 with nonce 0 or 1.    *)
EXTENDS StateStore

MCPayments == [Sender : Addr, Recipient : Addr, Amount : 1 .. 2, Nonce : 0 .. 1,
               Signed : {TRUE}]

NodeForms == {[kind |-> "pointer", typed |-> Fields]}

(* Maps are complete or lack one field.                                    *)
MCForms ==
    NodeForms \cup {[kind |-> "struct", typed |-> Fields]}
    \cup {[kind |-> "map", typed |-> Fields \ S] : S \in {{}} \cup {{f} : f \in Fields}}
=============================================================================
