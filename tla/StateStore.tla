----------------------------- MODULE StateStore -----------------------------
(***************************************************************************)
(* Package state as a machine of its own: one State value, its Accounts    *)
(* map and StateRoot, and the two methods that write them.  Each method    *)
(* holds StateMutex throughout, so a call is one step.                     *)
(***************************************************************************)
EXTENDS Accounts, Sequences, FiniteSetsExt

CONSTANTS Payments,   \* transactions callers may hand over
          Forms,      \* the Go values they hand them over as, see Form
          Deposits,   \* initial balances CreateAccount is called with
          MaxSupply   \* bound on the money CreateAccount puts in circulation

(* A transaction is handed over as an anonymous struct, as a map, or as    *)
(* the *transaction.Transaction the node has.  A map may lack fields, or   *)
(* hold another type in them: typed are those it holds as they should be.  *)
Fields == {"Sender", "Recipient", "Amount", "Nonce"}

Form == [kind : {"struct", "map", "pointer"}, typed : SUBSET Fields]

ASSUME StoreAssumption ==
    /\ Payments \subseteq Transaction
    /\ Forms \subseteq Form
    /\ Deposits \subseteq Nat
    /\ MaxSupply \in Nat
    /\ NoAccount \notin Account

VARIABLES Accounts, StateRoot,
          spent,    \* history: nonces an account has spent since its creation
          minted,   \* history: what CreateAccount put in circulation
          lastCall  \* history: the latest ExecuteTransaction and its outcome

storeVars == <<Accounts, StateRoot, spent, minted, lastCall>>

Outcome == {"none", "nil", "unsupported transaction type",
            "invalid sender type", "invalid recipient type", "invalid amount type",
            "invalid nonce type",
            "sender account not found", "invalid nonce", "insufficient balance"}

NoCall == [due |-> FALSE, err |-> "none"]

Init ==
    /\ Accounts = [n \in AccountName |-> NoAccount]
    /\ StateRoot = RootOf(Accounts)
    /\ spent = [a \in Addr |-> <<>>]
    /\ minted = 0
    /\ lastCall = NoCall

BalanceOf(acc, a) == IF Exists(acc, a) THEN acc[Plain(a)].Balance ELSE 0

(* CreateAccount asks nothing: an account that exists starts over.         *)
NewAccount(balance) == [Balance |-> balance, Nonce |-> 0]

Supply(a, balance) == minted + balance - BalanceOf(Accounts, a)

(* Mutant: the root is not refreshed.                                      *)
CreateWithStaleRoot(a, balance) ==
    /\ Supply(a, balance) <= MaxSupply
    /\ Accounts' = [Accounts EXCEPT ![Plain(a)] = NewAccount(balance)]
    /\ spent' = [spent EXCEPT ![a] = <<>>]
    /\ minted' = Supply(a, balance)
    /\ UNCHANGED <<StateRoot, lastCall>>

CreateAccount(a, balance) ==
    /\ Supply(a, balance) <= MaxSupply
    /\ Accounts' = [Accounts EXCEPT ![Plain(a)] = NewAccount(balance)]
    /\ StateRoot' = RootOf(Accounts')
    /\ spent' = [spent EXCEPT ![a] = <<>>]
    /\ minted' = Supply(a, balance)
    /\ UNCHANGED lastCall

(* The type switch of ExecuteTransaction knows a bare struct and a map,    *)
(* and reads the fields of a map one by one.                               *)
ReadError(form) ==
    IF form.kind = "struct" THEN "nil"
    ELSE IF form.kind /= "map" THEN "unsupported transaction type"
    ELSE IF "Sender" \notin form.typed THEN "invalid sender type"
    ELSE IF "Recipient" \notin form.typed THEN "invalid recipient type"
    ELSE IF "Amount" \notin form.typed THEN "invalid amount type"
    ELSE IF "Nonce" \notin form.typed THEN "invalid nonce type"
    ELSE "nil"

(* The error ExecuteTransaction returns, in the order it checks.           *)
ErrorOf(t, form) ==
    IF ReadError(form) /= "nil" THEN ReadError(form)
    ELSE IF ~Exists(Accounts, t.Sender) THEN "sender account not found"
    ELSE IF ~NonceMatches(Accounts, t) THEN "invalid nonce"
    ELSE IF ~BalanceCovers(Accounts, t) THEN "insufficient balance"
    ELSE "nil"

Call(t, form) ==
    /\ lastCall' = [due |-> CanExecute(Accounts, t), err |-> ErrorOf(t, form)]
    /\ UNCHANGED minted

ExecuteSucceeds(t, form) ==
    /\ ErrorOf(t, form) = "nil"
    /\ Call(t, form)
    /\ Accounts' = Transfer(Accounts, t)
    /\ StateRoot' = RootOf(Accounts')
    /\ spent' = [spent EXCEPT ![t.Sender] = Append(@, t.Nonce)]

ExecuteFails(t, form) ==
    /\ ErrorOf(t, form) /= "nil"
    /\ Call(t, form)
    /\ UNCHANGED <<Accounts, StateRoot, spent>>

Next ==
    \/ \E a \in Addr, balance \in Deposits : CreateAccount(a, balance)
    \/ \E t \in Payments, form \in Forms : ExecuteSucceeds(t, form)
    \/ \E t \in Payments, form \in Forms : ExecuteFails(t, form)

Spec == Init /\ [][Next]_storeVars

-----------------------------------------------------------------------------
(* Types of the account map and of the histories.                          *)
TypeOK ==
    /\ Accounts \in AccountMap
    /\ StateRoot \in AccountMap
    /\ spent \in [Addr -> Seq(Nat)]
    /\ minted \in Int
    /\ lastCall \in [due : BOOLEAN, err : Outcome]

(* ExecuteTransaction spends the nonces of an account in order, with no    *)
(* gap and no repetition, and the Nonce field counts them: no transaction  *)
(* runs twice while its sender's account is not created again.             *)
SpentInOrder ==
    \A a \in Addr :
        /\ Len(spent[a]) = IF Exists(Accounts, a) THEN Accounts[Plain(a)].Nonce ELSE 0
        /\ \A i \in 1 .. Len(spent[a]) : spent[a][i] = i - 1

(* The balance check of ExecuteTransaction keeps every balance from going  *)
(* below zero, transfers to oneself included.                              *)
NoOverdraft == \A a \in Addr : BalanceOf(Accounts, a) >= 0

(* Debit and credit cancel out, even when sender and recipient are the     *)
(* same account or the recipient is new: money comes from CreateAccount.   *)
SupplyConserved == MapThenSumSet(LAMBDA a : BalanceOf(Accounts, a), Addr) = minted

(* StateRoot is never older than the accounts it stands for.               *)
RootFresh == StateRoot = RootOf(Accounts)

-----------------------------------------------------------------------------
(* What a comment or the README says and the program does not do.  The     *)
(* README tells which run shows it, with which property in its .cfg.       *)

(* "ExecuteTransaction executes a single transaction against the state":   *)
(* one whose sender, nonce and balance are in order is executed, whatever  *)
(* form it is handed over in.                                              *)
DueIsExecuted == lastCall.due => lastCall.err = "nil"
=============================================================================
