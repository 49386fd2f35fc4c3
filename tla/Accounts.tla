------------------------------ MODULE Accounts ------------------------------
(***************************************************************************)
(* The account store and what executing a block does to it: package state, *)
(* package transaction, and the net effect of package execution on the     *)
(* accounts.  There are no variables here; StateStore and Blockchain build *)
(* their actions from these operators.                                     *)
(***************************************************************************)
EXTENDS Integers, FiniteSets

CONSTANTS Addr,        \* the addresses transactions name, e.g. {"alice", "bob"}
          NoAccount,   \* what the Accounts map holds for a missing key
          GenesisRoot, \* the literal "genesis_state_root"
          NoRoot       \* the empty string: StateRoot of an unexecuted block

-----------------------------------------------------------------------------
(* The keys of the Accounts map are strings.  Besides an address "a" the   *)
(* program only ever stores under "a:balance" and "a:nonce" (see           *)
(* ParsedName), so a key is an address with a suffix.                      *)
Field == {"balance", "nonce"}

AccountName == [addr : Addr, suffix : {""} \cup Field]

Plain(a) == [addr |-> a, suffix |-> ""]

Account == [Balance : Int, Nonce : Nat]

AccountMap == [AccountName -> Account \cup {NoAccount}]

ZeroAccount == [Balance |-> 0, Nonce |-> 0]

Transaction == [Sender : Addr, Recipient : Addr, Amount : Nat, Nonce : Nat,
                Signed : BOOLEAN]

(* transaction.New: the ID is a function of sender and nonce only.         *)
TxID(t) == <<t.Sender, t.Nonce>>

(* CalculateStateRoot hashes the sorted account list, so equal roots mean  *)
(* equal accounts: the root of a store is modelled by the accounts.        *)
RootOf(acc) == acc

Root == AccountMap \cup {GenesisRoot, NoRoot}

Exists(acc, a) == acc[Plain(a)] /= NoAccount

(* Mutant: a nonce from the future will do.                                *)
NonceNotSpent(acc, t) == t.Nonce >= acc[Plain(t.Sender)].Nonce

NonceMatches(acc, t) == t.Nonce = acc[Plain(t.Sender)].Nonce

(* Mutant: it is enough that the sender has money.                         *)
BalancePositive(acc, t) == acc[Plain(t.Sender)].Balance > 0

BalanceCovers(acc, t) == acc[Plain(t.Sender)].Balance >= t.Amount

(* The common checks of state.ExecuteTransaction, executeTransaction and   *)
(* validateTransaction: the sender exists, nonce matches, balance covers.  *)
CanExecute(acc, t) ==
    Exists(acc, t.Sender) /\ NonceMatches(acc, t) /\ BalanceCovers(acc, t)

(* Blockchain.validateTransaction: the checks above and a signature.       *)
ValidTransaction(acc, t) == CanExecute(acc, t) /\ t.Signed

-----------------------------------------------------------------------------
(* state.State.ExecuteTransaction once its checks pass: the recipient is   *)
(* created on demand, then debit, credit and nonce, in that order, on      *)
(* records that are the same one when sender = recipient.                  *)

(* Mutant: the recipient is created anew though it exists.                 *)
OpenAfresh(acc, t) == [acc EXCEPT ![Plain(t.Recipient)] = ZeroAccount]

OpenRecipient(acc, t) ==
    IF Exists(acc, t.Recipient) THEN acc
    ELSE [acc EXCEPT ![Plain(t.Recipient)] = ZeroAccount]

Debit(acc, t) == [acc EXCEPT ![Plain(t.Sender)].Balance = @ - t.Amount]

Credit(acc, t) == [acc EXCEPT ![Plain(t.Recipient)].Balance = @ + t.Amount]

(* Mutant: the nonce goes down.                                            *)
NonceDown(acc, t) == [acc EXCEPT ![Plain(t.Sender)].Nonce = @ - 1]

NonceUp(acc, t) == [acc EXCEPT ![Plain(t.Sender)].Nonce = @ + 1]

Transfer(acc, t) == NonceUp(Credit(Debit(OpenRecipient(acc, t), t), t), t)

-----------------------------------------------------------------------------
(* What a block does to the accounts.  txs is the set of its transactions, *)
(* n their number.                                                         *)

(* The sequential loop of ExecuteBlock hands every transaction over as a   *)
(* *transaction.Transaction, a form ExecuteTransaction rejects, and skips  *)
(* to the next one on the error: the copy stays as it was.                 *)
SequentialResult(acc, txs) == acc

(* Write-set keys of executeTransaction, "account:<addr>:<field>".         *)
WriteKeys(t) == { <<t.Sender, "balance">>, <<t.Sender, "nonce">>,
                  <<t.Recipient, "balance">> }

(* applyChanges parses the key with Sscanf "account:%s:%s".  %s runs to    *)
(* the next white space, so the whole of "<addr>:<field>" is the address   *)
(* and field stays "": no case of the switch on field is taken, and all    *)
(* that is left is the account opened under that address.                  *)
ParsedName(key) == [addr |-> key[1], suffix |-> key[2]]

(* Names a block's executed transactions may open: the parsed keys, and    *)
(* in executeSequential (batches below the minimum, which run on the copy  *)
(* that is committed) the recipients too.                                  *)
OpenedNames(txs, n, minBatch) ==
    { ParsedName(key) : key \in UNION { WriteKeys(t) : t \in txs } }
    \cup (IF n < minBatch THEN { Plain(t.Recipient) : t \in txs } ELSE {})

(* ParallelExecutor.ExecuteBatch: both of its ways leave exactly this.     *)
(* Balances and nonces never move inside a batch and a sender exists since *)
(* submission, so which transactions pass the checks is settled at its     *)
(* start, whatever order the workers answer in.                            *)
BatchResult(acc, txs, n, minBatch) ==
    LET opened == OpenedNames({t \in txs : CanExecute(acc, t)}, n, minBatch)
    IN  [name \in AccountName |->
            IF name \in opened /\ acc[name] = NoAccount THEN ZeroAccount
            ELSE acc[name]]
=============================================================================
