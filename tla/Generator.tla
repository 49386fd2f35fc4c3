----------------------------- MODULE Generator -----------------------------
(***************************************************************************)
(* generateTransactions of main.go: the goroutine that creates the users   *)
(* and submits payments between them, in patterns, one after the other.    *)
(* A user is its number.  SubmitTransaction accepts each payment: a user   *)
(* has 100 or more, no payment is above 5, and in the node no balance and  *)
(* no nonce ever moves (Accounts), so a sender's nonce is 0 each time it   *)
(* is read.                                                                *)
(***************************************************************************)
EXTENDS Integers, Sequences, FiniteSets

CONSTANT Requests   \* values of --txs

ASSUME GeneratorAssumption == Requests \subseteq Nat

VARIABLES
    numTransactions, testMode, \* the arguments
    users,          \* users with an account
    gpc, i, j,       \* the loop that runs, and its counters
    submitted       \* everything submitted so far

genVars == <<numTransactions, testMode, users, gpc, i, j, submitted>>

-----------------------------------------------------------------------------
Modes == {"small", "medium", "complex", "mixed", "unknown"}

(* The shares of the three kinds, in tenths; an unknown mode is "mixed".   *)
SimpleTenths ==
    CASE testMode = "small" -> 9 [] testMode = "medium" -> 3
      [] testMode = "complex" -> 1 [] OTHER -> 6

MediumTenths ==
    CASE testMode = "small" -> 1 [] testMode = "medium" -> 6 [] OTHER -> 3

simpleCount == (numTransactions * SimpleTenths) \div 10
mediumCount == (numTransactions * MediumTenths) \div 10

(* Mutant: the complex ones get their share of the whole, rounded down.    *)
complexShare == (numTransactions * (10 - SimpleTenths - MediumTenths)) \div 10

complexCount == numTransactions - simpleCount - mediumCount

patternCount == complexCount \div 3

Payment(pattern, from, to, amount) ==
    [Pattern |-> pattern, Round |-> i, Sender |-> from, Recipient |-> to,
     Amount |-> amount, Nonce |-> 0]

-----------------------------------------------------------------------------
(* Five users are there from blockchain.New.                               *)
GenInit ==
    /\ numTransactions \in Requests /\ testMode \in Modes
    /\ users = 0 .. 4
    /\ gpc = "users" /\ i = 0 /\ j = 0
    /\ submitted = <<>>

NewUsers == 5 .. 19

CreateUsers ==
    /\ gpc = "users"
    /\ users' = users \cup NewUsers
    /\ gpc' = "independent"
    /\ UNCHANGED <<numTransactions, testMode, i, j, submitted>>

Submit(payment) == submitted' = Append(submitted, payment)

(* One turn of the loop `pattern`, which has n of them.                    *)
Turn(pattern, n, payment) ==
    /\ gpc = pattern /\ i < n
    /\ Submit(payment)
    /\ i' = i + 1
    /\ UNCHANGED <<numTransactions, testMode, users, gpc, j>>

Independent ==
    Turn("independent", simpleCount,
         Payment("independent", i % 15, ((i % 15) + 5) % 20, 1 + (i % 5)))

Sequential ==
    Turn("sequential", mediumCount, Payment("sequential", i % 3, 10 + (i % 10), 1))

chainLength == 3 + (i % 3)
baseIdx     == i % 10

(* Mutant: the circle is left open.                                        *)
NextInChain == (baseIdx + j + 1) % 20

(* The last one of a circle pays the first.                                *)
NextInCircle == IF j = chainLength - 1 THEN baseIdx ELSE (baseIdx + j + 1) % 20

Circular ==
    /\ gpc = "circular" /\ i < patternCount
    /\ Submit(Payment("circular", (baseIdx + j) % 20, NextInCircle, 1))
    /\ IF j = chainLength - 1 THEN i' = i + 1 /\ j' = 0
       ELSE j' = j + 1 /\ UNCHANGED i
    /\ UNCHANGED <<numTransactions, testMode, users, gpc>>

ManySenders == (i % 19) + 1

ManyToOne ==
    Turn("manyToOne", patternCount, Payment("manyToOne", ManySenders, 0, 1))

remainingCount == complexCount - 2 * patternCount

OneToMany ==
    Turn("oneToMany", remainingCount, Payment("oneToMany", 1, (i % 18) + 2, 1))

Loops == <<"independent", "sequential", "circular", "manyToOne", "oneToMany", "done">>

TurnsOf(k) ==
    <<simpleCount, mediumCount, patternCount, patternCount, remainingCount>>[k]

LoopEnds ==
    \E k \in 1 .. 5 :
        /\ gpc = Loops[k] /\ i >= TurnsOf(k)
        /\ gpc' = Loops[k + 1] /\ i' = 0
        /\ UNCHANGED <<numTransactions, testMode, users, j, submitted>>

Done == gpc = "done" /\ UNCHANGED genVars

GenStep ==
    \/ CreateUsers \/ Independent \/ Sequential \/ Circular \/ ManyToOne
    \/ OneToMany \/ LoopEnds

GenNext == GenStep \/ Done

GenSpec == GenInit /\ [][GenNext]_genVars

-----------------------------------------------------------------------------
Of(pattern) == {k \in DOMAIN submitted : submitted[k].Pattern = pattern}

(* "A->B->C->A": once its last payment is out, every user of a circle has  *)
(* paid once and been paid once.                                           *)
CirclesClose ==
    \A r \in 0 .. patternCount - 1 :
        LET circle == {k \in Of("circular") : submitted[k].Round = r}
            payers == {submitted[k].Sender : k \in circle}
            payees == {submitted[k].Recipient : k \in circle}
        IN  (gpc \in {"manyToOne", "oneToMany", "done"} \/ (gpc = "circular" /\ i > r))
                => payers = payees /\ Cardinality(payers) = Cardinality(circle)

(* generateTransactions splits the number asked for and nothing is lost in *)
(* rounding: apart from the circles, which are longer than counted, the    *)
(* patterns add up to it.                                                  *)
CountsAddUp ==
    gpc = "done" =>
        Len(submitted) - Cardinality(Of("circular")) + patternCount = numTransactions

-----------------------------------------------------------------------------
(* What a comment or the README says and the program does not do.  The     *)
(* README tells which run shows it, with which property in its .cfg.       *)

(* "Number of transactions to generate": never more than asked for.        *)
CountRespected == Len(submitted) <= numTransactions

(* "Different senders, different recipients": no two of the independent    *)
(* transactions have the same sender, or the same recipient.               *)
IndependentAreIndependent ==
    \A k, m \in Of("independent") :
        k /= m => /\ submitted[k].Sender /= submitted[m].Sender
                  /\ submitted[k].Recipient /= submitted[m].Recipient

(* "Same sender with increasing nonces".                                   *)
NoncesIncrease ==
    \A k, m \in Of("sequential") :
        (k < m /\ submitted[k].Sender = submitted[m].Sender)
            => submitted[k].Nonce < submitted[m].Nonce
=============================================================================
