-------------------------- MODULE StateStoreProofs --------------------------
(***************************************************************************)
(* Proofs about StateStore: types, the order in which nonces are spent, no *)
(* overdraft, the freshness of the root, and the conservation of money.    *)
(***************************************************************************)
EXTENDS StateStore, WellFoundedInduction, FiniteSetTheorems, TLAPS

LEMMA PlainIsName == \A a \in Addr : Plain(a) \in AccountName
BY DEF Plain, AccountName

LEMMA PlainInjective == \A a, b \in Addr : Plain(a) = Plain(b) => a = b
<1> TAKE a, b \in Addr
<1> HAVE Plain(a) = Plain(b)
<1>1. Plain(a).addr = Plain(b).addr
  OBVIOUS
<1> QED BY <1>1 DEF Plain

LEMMA ExistsIsAccount ==
    ASSUME NEW acc \in AccountMap, NEW a \in Addr, Exists(acc, a)
    PROVE  acc[Plain(a)] \in Account
BY PlainIsName DEF Exists, AccountMap

(* What Transfer does, account by account, to a sender that can pay.       *)
LEMMA TransferEffect ==
    ASSUME NEW acc \in AccountMap, NEW t \in Transaction, CanExecute(acc, t),
           NoAccount \notin Account
    PROVE  LET s == Plain(t.Sender)
               r == Plain(t.Recipient)
               opened == IF Exists(acc, t.Recipient) THEN acc[r] ELSE ZeroAccount
           IN  /\ Transfer(acc, t) \in AccountMap
               /\ s /= r =>
                   /\ Transfer(acc, t)[s] = [Balance |-> acc[s].Balance - t.Amount,
                                             Nonce |-> acc[s].Nonce + 1]
                   /\ Transfer(acc, t)[r] =
                        [Balance |-> opened.Balance + t.Amount, Nonce |-> opened.Nonce]
               /\ s = r =>
                   Transfer(acc, t)[s] = [Balance |-> acc[s].Balance,
                                          Nonce |-> acc[s].Nonce + 1]
               /\ \A n \in AccountName \ {s, r} : Transfer(acc, t)[n] = acc[n]
<1> DEFINE s == Plain(t.Sender)
           r == Plain(t.Recipient)
           opened == IF Exists(acc, t.Recipient) THEN acc
                     ELSE [acc EXCEPT ![r] = ZeroAccount]
           debited == [opened EXCEPT ![s].Balance = @ - t.Amount]
           credited == [debited EXCEPT ![r].Balance = @ + t.Amount]
           result == [credited EXCEPT ![s].Nonce = @ + 1]
<1>1. s \in AccountName /\ r \in AccountName /\ t.Amount \in Nat
  BY PlainIsName DEF Transaction
<1>2. acc[s] \in Account
  BY ExistsIsAccount DEF CanExecute, Transaction
<1>3. opened \in AccountMap /\ opened[s] = acc[s] /\ opened[r] \in Account
      /\ opened[r] = (IF Exists(acc, t.Recipient) THEN acc[r] ELSE ZeroAccount)
      /\ \A n \in AccountName \ {r} : opened[n] = acc[n]
  <2>1. CASE Exists(acc, t.Recipient)
    BY <2>1, <1>1, <1>2, ExistsIsAccount DEF Transaction
  <2>2. CASE ~Exists(acc, t.Recipient)
    <3>1. s /= r
      BY <2>2, <1>2 DEF Exists, CanExecute
    <3> QED BY <3>1, <2>2, <1>1, <1>2 DEF AccountMap, ZeroAccount, Account
  <2> QED BY <2>1, <2>2
<1> HIDE DEF opened
<1>4. debited \in AccountMap
      /\ debited[s] = [Balance |-> acc[s].Balance - t.Amount, Nonce |-> acc[s].Nonce]
      /\ \A n \in AccountName \ {s} : debited[n] = opened[n]
  <2>1. [opened[s] EXCEPT !.Balance = @ - t.Amount] =
            [Balance |-> acc[s].Balance - t.Amount, Nonce |-> acc[s].Nonce]
    BY <1>2, <1>3 DEF Account
  <2>2. debited = [opened EXCEPT ![s] = [Balance |-> acc[s].Balance - t.Amount,
                                         Nonce |-> acc[s].Nonce]]
    BY <2>1, <1>1, <1>3 DEF AccountMap
  <2> QED BY <2>2, <1>1, <1>2, <1>3 DEF AccountMap, Account
<1> HIDE DEF debited
<1>5. debited[r] \in Account
  BY <1>1, <1>2, <1>3, <1>4 DEF Account
<1>6. credited \in AccountMap
      /\ credited[r] = [Balance |-> debited[r].Balance + t.Amount, Nonce |-> debited[r].Nonce]
      /\ \A n \in AccountName \ {r} : credited[n] = debited[n]
  <2>1. [debited[r] EXCEPT !.Balance = @ + t.Amount] =
            [Balance |-> debited[r].Balance + t.Amount, Nonce |-> debited[r].Nonce]
    BY <1>5 DEF Account
  <2>2. credited = [debited EXCEPT ![r] = [Balance |-> debited[r].Balance + t.Amount,
                                           Nonce |-> debited[r].Nonce]]
    BY <2>1, <1>1, <1>4 DEF AccountMap
  <2> QED BY <2>2, <1>1, <1>4, <1>5 DEF AccountMap, Account
<1> HIDE DEF credited
<1>7. credited[s] \in Account
  BY <1>1, <1>2, <1>4, <1>5, <1>6 DEF Account
<1>8. result \in AccountMap
      /\ result[s] = [Balance |-> credited[s].Balance, Nonce |-> credited[s].Nonce + 1]
      /\ \A n \in AccountName \ {s} : result[n] = credited[n]
  <2>1. [credited[s] EXCEPT !.Nonce = @ + 1] =
            [Balance |-> credited[s].Balance, Nonce |-> credited[s].Nonce + 1]
    BY <1>7 DEF Account
  <2>2. result = [credited EXCEPT ![s] = [Balance |-> credited[s].Balance,
                                          Nonce |-> credited[s].Nonce + 1]]
    BY <2>1, <1>1, <1>6 DEF AccountMap
  <2> QED BY <2>2, <1>1, <1>6, <1>7 DEF AccountMap, Account
<1>9. result = Transfer(acc, t)
  BY DEF Transfer, OpenRecipient, Debit, Credit, NonceUp, opened, debited, credited
<1> HIDE DEF result
<1>10. CASE s /= r
  BY <1>1, <1>2, <1>3, <1>4, <1>5, <1>6, <1>7, <1>8, <1>9, <1>10 DEF Account
<1>11. CASE s = r
  <2>1. opened[r] = acc[s]
    BY <1>3, <1>11
  <2>2. result[s] = [Balance |-> (acc[s].Balance - t.Amount) + t.Amount,
                     Nonce |-> acc[s].Nonce + 1]
    BY <1>1, <1>2, <1>4, <1>6, <1>8, <1>11 DEF Account
  <2>3. (acc[s].Balance - t.Amount) + t.Amount = acc[s].Balance
    BY <1>1, <1>2 DEF Account
  <2> QED BY <2>2, <2>3, <1>3, <1>4, <1>6, <1>8, <1>9, <1>11
<1> QED BY <1>10, <1>11

-----------------------------------------------------------------------------
(* The inductive invariant.  Types alone do not carry a step (the nonce    *)
(* must be known to count the nonces spent), so the parts go together.     *)
StoreInv == TypeOK /\ SpentInOrder /\ NoOverdraft /\ RootFresh

LEMMA StoreInit == StoreAssumption /\ Init => StoreInv
<1> SUFFICES ASSUME StoreAssumption, Init PROVE StoreInv
  OBVIOUS
<1>1. Accounts \in AccountMap
  BY DEF Init, AccountMap
<1>2. \A a \in Addr : ~Exists(Accounts, a)
  BY PlainIsName DEF Init, Exists
<1>3. TypeOK
  BY <1>1 DEF TypeOK, Init, RootOf, NoCall, Outcome
<1>4. SpentInOrder /\ NoOverdraft /\ RootFresh
  BY <1>2 DEF SpentInOrder, NoOverdraft, RootFresh, BalanceOf, Init
<1> QED BY <1>3, <1>4 DEF StoreInv

LEMMA ErrorIsOutcome == \A t, form : ErrorOf(t, form) \in Outcome
BY DEF ErrorOf, ReadError, Outcome

LEMMA BalanceIsInteger ==
    ASSUME TypeOK, NEW a \in Addr
    PROVE  BalanceOf(Accounts, a) \in Int
BY ExistsIsAccount DEF TypeOK, BalanceOf, Account

LEMMA CreateAccountKeeps ==
    ASSUME StoreAssumption, StoreInv, NEW a \in Addr, NEW balance \in Deposits,
           CreateAccount(a, balance)
    PROVE  StoreInv'
<1> DEFINE fresh == NewAccount(balance)
<1>1. fresh \in Account /\ fresh /= NoAccount /\ fresh.Balance = balance
      /\ fresh.Nonce = 0 /\ balance \in Nat
  BY DEF NewAccount, Account, StoreAssumption
<1>2. Accounts' \in AccountMap /\ StateRoot' = RootOf(Accounts')
  BY <1>1, PlainIsName DEF CreateAccount, StoreInv, TypeOK, AccountMap
<1>3. \A b \in Addr : /\ b = a => Accounts'[Plain(b)] = fresh
                      /\ b /= a => Accounts'[Plain(b)] = Accounts[Plain(b)]
  BY PlainIsName, PlainInjective DEF CreateAccount, StoreInv, TypeOK, AccountMap
<1>4. TypeOK'
  BY <1>1, <1>2, BalanceIsInteger
     DEF CreateAccount, Supply, StoreInv, TypeOK, RootOf
<1>5. SpentInOrder'
  <2> SUFFICES ASSUME NEW b \in Addr
               PROVE  /\ Len(spent'[b]) = IF Exists(Accounts', b)
                                          THEN Accounts'[Plain(b)].Nonce ELSE 0
                      /\ \A i \in 1 .. Len(spent'[b]) : spent'[b][i] = i - 1
    BY DEF SpentInOrder
  <2>1. CASE b = a
    <3>1. spent'[b] = <<>>
      BY <2>1 DEF CreateAccount, StoreInv, TypeOK
    <3> QED BY <2>1, <3>1, <1>1, <1>3 DEF Exists
  <2>2. CASE b /= a
    <3>1. spent'[b] = spent[b]
      BY <2>2 DEF CreateAccount, StoreInv, TypeOK
    <3> QED BY <2>2, <3>1, <1>3 DEF Exists, StoreInv, SpentInOrder
  <2> QED BY <2>1, <2>2
<1>6. NoOverdraft'
  <2> SUFFICES ASSUME NEW b \in Addr PROVE BalanceOf(Accounts', b) >= 0
    BY DEF NoOverdraft, BalanceOf, Exists
  <2>1. CASE b = a
    BY <2>1, <1>1, <1>3 DEF BalanceOf, Exists
  <2>2. CASE b /= a
    BY <2>2, <1>3 DEF BalanceOf, Exists, StoreInv, NoOverdraft
  <2> QED BY <2>1, <2>2
<1> QED BY <1>2, <1>4, <1>5, <1>6 DEF StoreInv, RootFresh

LEMMA ExecuteKeeps ==
    ASSUME StoreAssumption, StoreInv, NEW t \in Payments, NEW form \in Forms,
           ExecuteSucceeds(t, form)
    PROVE  StoreInv'
<1> DEFINE s == Plain(t.Sender)
           r == Plain(t.Recipient)
<1>1. t \in Transaction /\ t.Sender \in Addr /\ t.Recipient \in Addr
      /\ t.Amount \in Nat /\ t.Nonce \in Nat
  BY DEF StoreAssumption, Transaction
<1>2. Accounts \in AccountMap /\ NoAccount \notin Account
  BY DEF StoreInv, TypeOK, StoreAssumption
<1>3. ReadError(form) = "nil" /\ Exists(Accounts, t.Sender)
  BY DEF ExecuteSucceeds, ErrorOf, ReadError
<1>4. Accounts[s] \in Account
  BY <1>1, <1>2, <1>3, ExistsIsAccount
<1>5. CanExecute(Accounts, t)
  BY <1>1, <1>3, <1>4 DEF ExecuteSucceeds, ErrorOf, ReadError, CanExecute
<1>6. Accounts' = Transfer(Accounts, t) /\ StateRoot' = RootOf(Accounts')
  BY DEF ExecuteSucceeds
<1> DEFINE opened == IF Exists(Accounts, t.Recipient) THEN Accounts[r] ELSE ZeroAccount
<1>7. /\ Accounts' \in AccountMap
      /\ s /= r => /\ Accounts'[s] = [Balance |-> Accounts[s].Balance - t.Amount,
                                      Nonce |-> Accounts[s].Nonce + 1]
                   /\ Accounts'[r] = [Balance |-> opened.Balance + t.Amount,
                                      Nonce |-> opened.Nonce]
      /\ s = r => Accounts'[s] = [Balance |-> Accounts[s].Balance,
                                  Nonce |-> Accounts[s].Nonce + 1]
      /\ \A n \in AccountName \ {s, r} : Accounts'[n] = Accounts[n]
  BY <1>1, <1>2, <1>5, <1>6, TransferEffect
<1>8. opened \in Account
  BY <1>1, <1>2, ExistsIsAccount DEF ZeroAccount, Account
<1> HIDE DEF opened
<1>9. /\ Accounts'[s] \in Account /\ Accounts'[r] \in Account
      /\ Exists(Accounts', t.Sender) /\ Exists(Accounts', t.Recipient)
  BY <1>1, <1>2, <1>4, <1>7, <1>8 DEF Exists, Account
<1>10. TypeOK'
  <2>1. lastCall' \in [due : BOOLEAN, err : Outcome]
    BY ErrorIsOutcome DEF ExecuteSucceeds, Call, CanExecute, Exists, NonceMatches,
       BalanceCovers
  <2>2. spent' \in [Addr -> Seq(Nat)]
    BY <1>1 DEF ExecuteSucceeds, StoreInv, TypeOK
  <2> QED BY <2>1, <2>2, <1>6, <1>7
         DEF ExecuteSucceeds, Call, StoreInv, TypeOK, RootOf
<1>11. t.Nonce = Accounts[s].Nonce /\ Accounts[s].Balance >= t.Amount
  BY <1>5 DEF CanExecute, NonceMatches, BalanceCovers
<1>12. SpentInOrder'
  <2> SUFFICES ASSUME NEW b \in Addr
               PROVE  /\ Len(spent'[b]) = IF Exists(Accounts', b)
                                          THEN Accounts'[Plain(b)].Nonce ELSE 0
                      /\ \A i \in 1 .. Len(spent'[b]) : spent'[b][i] = i - 1
    BY DEF SpentInOrder
  <2>0. spent[b] \in Seq(Nat)
        /\ Len(spent[b]) = (IF Exists(Accounts, b) THEN Accounts[Plain(b)].Nonce ELSE 0)
        /\ \A i \in 1 .. Len(spent[b]) : spent[b][i] = i - 1
    BY DEF StoreInv, SpentInOrder, TypeOK
  <2>1. CASE b = t.Sender
    <3>1. spent'[b] = Append(spent[b], t.Nonce)
      BY <2>1 DEF ExecuteSucceeds, StoreInv, TypeOK
    <3>2. Len(spent[b]) = t.Nonce
      BY <2>0, <2>1, <1>3, <1>11
    <3>3. Len(spent'[b]) = t.Nonce + 1 /\ spent'[b][t.Nonce + 1] = t.Nonce
          /\ \A i \in 1 .. t.Nonce : spent'[b][i] = spent[b][i]
      BY <3>1, <3>2, <2>0, <1>1
    <3>4. Accounts'[Plain(b)].Nonce = t.Nonce + 1
      BY <2>1, <1>7, <1>11
    <3>5. \A i \in 1 .. t.Nonce + 1 : spent'[b][i] = i - 1
      <4> TAKE i \in 1 .. t.Nonce + 1
      <4>1. CASE i = t.Nonce + 1
        BY <4>1, <3>3, <1>1
      <4>2. CASE i /= t.Nonce + 1
        <5>1. i \in 1 .. t.Nonce
          BY <4>2, <1>1
        <5> QED BY <5>1, <3>2, <3>3, <2>0
      <4> QED BY <4>1, <4>2
    <3> QED BY <3>3, <3>4, <3>5, <2>1, <1>9
  <2>2. CASE b /= t.Sender
    <3>1. spent'[b] = spent[b]
      BY <2>2 DEF ExecuteSucceeds, StoreInv, TypeOK
    <3>2. Plain(b) /= s /\ Plain(b) \in AccountName
      BY <2>2, <1>1, PlainInjective, PlainIsName
    <3>3. CASE b = t.Recipient
      BY <3>1, <3>2, <3>3, <2>0, <1>7, <1>9 DEF opened, ZeroAccount
    <3>4. CASE b /= t.Recipient
      <4>1. Accounts'[Plain(b)] = Accounts[Plain(b)]
        BY <3>2, <3>4, <1>1, <1>7, PlainInjective
      <4> QED BY <4>1, <3>1, <2>0 DEF Exists
    <3> QED BY <3>3, <3>4
  <2> QED BY <2>1, <2>2
<1>13. NoOverdraft'
  <2> SUFFICES ASSUME NEW b \in Addr PROVE BalanceOf(Accounts', b) >= 0
    BY DEF NoOverdraft, BalanceOf, Exists
  <2>1. BalanceOf(Accounts, b) >= 0 /\ BalanceOf(Accounts, t.Recipient) >= 0
    BY <1>1 DEF StoreInv, NoOverdraft
  <2>2. opened.Balance >= 0
    BY <2>1 DEF opened, BalanceOf, ZeroAccount
  <2>3. CASE Plain(b) \in {s, r}
    BY <2>2, <2>3, <1>1, <1>3, <1>4, <1>7, <1>8, <1>9, <1>11
       DEF BalanceOf, Exists, Account, opened, ZeroAccount
  <2>4. CASE Plain(b) \notin {s, r}
    BY <2>1, <2>4, <1>7, PlainIsName DEF BalanceOf, Exists
  <2> QED BY <2>3, <2>4
<1> QED BY <1>6, <1>10, <1>12, <1>13 DEF StoreInv, RootFresh

LEMMA FailureKeeps ==
    ASSUME StoreInv, NEW t, NEW form, ExecuteFails(t, form)
    PROVE  StoreInv'
<1>1. lastCall' \in [due : BOOLEAN, err : Outcome]
  BY ErrorIsOutcome DEF ExecuteFails, Call, CanExecute, Exists, NonceMatches,
     BalanceCovers
<1>2. UNCHANGED <<Accounts, StateRoot, spent, minted>>
  BY DEF ExecuteFails, Call
<1> QED BY <1>1, <1>2
       DEF StoreInv, TypeOK, SpentInOrder, NoOverdraft, RootFresh, BalanceOf, Exists

THEOREM StoreInvariant == StoreAssumption /\ Spec => []StoreInv
<1> SUFFICES ASSUME StoreAssumption PROVE Spec => []StoreInv
  OBVIOUS
<1>1. Init => StoreInv
  BY StoreInit
<1>2. StoreInv /\ [Next]_storeVars => StoreInv'
  <2> SUFFICES ASSUME StoreInv, [Next]_storeVars PROVE StoreInv'
    OBVIOUS
  <2>1. CASE UNCHANGED storeVars
    BY <2>1 DEF storeVars, StoreInv, TypeOK, SpentInOrder, NoOverdraft, RootFresh,
                BalanceOf, Exists
  <2>2. CASE \E a \in Addr, balance \in Deposits : CreateAccount(a, balance)
    BY <2>2, CreateAccountKeeps
  <2>3. CASE \E t \in Payments, form \in Forms : ExecuteSucceeds(t, form)
    BY <2>3, ExecuteKeeps
  <2>4. CASE \E t \in Payments, form \in Forms : ExecuteFails(t, form)
    BY <2>4, FailureKeeps
  <2> QED BY <2>1, <2>2, <2>3, <2>4 DEF Next
<1> QED BY <1>1, <1>2, PTL DEF Spec

(* The accounts, their root and the outcome of a call keep their types.    *)
THEOREM StoreTypeCorrect == Spec => []TypeOK
BY StoreInvariant, StoreAssumption, PTL DEF StoreInv

(* ExecuteTransaction never runs a sender's transactions out of nonce      *)
(* order or twice, for every set of accounts, payments and forms.          *)
THEOREM NoncesSpentInOrder == Spec => []SpentInOrder
BY StoreInvariant, StoreAssumption, PTL DEF StoreInv

(* No call takes a balance below zero.                                     *)
THEOREM BalancesNeverNegative == Spec => []NoOverdraft
BY StoreInvariant, StoreAssumption, PTL DEF StoreInv

(* The root is the root of the accounts after every call.                  *)
THEOREM RootAlwaysFresh == Spec => []RootFresh
BY StoreInvariant, StoreAssumption, PTL DEF StoreInv

-----------------------------------------------------------------------------
(* Sums.  SupplyConserved adds balances up with a fold over the addresses, *)
(* and a fold is a choice: a value that satisfies the recursion, if there  *)
(* is one.  The lemmas say that there is, and how it moves when one        *)
(* summand does.                                                           *)
LEMMA HasLeast ==
    ASSUME NEW S \in SUBSET Nat, S /= {}
    PROVE  \E k \in S : \A j \in S : k <= j
<1> DEFINE R == {pair \in Nat \X Nat : pair[1] < pair[2]}
<1>1. IsWellFoundedOn(R, Nat)
  BY NatLessThanWellFounded DEF OpToRel
<1>2. \A j, k \in Nat : <<j, k>> \notin R => k <= j
  OBVIOUS
<1> HIDE DEF R
<1>3. PICK k \in S : \A j \in S : <<j, k>> \notin R
  BY <1>1, WFMin
<1> QED BY <1>2, <1>3

First(s) == CHOOSE x \in s : TRUE

(* sum[s] is the sum of f over s, for every s in a set of sets.            *)
AddsUp(f, sum, sets) ==
    \A s \in sets : sum[s] = IF s = {} THEN 0 ELSE f[First(s)] + sum[s \ {First(s)}]

UpTo(S, n) == {s \in SUBSET S : Cardinality(s) <= n}

(* Taking the first element out of a finite set makes it one smaller.      *)
LEMMA FirstOut ==
    ASSUME NEW S, IsFiniteSet(S), NEW s \in SUBSET S, s /= {}
    PROVE  /\ First(s) \in s
           /\ s \ {First(s)} \in SUBSET S
           /\ Cardinality(s) \in Nat /\ Cardinality(s) > 0
           /\ Cardinality(s \ {First(s)}) = Cardinality(s) - 1
<1>1. First(s) \in s
  BY DEF First
<1>2. IsFiniteSet(s)
  BY FS_Subset
<1>3. Cardinality(s \ {First(s)}) = Cardinality(s) - 1
  BY <1>1, <1>2, FS_RemoveElement
<1>4. Cardinality(s) \in Nat /\ Cardinality(s) /= 0
  BY <1>2, FS_CardinalityType, FS_EmptySet
<1> QED BY <1>1, <1>3, <1>4

(* The recursion has a solution: built up set size by set size.            *)
LEMMA SumExists ==
    ASSUME NEW S, IsFiniteSet(S), NEW f \in [S -> Int]
    PROVE  \E sum \in [SUBSET S -> Int] : AddsUp(f, sum, SUBSET S)
<1> DEFINE Reached(n) == \E sum \in [UpTo(S, n) -> Int] : AddsUp(f, sum, UpTo(S, n))
           Missed == {n \in Nat : ~Reached(n)}
<1>1. Reached(0)
  <2>1. \A s \in UpTo(S, 0) : s = {}
    <3> TAKE s \in UpTo(S, 0)
    <3>1. s \in SUBSET S /\ Cardinality(s) <= 0
      BY DEF UpTo
    <3>2. ASSUME s /= {} PROVE Cardinality(s) \in Nat /\ Cardinality(s) > 0
      BY <3>1, <3>2, FirstOut
    <3>3. ASSUME NEW c \in Nat, c > 0 PROVE ~(c <= 0)
      BY <3>3
    <3> QED BY <3>1, <3>2, <3>3
  <2>2. [s \in UpTo(S, 0) |-> 0] \in [UpTo(S, 0) -> Int]
    OBVIOUS
  <2> QED BY <2>1, <2>2 DEF AddsUp
<1>2. ASSUME NEW n \in Nat, Reached(n) PROVE Reached(n + 1)
  <2>1. PICK sum \in [UpTo(S, n) -> Int] : AddsUp(f, sum, UpTo(S, n))
    BY <1>2
  <2> DEFINE next == [s \in UpTo(S, n + 1) |->
                        IF s = {} THEN 0 ELSE f[First(s)] + sum[s \ {First(s)}]]
  <2>2. \A s \in UpTo(S, n + 1) :
            s /= {} => /\ First(s) \in S
                       /\ s \ {First(s)} \in UpTo(S, n)
                       /\ s \ {First(s)} \in UpTo(S, n + 1)
    <3> TAKE s \in UpTo(S, n + 1)
    <3> HAVE s /= {}
    <3>1. s \in SUBSET S /\ Cardinality(s) <= n + 1
      BY DEF UpTo
    <3>2. /\ First(s) \in s /\ s \ {First(s)} \in SUBSET S
          /\ Cardinality(s) \in Nat /\ Cardinality(s) > 0
          /\ Cardinality(s \ {First(s)}) = Cardinality(s) - 1
      BY <3>1, FirstOut
    <3>3. PICK c \in Nat : c = Cardinality(s)
      BY <3>2
    <3>4. c - 1 <= n /\ c - 1 <= n + 1
      BY <3>1, <3>3
    <3> QED BY <3>1, <3>2, <3>3, <3>4 DEF UpTo
  <2>3. next \in [UpTo(S, n + 1) -> Int]
    BY <2>1, <2>2
  <2>4. \A s \in UpTo(S, n) : s \in UpTo(S, n + 1) /\ next[s] = sum[s]
    <3> TAKE s \in UpTo(S, n)
    <3>1. IsFiniteSet(s)
      BY FS_Subset DEF UpTo
    <3>2. PICK c \in Nat : c = Cardinality(s)
      BY <3>1, FS_CardinalityType
    <3>3. c <= n + 1 /\ s \in SUBSET S
      BY <3>2 DEF UpTo
    <3>4. s \in UpTo(S, n + 1)
      BY <3>2, <3>3 DEF UpTo
    <3> QED BY <3>4, <2>1 DEF AddsUp
  <2>5. AddsUp(f, next, UpTo(S, n + 1))
    <3> SUFFICES ASSUME NEW s \in UpTo(S, n + 1)
                 PROVE  next[s] = IF s = {} THEN 0
                                  ELSE f[First(s)] + next[s \ {First(s)}]
      BY DEF AddsUp
    <3>1. CASE s = {}
      BY <3>1
    <3>2. CASE s /= {}
      <4>1. next[s] = f[First(s)] + sum[s \ {First(s)}]
        BY <3>2
      <4>2. next[s \ {First(s)}] = sum[s \ {First(s)}]
        BY <3>2, <2>2, <2>4
      <4> QED BY <4>1, <4>2, <3>2
    <3> QED BY <3>1, <3>2
  <2> QED BY <2>3, <2>5
<1>3. Missed = {}
  <2> SUFFICES ASSUME Missed /= {} PROVE FALSE
    OBVIOUS
  <2> HIDE DEF Reached
  <2>1. PICK n \in Missed : \A m \in Missed : n <= m
    BY HasLeast
  <2>2. n /= 0 /\ n \in Nat
    BY <1>1
  <2>3. n - 1 \in Nat /\ n - 1 \notin Missed
    BY <2>1, <2>2
  <2>4. Reached(n - 1) => Reached((n - 1) + 1)
    BY <2>3, <1>2
  <2>5. (n - 1) + 1 = n
    BY <2>2
  <2> QED BY <2>1, <2>3, <2>4, <2>5
<1>4. Cardinality(S) \in Nat /\ UpTo(S, Cardinality(S)) = SUBSET S
  BY FS_CardinalityType, FS_Subset DEF UpTo
<1>5. Reached(Cardinality(S))
  BY <1>3, <1>4
<1> QED BY <1>4, <1>5

IsSum(S, f, F) ==
    f \in [S -> Int] /\ F \in [SUBSET S -> Int] /\ AddsUp(f, F, SUBSET S)

(* f and g agree but for a.                                                *)
AgreeBut(S, a, f, g) ==
    a \in S /\ g \in [S -> Int] /\ \A x \in S \ {a} : g[x] = f[x]

(* One summand moves: every sum that counts it moves as far.               *)
LEMMA SumMoves ==
    ASSUME NEW S, IsFiniteSet(S), NEW f, NEW g, NEW a, NEW F, NEW G,
           IsSum(S, f, F), AgreeBut(S, a, f, g), AddsUp(g, G, SUBSET S)
    PROVE  G[S] \in Int /\ G[S] - F[S] = g[a] - f[a]
<1>a. f \in [S -> Int] /\ F \in [SUBSET S -> Int] /\ AddsUp(f, F, SUBSET S)
      /\ a \in S /\ g \in [S -> Int] /\ \A x \in S \ {a} : g[x] = f[x]
  BY DEF IsSum, AgreeBut
<1>0. PICK d \in Int : d = g[a] - f[a] /\ g[a] = f[a] + d
  BY <1>a
<1> DEFINE Right(s) == G[s] = F[s] + (IF a \in s THEN d ELSE 0)
           Wrong == {Cardinality(s) : s \in {s \in SUBSET S : ~Right(s)}}
<1>1. ASSUME NEW s \in SUBSET S, s /= {}, Right(s \ {First(s)}) PROVE Right(s)
  <2>1. First(s) \in s /\ s \ {First(s)} \in SUBSET S
    BY <1>1, FirstOut
  <2>2. PICK x \in S : x = First(s)
    BY <2>1
  <2>3. PICK u \in SUBSET S : u = s \ {x}
    BY <2>1, <2>2
  <2>4. F[s] = f[x] + F[u] /\ G[s] = g[x] + G[u]
    BY <1>1, <1>a, <2>2, <2>3 DEF AddsUp
  <2>5. F[u] \in Int /\ f[x] \in Int
    BY <1>a
  <2>6. G[u] = F[u] + (IF a \in u THEN d ELSE 0)
    BY <1>1, <2>2, <2>3
  <2>7. CASE x = a
    <3>1. a \notin u /\ a \in s /\ g[x] = f[x] + d
      BY <1>0, <2>1, <2>2, <2>3, <2>7
    <3> QED BY <3>1, <1>0, <2>4, <2>5, <2>6, <2>7
  <2>8. CASE x /= a
    <3>1. (a \in u <=> a \in s) /\ g[x] = f[x]
      BY <1>a, <2>1, <2>2, <2>3, <2>8
    <3>2. CASE a \in s
      BY <3>1, <3>2, <2>4, <2>5, <2>6
    <3>3. CASE a \notin s
      BY <3>1, <3>3, <2>4, <2>5, <2>6
    <3> QED BY <3>2, <3>3
  <2> QED BY <2>7, <2>8
<1>2. Right({})
  <2>1. {} \in SUBSET S
    OBVIOUS
  <2>2. F[{}] = 0 /\ G[{}] = 0
    BY <1>a, <2>1 DEF AddsUp
  <2> QED BY <2>2
<1> HIDE DEF Right
<1>3. Wrong = {}
  <2> SUFFICES ASSUME Wrong /= {} PROVE FALSE
    OBVIOUS
  <2>1. Wrong \in SUBSET Nat
    BY FS_Subset, FS_CardinalityType
  <2> HIDE DEF Wrong
  <2>2. PICK n \in Wrong : \A m \in Wrong : n <= m
    BY <2>1, HasLeast
  <2>3. PICK s \in SUBSET S : ~Right(s) /\ n = Cardinality(s)
    BY DEF Wrong
  <2>4. s /= {}
    BY <2>3, <1>2
  <2>5. /\ s \ {First(s)} \in SUBSET S /\ n \in Nat
        /\ Cardinality(s \ {First(s)}) = n - 1
    BY <2>3, <2>4, FirstOut
  <2>6. Right(s \ {First(s)})
    <3> SUFFICES ASSUME ~Right(s \ {First(s)}) PROVE FALSE
      OBVIOUS
    <3>1. n - 1 \in Wrong
      BY <2>5 DEF Wrong
    <3> QED BY <3>1, <2>2, <2>5
  <2> QED BY <2>3, <2>4, <2>6, <1>1
<1>4. Right(S)
  BY <1>3
<1>5. G[S] = F[S] + d /\ F[S] \in Int
  BY <1>a, <1>4 DEF Right
<1>6. G[S] \in Int
  BY <1>5
<1>7. G[S] - F[S] = d
  BY <1>5
<1> QED BY <1>0, <1>6, <1>7

Balances(acc) == [a \in Addr |-> BalanceOf(acc, a)]

TotalOf(acc) == MapThenSumSet(LAMBDA a : BalanceOf(acc, a), Addr)

(* The fold of SupplyConserved is such a sum.                              *)
LEMMA TotalIsSum ==
    ASSUME IsFiniteSet(Addr), NEW acc, Balances(acc) \in [Addr -> Int]
    PROVE  \E sum : IsSum(Addr, Balances(acc), sum) /\ TotalOf(acc) = sum[Addr]
<1> DEFINE Step(sum) == [s \in SUBSET Addr |->
                            IF s = {} THEN 0
                            ELSE BalanceOf(acc, CHOOSE x \in s : TRUE)
                                 + sum[s \ {CHOOSE x \in s : TRUE}]]
           iter == CHOOSE sum : sum = Step(sum)
<1>1. PICK sum \in [SUBSET Addr -> Int] : AddsUp(Balances(acc), sum, SUBSET Addr)
  BY SumExists
<1>2. \A s \in SUBSET Addr : s /= {} => First(s) \in Addr
  BY DEF First
<1>3. sum = Step(sum)
  BY <1>1, <1>2 DEF AddsUp, First, Balances
<1>4. iter = Step(iter)
  <2> HIDE DEF Step
  <2> QED BY <1>3
<1>5. TotalOf(acc) = iter[Addr]
  BY DEF TotalOf, MapThenSumSet, MapThenFoldSet
<1> HIDE DEF iter
<1>6. AddsUp(Balances(acc), iter, SUBSET Addr)
  <2> SUFFICES ASSUME NEW s \in SUBSET Addr
               PROVE  iter[s] = IF s = {} THEN 0
                                ELSE Balances(acc)[First(s)] + iter[s \ {First(s)}]
    BY DEF AddsUp
  <2>1. iter[s] = Step(iter)[s]
    BY <1>4
  <2> QED BY <1>2, <2>1 DEF First, Balances
<1>7. iter[Addr] = sum[Addr]
  <2>1. CASE Addr = {}
    BY <2>1, <1>1, <1>6 DEF AddsUp
  <2>2. CASE Addr /= {}
    <3>1. PICK a \in Addr : TRUE
      BY <2>2
    <3>2. IsSum(Addr, Balances(acc), sum) /\ AgreeBut(Addr, a, Balances(acc), Balances(acc))
      BY <1>1, <3>1 DEF IsSum, AgreeBut
    <3>3. iter[Addr] \in Int
          /\ iter[Addr] - sum[Addr] = Balances(acc)[a] - Balances(acc)[a]
      BY <1>6, <3>2, SumMoves
    <3>4. Balances(acc)[a] \in Int /\ sum[Addr] \in Int
      BY <1>1, <3>1
    <3> QED BY <3>3, <3>4
  <2> QED BY <2>1, <2>2
<1> QED BY <1>1, <1>5, <1>7 DEF IsSum

(* Between acc and new, the balance of a moved by d and no other.          *)
OneMoves(acc, new, a, d) ==
    /\ a \in Addr /\ d \in Int
    /\ \A b \in Addr : BalanceOf(acc, b) \in Int
    /\ \A b \in Addr :
          BalanceOf(new, b) = IF b = a THEN BalanceOf(acc, b) + d ELSE BalanceOf(acc, b)

LEMMA TotalMoves ==
    ASSUME IsFiniteSet(Addr), NEW acc, NEW new, NEW a, NEW d, OneMoves(acc, new, a, d)
    PROVE  TotalOf(new) = TotalOf(acc) + d
<1> DEFINE f == Balances(acc)
           g == Balances(new)
<1>1. f \in [Addr -> Int] /\ g \in [Addr -> Int]
  BY DEF Balances, OneMoves
<1>2. g[a] = f[a] + d /\ d \in Int /\ a \in Addr /\ AgreeBut(Addr, a, f, g)
  BY <1>1 DEF Balances, AgreeBut, OneMoves
<1>3. PICK F : IsSum(Addr, f, F) /\ TotalOf(acc) = F[Addr]
  BY <1>1, TotalIsSum
<1>4. PICK G : IsSum(Addr, g, G) /\ TotalOf(new) = G[Addr]
  BY <1>1, TotalIsSum
<1>5. AddsUp(g, G, SUBSET Addr) /\ F[Addr] \in Int /\ f[a] \in Int
  BY <1>1, <1>2, <1>3, <1>4 DEF IsSum
<1> HIDE DEF f, g
<1>6. G[Addr] \in Int /\ G[Addr] - F[Addr] = g[a] - f[a]
  BY <1>2, <1>3, <1>5, SumMoves
<1> QED BY <1>2, <1>3, <1>4, <1>5, <1>6

LEMMA TotalIsInteger ==
    ASSUME IsFiniteSet(Addr), NEW acc, \A a \in Addr : BalanceOf(acc, a) \in Int
    PROVE  TotalOf(acc) \in Int
<1>1. Balances(acc) \in [Addr -> Int]
  BY DEF Balances
<1>2. PICK F : IsSum(Addr, Balances(acc), F) /\ TotalOf(acc) = F[Addr]
  BY <1>1, TotalIsSum
<1> QED BY <1>2 DEF IsSum

(* Accounts that hold nothing add up to nothing.                           *)
LEMMA NoMoney ==
    ASSUME IsFiniteSet(Addr), NEW acc, \A a \in Addr : BalanceOf(acc, a) = 0
    PROVE  TotalOf(acc) = 0
<1> DEFINE zero == [s \in SUBSET Addr |-> 0]
<1>1. Balances(acc) \in [Addr -> Int] /\ \A a \in Addr : Balances(acc)[a] = 0
  BY DEF Balances
<1>2. PICK F : IsSum(Addr, Balances(acc), F) /\ TotalOf(acc) = F[Addr]
  BY <1>1, TotalIsSum
<1>3. \A s \in SUBSET Addr : s /= {} => First(s) \in Addr
  BY DEF First
<1>4. AddsUp(Balances(acc), zero, SUBSET Addr) /\ zero[Addr] = 0
  BY <1>1, <1>3 DEF AddsUp
<1> HIDE DEF zero
<1>5. F[Addr] = 0
  <2>1. CASE Addr = {}
    BY <2>1, <1>2 DEF IsSum, AddsUp
  <2>2. CASE Addr /= {}
    <3>1. PICK a \in Addr : TRUE
      BY <2>2
    <3>2. AgreeBut(Addr, a, Balances(acc), Balances(acc))
      BY <1>1, <3>1 DEF AgreeBut
    <3>3. zero[Addr] - F[Addr] = Balances(acc)[a] - Balances(acc)[a]
      BY <1>2, <1>4, <3>2, SumMoves
    <3>4. Balances(acc)[a] = 0 /\ F[Addr] \in Int
      BY <1>1, <1>2, <3>1 DEF IsSum
    <3> QED BY <1>4, <3>3, <3>4
  <2> QED BY <2>1, <2>2
<1> QED BY <1>2, <1>5

LEMMA BalancesTyped ==
    ASSUME NEW acc \in AccountMap
    PROVE  \A a \in Addr : BalanceOf(acc, a) \in Int
BY ExistsIsAccount DEF BalanceOf, Account

(* CreateAccount mints what it hands out beyond what it overwrites.        *)
LEMMA CreateConserves ==
    ASSUME StoreAssumption, IsFiniteSet(Addr), StoreInv, SupplyConserved, StoreInv',
           NEW a \in Addr, NEW balance \in Deposits, CreateAccount(a, balance)
    PROVE  SupplyConserved'
<1> DEFINE d == balance - BalanceOf(Accounts, a)
<1>1. Accounts \in AccountMap /\ Accounts' \in AccountMap /\ minted \in Int
      /\ balance \in Nat /\ BalanceOf(Accounts, a) \in Int
  BY BalanceIsInteger DEF StoreInv, TypeOK, StoreAssumption
<1>2. \A b \in Addr : BalanceOf(Accounts', b)
                        = IF b = a THEN balance ELSE BalanceOf(Accounts, b)
  <2>1. NewAccount(balance) /= NoAccount /\ NewAccount(balance).Balance = balance
    BY <1>1 DEF NewAccount, Account, StoreAssumption
  <2>2. \A b \in Addr : Accounts'[Plain(b)]
                          = IF b = a THEN NewAccount(balance) ELSE Accounts[Plain(b)]
    BY <1>1, PlainIsName, PlainInjective DEF CreateAccount, AccountMap
  <2> QED BY <2>1, <2>2 DEF BalanceOf, Exists
<1>3. OneMoves(Accounts, Accounts', a, d)
  BY <1>1, <1>2, BalancesTyped DEF OneMoves
<1>4. d \in Int /\ minted' = minted + d
  BY <1>1 DEF CreateAccount, Supply
<1> HIDE DEF d
<1>5. TotalOf(Accounts') = TotalOf(Accounts) + d
  BY <1>3, TotalMoves
<1>6. TotalOf(Accounts) = minted
  BY DEF SupplyConserved, TotalOf, MapThenSumSet, MapThenFoldSet
<1>7. TotalOf(Accounts') = minted'
  BY <1>4, <1>5, <1>6
<1> QED BY <1>7 DEF SupplyConserved, TotalOf, MapThenSumSet, MapThenFoldSet

(* Debit first, credit then; to oneself, nothing moves.                    *)
LEMMA TransferConserves ==
    ASSUME IsFiniteSet(Addr), NoAccount \notin Account,
           NEW acc \in AccountMap, NEW t \in Transaction, CanExecute(acc, t)
    PROVE  TotalOf(Transfer(acc, t)) = TotalOf(acc)
<1> DEFINE s == Plain(t.Sender)
           r == Plain(t.Recipient)
           new == Transfer(acc, t)
           mid == [acc EXCEPT ![s] = new[s]]
           opened == IF Exists(acc, t.Recipient) THEN acc[r] ELSE ZeroAccount
<1>1. t.Sender \in Addr /\ t.Recipient \in Addr /\ t.Amount \in Nat
      /\ s \in AccountName /\ r \in AccountName
  BY PlainIsName DEF Transaction
<1>2. acc[s] \in Account /\ opened \in Account /\ acc[s] /= NoAccount
  BY <1>1, ExistsIsAccount DEF CanExecute, Exists, ZeroAccount, Account
<1>3. /\ new \in AccountMap
      /\ s /= r => /\ new[s] = [Balance |-> acc[s].Balance - t.Amount,
                                Nonce |-> acc[s].Nonce + 1]
                   /\ new[r] = [Balance |-> opened.Balance + t.Amount,
                                Nonce |-> opened.Nonce]
      /\ s = r => new[s] = [Balance |-> acc[s].Balance, Nonce |-> acc[s].Nonce + 1]
      /\ \A n \in AccountName \ {s, r} : new[n] = acc[n]
  BY TransferEffect
<1>4. opened.Balance = BalanceOf(acc, t.Recipient)
  BY DEF BalanceOf, ZeroAccount
<1> HIDE DEF new, opened
<1>5. new[s] \in Account /\ new[r] \in Account
  BY <1>1, <1>2, <1>3 DEF Account
<1>6. BalanceOf(acc, t.Sender) = acc[s].Balance /\ BalanceOf(new, t.Sender) = new[s].Balance
      /\ BalanceOf(new, t.Recipient) = new[r].Balance
  BY <1>2, <1>5 DEF BalanceOf, Exists
<1>7. CASE s = r
  <2>1. \A b \in Addr : BalanceOf(new, b) = BalanceOf(acc, b)
    <3> TAKE b \in Addr
    <3>1. CASE Plain(b) = s
      BY <3>1, <1>2, <1>3, <1>5, <1>7 DEF BalanceOf, Exists
    <3>2. CASE Plain(b) /= s
      BY <3>2, <1>3, <1>7, PlainIsName DEF BalanceOf, Exists
    <3> QED BY <3>1, <3>2
  <2>2. \A b \in Addr : BalanceOf(acc, b) \in Int
    BY BalancesTyped
  <2>3. OneMoves(acc, new, t.Sender, 0)
    BY <1>1, <2>1, <2>2 DEF OneMoves
  <2>4. TotalOf(new) = TotalOf(acc) + 0
    BY <2>3, TotalMoves
  <2>5. TotalOf(acc) \in Int
    BY <2>2, TotalIsInteger
  <2> QED BY <2>4, <2>5 DEF new
<1>8. CASE s /= r
  <2>1. mid \in AccountMap
    BY <1>1, <1>3, <1>5 DEF AccountMap
  <2>2. \A b \in Addr : mid[Plain(b)] = IF b = t.Sender THEN new[s] ELSE acc[Plain(b)]
    BY <1>1, PlainIsName, PlainInjective DEF AccountMap
  <2> HIDE DEF mid
  <2>3. t.Sender /= t.Recipient
    BY <1>8
  <2>4. new[s].Balance = acc[s].Balance - t.Amount
        /\ new[r].Balance = opened.Balance + t.Amount
    BY <1>3, <1>8
  <2>5. \A b \in Addr : BalanceOf(mid, b)
                  = IF b = t.Sender THEN BalanceOf(acc, b) - t.Amount ELSE BalanceOf(acc, b)
    <3> TAKE b \in Addr
    <3>1. CASE b = t.Sender
      <4>1. BalanceOf(mid, b) = new[s].Balance
        BY <3>1, <2>2, <1>5 DEF BalanceOf, Exists
      <4> QED BY <3>1, <4>1, <2>4, <1>6
    <3>2. CASE b /= t.Sender
      BY <3>2, <2>2 DEF BalanceOf, Exists
    <3> QED BY <3>1, <3>2
  <2>6. \A b \in Addr : BalanceOf(new, b)
                  = IF b = t.Recipient THEN BalanceOf(mid, b) + t.Amount ELSE BalanceOf(mid, b)
    <3> TAKE b \in Addr
    <3>1. CASE b = t.Recipient
      <4>1. BalanceOf(mid, b) = opened.Balance
        BY <3>1, <2>3, <2>5, <1>4
      <4> QED BY <3>1, <4>1, <2>4, <1>6
    <3>2. CASE b = t.Sender
      <4>1. BalanceOf(mid, b) = new[s].Balance
        BY <3>2, <2>2, <1>5 DEF BalanceOf, Exists
      <4> QED BY <3>2, <4>1, <2>3, <1>6
    <3>3. CASE b /= t.Recipient /\ b /= t.Sender
      <4>1. Plain(b) \in AccountName \ {s, r}
        BY <3>3, <1>1, PlainIsName, PlainInjective
      <4>2. new[Plain(b)] = acc[Plain(b)] /\ mid[Plain(b)] = acc[Plain(b)]
        BY <4>1, <1>3, <2>2, <3>3
      <4> QED BY <4>2, <3>3 DEF BalanceOf, Exists
    <3> QED BY <3>1, <3>2, <3>3
  <2>7. /\ \A b \in Addr : BalanceOf(acc, b) \in Int
        /\ \A b \in Addr : BalanceOf(mid, b) \in Int
    BY <2>1, BalancesTyped
  <2>8. PICK d \in Int : d = 0 - t.Amount
    BY <1>1
  <2>9. OneMoves(acc, mid, t.Sender, d)
    BY <1>1, <2>5, <2>7, <2>8 DEF OneMoves
  <2>10. OneMoves(mid, new, t.Recipient, t.Amount)
    BY <1>1, <2>6, <2>7 DEF OneMoves
  <2>11. TotalOf(mid) = TotalOf(acc) + d
    BY <2>9, TotalMoves
  <2>12. TotalOf(new) = TotalOf(mid) + t.Amount
    BY <2>10, TotalMoves
  <2>13. TotalOf(acc) \in Int
    BY <2>7, TotalIsInteger
  <2> QED BY <2>8, <2>11, <2>12, <2>13, <1>1 DEF new
<1> QED BY <1>7, <1>8

(* Debit and credit cancel out in every call, when sender and recipient    *)
(* are the same and when the recipient is new, for any finite set of       *)
(* addresses: what the accounts hold is what CreateAccount put there.      *)
THEOREM MoneyIsConserved == IsFiniteSet(Addr) /\ Spec => []SupplyConserved
<1> SUFFICES ASSUME IsFiniteSet(Addr) PROVE Spec => []SupplyConserved
  OBVIOUS
<1>1. Spec => []StoreInv
  BY StoreInvariant, StoreAssumption
<1>2. Init => SupplyConserved
  <2> SUFFICES ASSUME Init PROVE SupplyConserved
    OBVIOUS
  <2>1. \A a \in Addr : BalanceOf(Accounts, a) = 0
    BY PlainIsName DEF Init, BalanceOf, Exists
  <2>2. TotalOf(Accounts) = 0
    BY <2>1, NoMoney
  <2> QED BY <2>2 DEF Init, SupplyConserved, TotalOf
<1>3. StoreInv /\ StoreInv' /\ SupplyConserved /\ [Next]_storeVars => SupplyConserved'
  <2> SUFFICES ASSUME StoreInv, StoreInv', SupplyConserved, [Next]_storeVars
               PROVE  SupplyConserved'
    OBVIOUS
  <2>1. ASSUME Accounts' = Accounts, minted' = minted PROVE SupplyConserved'
    <3>1. TotalOf(Accounts) = minted
      BY DEF SupplyConserved, TotalOf, MapThenSumSet, MapThenFoldSet
    <3>2. TotalOf(Accounts') = minted'
      BY <2>1, <3>1
    <3> QED BY <3>2 DEF SupplyConserved, TotalOf, MapThenSumSet, MapThenFoldSet
  <2>2. CASE UNCHANGED storeVars
    BY <2>1, <2>2 DEF storeVars
  <2>3. CASE \E a \in Addr, balance \in Deposits : CreateAccount(a, balance)
    BY <2>3, StoreAssumption, CreateConserves
  <2>4. ASSUME NEW t \in Payments, NEW form \in Forms, ExecuteSucceeds(t, form)
        PROVE  SupplyConserved'
    <3>1. t \in Transaction /\ Accounts \in AccountMap /\ NoAccount \notin Account
      BY StoreAssumption DEF StoreAssumption, StoreInv, TypeOK
    <3>2. CanExecute(Accounts, t)
      BY <2>4 DEF ExecuteSucceeds, ErrorOf, ReadError, CanExecute
    <3>3. Accounts' = Transfer(Accounts, t) /\ minted' = minted
      BY <2>4 DEF ExecuteSucceeds, Call
    <3>4. TotalOf(Accounts') = TotalOf(Accounts)
      BY <3>1, <3>2, <3>3, TransferConserves
    <3>5. TotalOf(Accounts) = minted
      BY DEF SupplyConserved, TotalOf, MapThenSumSet, MapThenFoldSet
    <3>6. TotalOf(Accounts') = minted'
      BY <3>3, <3>4, <3>5
    <3> QED BY <3>6 DEF SupplyConserved, TotalOf, MapThenSumSet, MapThenFoldSet
  <2>5. CASE \E t \in Payments, form \in Forms : ExecuteFails(t, form)
    BY <2>1, <2>5 DEF ExecuteFails, Call
  <2> QED BY <2>2, <2>3, <2>4, <2>5 DEF Next
<1> QED BY <1>1, <1>2, <1>3, PTL DEF Spec
=============================================================================
