------------------------- MODULE MempoolRaceProofs -------------------------
(***************************************************************************)
(* However SubmitTransaction and ProposeBlock overwrite each other, every  *)
(* mempool and every block stays in submission order, for any number of    *)
(* validators, submissions and rounds.  And of a transaction that is in no *)
(* block yet only main's stores lose a copy, one a call at most (LossInv): *)
(* one that is lost to the trim of a validator's mempool was in bc.Mempool *)
(* before, where the purge of the same call then sees it.                  *)
(***************************************************************************)
EXTENDS MempoolRace, FiniteSetTheorems, SequenceTheorems, TLAPS

(* In submission order, and nothing submitted after m.                     *)
UpTo(s, m) ==
    s \in Seq(Int) /\ Ascending(s) /\ \A k \in DOMAIN s : s[k] <= m

(* The submission under way has still to be appended to x.                 *)
Missing(x) == gpc /= "idle" /\ \E k \in gTarget .. NumValidators : x = Target(k)

Newest(x) == IF Missing(x) THEN submitted - 1 ELSE submitted

TypeInv ==
    /\ Pool \in [PoolName -> Seq(Int)]
    /\ submitted \in Int /\ gpc \in {"idle", "read", "store"}
    /\ gTarget \in 0 .. NumValidators
    /\ CurrentLeader \in Validator

(* Slices in hand are as good as the mempools they were read from: what    *)
(* one goroutine read and stores later is behind the other's store at      *)
(* most, and never ahead of what will be appended next.                    *)
OrderInv ==
    /\ \A x \in PoolName : UpTo(Pool[x], Newest(x))
    /\ gpc = "store" => UpTo(gSlice, submitted - 1)
    /\ pc = "trim" => UpTo(mSlice, Newest(CurrentLeader))
    /\ pc = "purge" =>
        /\ UpTo(mSlice, Newest(Global)) /\ UpTo(newTxs, Newest(Global))
        /\ \A j \in DOMAIN newTxs, k \in DOMAIN mSlice : newTxs[j] < mSlice[k]
    /\ pc /= "purge" => newTxs = <<>>
    /\ Ascending(txsToInclude)

RaceInv == TypeInv /\ OrderInv

-----------------------------------------------------------------------------
(* What is done to slices.                                                 *)

LEMMA UpToMore ==
    ASSUME NEW s, NEW m \in Int, NEW n \in Int, UpTo(s, m), m <= n
    PROVE  UpTo(s, n)
<1>1. s \in Seq(Int) /\ DOMAIN s = 1 .. Len(s)
  BY DEF UpTo
<1>2. \A k \in DOMAIN s : s[k] \in Int /\ s[k] <= m
  BY <1>1 DEF UpTo
<1> QED BY <1>2 DEF UpTo

LEMMA UpToEmpty == ASSUME NEW m PROVE UpTo(<<>>, m)
BY DEF UpTo, Ascending

LEMMA UpToAppend ==
    ASSUME NEW s, NEW m \in Int, NEW p \in Int, UpTo(s, m),
           \A k \in DOMAIN s : s[k] < p
    PROVE  UpTo(Append(s, p), p)
<1>1. s \in Seq(Int) /\ DOMAIN s = 1 .. Len(s) /\ Len(s) \in Nat
  BY DEF UpTo
<1>2. /\ Append(s, p) \in Seq(Int) /\ DOMAIN Append(s, p) = 1 .. Len(s) + 1
      /\ \A k \in 1 .. Len(s) : Append(s, p)[k] = s[k]
      /\ Append(s, p)[Len(s) + 1] = p
  BY <1>1
<1>3. \A k \in 1 .. Len(s) : s[k] \in Int /\ s[k] < p
  BY <1>1
<1>4. ASSUME NEW j \in 1 .. Len(s) + 1, NEW k \in 1 .. Len(s) + 1, j < k
      PROVE  Append(s, p)[j] < Append(s, p)[k]
  <2>1. CASE k \in 1 .. Len(s)
    BY <1>1, <1>2, <1>4, <2>1 DEF UpTo, Ascending
  <2>2. CASE k = Len(s) + 1
    BY <1>1, <1>2, <1>3, <1>4, <2>2
  <2> QED BY <1>1, <2>1, <2>2
<1>5. \A k \in 1 .. Len(s) + 1 : Append(s, p)[k] <= p
  BY <1>1, <1>2, <1>3
<1> QED BY <1>2, <1>4, <1>5 DEF UpTo, Ascending

LEMMA UpToSubSeq ==
    ASSUME NEW s, NEW m \in Int, UpTo(s, m),
           NEW a \in 1 .. Len(s) + 1, NEW b \in 0 .. Len(s)
    PROVE  UpTo(SubSeq(s, a, b), m)
<1>1. s \in Seq(Int) /\ DOMAIN s = 1 .. Len(s) /\ Len(s) \in Nat
  BY DEF UpTo
<1>2. CASE b < a
  <2>1. SubSeq(s, a, b) = <<>>
    BY <1>1, <1>2, SubSeqEmpty, a \in Int, b \in Int
  <2> QED BY <2>1, UpToEmpty
<1>3. CASE a <= b
  <2> DEFINE t == SubSeq(s, a, b)
  <2>1. \A i \in a .. b : s[i] \in Int
    BY <1>1
  <2>2. /\ t \in Seq(Int) /\ Len(t) = b - a + 1
        /\ \A i \in 1 .. b - a + 1 : t[i] = s[a + i - 1]
    BY <1>1, <1>3, <2>1, SubSeqProperties
  <2>3. DOMAIN t = 1 .. b - a + 1
    BY <2>2
  <2>4. \A i \in 1 .. b - a + 1 : a + i - 1 \in 1 .. Len(s)
    BY <1>1
  <2> HIDE DEF t
  <2>5. \A i \in DOMAIN t : t[i] <= m
    BY <1>1, <2>2, <2>3, <2>4 DEF UpTo
  <2>6. ASSUME NEW i \in DOMAIN t, NEW k \in DOMAIN t, i < k PROVE t[i] < t[k]
    <3>1. a + i - 1 < a + k - 1
      BY <1>1, <2>3, <2>6
    <3>2. a + i - 1 \in DOMAIN s /\ a + k - 1 \in DOMAIN s
      BY <1>1, <2>3, <2>4
    <3>3. s[a + i - 1] < s[a + k - 1]
      BY <3>1, <3>2 DEF UpTo, Ascending
    <3>4. t[i] = s[a + i - 1] /\ t[k] = s[a + k - 1]
      BY <2>2, <2>3
    <3> QED BY <3>3, <3>4
  <2>7. UpTo(t, m)
    BY <2>2, <2>5, <2>6 DEF UpTo, Ascending
  <2> QED BY <2>7 DEF t
<1> QED BY <1>1, <1>2, <1>3

LEMMA UpToTail ==
    ASSUME NEW s, NEW m \in Int, UpTo(s, m), s /= <<>>
    PROVE  /\ Head(s) \in Int /\ Head(s) <= m
           /\ UpTo(Tail(s), m)
           /\ \A k \in DOMAIN Tail(s) : Head(s) < Tail(s)[k]
           /\ \A k \in DOMAIN Tail(s) : \E j \in DOMAIN s : Tail(s)[k] = s[j]
<1>1. s \in Seq(Int) /\ DOMAIN s = 1 .. Len(s) /\ Len(s) \in Nat \ {0}
  BY DEF UpTo
<1>2. /\ Head(s) = s[1] /\ Tail(s) \in Seq(Int) /\ Len(Tail(s)) = Len(s) - 1
      /\ \A k \in 1 .. Len(s) - 1 : Tail(s)[k] = s[k + 1]
  BY <1>1
<1>3. DOMAIN Tail(s) = 1 .. Len(s) - 1
  BY <1>1, <1>2
<1>4. UpTo(Tail(s), m)
  <2>1. Tail(s) = SubSeq(s, 2, Len(s))
    BY <1>1, TailIsSubSeq
  <2>2. 2 \in 1 .. Len(s) + 1 /\ Len(s) \in 0 .. Len(s)
    BY <1>1
  <2>3. UpTo(SubSeq(s, 2, Len(s)), m)
    BY <2>2, UpToSubSeq
  <2> QED BY <2>1, <2>3
<1>5. \A k \in 1 .. Len(s) - 1 : k + 1 \in 1 .. Len(s) /\ 1 < k + 1
  BY <1>1
<1>6. \A k \in DOMAIN Tail(s) : s[1] < s[k + 1]
  BY <1>1, <1>3, <1>5 DEF UpTo, Ascending
<1>7. s[1] \in Int /\ s[1] <= m
  BY <1>1 DEF UpTo
<1>8. \A k \in DOMAIN Tail(s) : Tail(s)[k] = s[k + 1] /\ k + 1 \in DOMAIN s
  BY <1>1, <1>2, <1>3, <1>5
<1> QED BY <1>2, <1>4, <1>6, <1>7, <1>8

-----------------------------------------------------------------------------
LEMMA LimitInRange ==
    ASSUME NEW s, NEW m, UpTo(s, m)
    PROVE  /\ Limit(s) \in 0 .. Len(s) /\ Limit(s) + 1 \in 1 .. Len(s) + 1
           /\ Len(s) \in 0 .. Len(s) /\ 1 \in 1 .. Len(s) + 1
BY RaceAssumption DEF Limit, UpTo

LEMMA NewestInt == ASSUME TypeInv PROVE \A x : Newest(x) \in Int
BY DEF TypeInv, Newest

(* Different turns of SubmitTransaction have different mempools.           *)
LEMMA TargetInjective ==
    /\ \A k \in 0 .. NumValidators : Target(k) \in PoolName
    /\ \A j, k \in 0 .. NumValidators : Target(j) = Target(k) => j = k
BY RaceAssumption DEF Target, PoolName, Validator, Global

(* No mempool ever falls behind.                                           *)
LEMMA NewestGrows ==
    ASSUME TypeInv, GeneratorStep PROVE \A x : Newest(x) <= Newest(x)'
<1>1. CASE BeginSubmit
  BY <1>1 DEF BeginSubmit, TypeInv, Newest, Missing
<1>2. CASE AppendRead
  BY <1>2 DEF AppendRead, TypeInv, Newest, Missing
<1>3. CASE AppendStore
  <2>1. submitted' = submitted /\ gpc = "store" /\ submitted \in Int
    BY <1>3 DEF AppendStore, TypeInv
  <2>2. \A x : Missing(x)' => Missing(x)
    BY <1>3, <2>1, RaceAssumption DEF AppendStore, TypeInv, Missing
  <2> QED BY <2>1, <2>2 DEF Newest
<1> QED BY <1>1, <1>2, <1>3 DEF GeneratorStep

(* The generator leaves main's slices as good as they were.                *)
LEMMA MainSlicesKept ==
    ASSUME RaceInv, GeneratorStep, TypeInv'
    PROVE  /\ pc' = "trim" => UpTo(mSlice, Newest(CurrentLeader))'
           /\ pc' = "purge" =>
                /\ UpTo(mSlice, Newest(Global))' /\ UpTo(newTxs, Newest(Global))'
                /\ \A j \in DOMAIN newTxs', k \in DOMAIN mSlice' :
                       newTxs'[j] < mSlice'[k]
           /\ pc' /= "purge" => newTxs' = <<>>
           /\ Ascending(txsToInclude)'
<1>1. UNCHANGED mainVars
  BY DEF GeneratorStep, BeginSubmit, AppendRead, AppendStore
<1>2. ASSUME NEW x, NEW t, UpTo(t, Newest(x)) PROVE UpTo(t, Newest(x)')
  <2>1. Newest(x) \in Int
    BY NewestInt DEF RaceInv
  <2>2. Newest(x)' \in Int
    BY DEF TypeInv, Newest
  <2>3. Newest(x) <= Newest(x)'
    BY NewestGrows DEF RaceInv
  <2> QED BY <1>2, <2>1, <2>2, <2>3, UpToMore
<1>3. CurrentLeader' = CurrentLeader /\ mSlice' = mSlice /\ newTxs' = newTxs
      /\ pc' = pc /\ txsToInclude' = txsToInclude
  BY <1>1 DEF mainVars
<1>4. ASSUME pc = "trim" PROVE UpTo(mSlice, Newest(CurrentLeader))'
  <2>1. PICK x : x = CurrentLeader
    OBVIOUS
  <2>2. UpTo(mSlice, Newest(x)')
    BY <1>2, <1>4, <2>1 DEF RaceInv, OrderInv
  <2>3. Newest(CurrentLeader)' = Newest(x)'
    BY <1>3, <2>1 DEF Newest, Missing
  <2> QED BY <1>3, <2>2, <2>3
<1>5. ASSUME pc = "purge"
      PROVE  UpTo(mSlice, Newest(Global))' /\ UpTo(newTxs, Newest(Global))'
  <2>1. UpTo(mSlice, Newest(Global)') /\ UpTo(newTxs, Newest(Global)')
    BY <1>2, <1>5 DEF RaceInv, OrderInv
  <2> QED BY <1>3, <2>1
<1>6. Ascending(txsToInclude)'
  BY <1>3 DEF RaceInv, OrderInv, Ascending
<1> QED BY <1>3, <1>4, <1>5, <1>6 DEF RaceInv, OrderInv

LEMMA GeneratorKeeps == ASSUME RaceInv, GeneratorStep PROVE RaceInv'
<1>1. TypeInv'
  <2>1. CurrentLeader' = CurrentLeader
    BY DEF GeneratorStep, BeginSubmit, AppendRead, AppendStore, mainVars
  <2>2. CASE BeginSubmit
    BY <2>1, <2>2, RaceAssumption DEF BeginSubmit, RaceInv, TypeInv
  <2>3. CASE AppendRead
    BY <2>1, <2>3 DEF AppendRead, RaceInv, TypeInv
  <2>4. CASE AppendStore
    <3>1. Appended(gSlice, submitted) \in Seq(Int)
      BY <2>4 DEF AppendStore, Appended, RaceInv, TypeInv, OrderInv, UpTo
    <3>2. Pool' \in [PoolName -> Seq(Int)]
      BY <2>4, <3>1 DEF AppendStore, RaceInv, TypeInv
    <3>3. submitted' \in Int /\ gpc' \in {"idle", "read", "store"}
      BY <2>4 DEF AppendStore, RaceInv, TypeInv
    <3>4. gTarget' \in 0 .. NumValidators
      BY <2>4, RaceAssumption DEF AppendStore, RaceInv, TypeInv
    <3> QED BY <2>1, <3>2, <3>3, <3>4 DEF RaceInv, TypeInv
  <2> QED BY <2>2, <2>3, <2>4 DEF GeneratorStep
<1>2. ASSUME NEW x, NEW t, UpTo(t, Newest(x)) PROVE UpTo(t, Newest(x)')
  <2>1. Newest(x) \in Int /\ Newest(x) <= Newest(x)'
    BY NewestInt, NewestGrows DEF RaceInv
  <2>2. Newest(x)' \in Int
    BY <1>1 DEF TypeInv, Newest
  <2> QED BY <1>2, <2>1, <2>2, UpToMore
<1>3. ASSUME UNCHANGED Pool
      PROVE  \A x \in PoolName : UpTo(Pool[x], Newest(x))'
  BY <1>2, <1>3 DEF RaceInv, OrderInv
<1>4. /\ \A x \in PoolName : UpTo(Pool[x], Newest(x))'
      /\ gpc' = "store" => UpTo(gSlice, submitted - 1)'
  <2>1. CASE BeginSubmit
    BY <1>3, <2>1 DEF BeginSubmit
  <2>2. CASE AppendRead
    <3>1. Newest(Target(gTarget)) = submitted - 1
      BY <2>2 DEF AppendRead, Newest, Missing, RaceInv, TypeInv
    <3>2. UpTo(Pool[Target(gTarget)], submitted - 1)
      BY <3>1, TargetInjective DEF RaceInv, TypeInv, OrderInv
    <3> QED BY <1>3, <2>2, <3>2 DEF AppendRead
  <2>3. CASE AppendStore
    <3>1. /\ Target(gTarget) \in PoolName /\ submitted \in Int /\ submitted' = submitted
          /\ Pool' = [Pool EXCEPT ![Target(gTarget)] = Append(gSlice, submitted)]
          /\ Pool \in [PoolName -> Seq(Int)] /\ gTarget \in 0 .. NumValidators
      BY <2>3, TargetInjective DEF AppendStore, Appended, RaceInv, TypeInv
    <3>2. UpTo(gSlice, submitted - 1)
      BY <2>3 DEF AppendStore, RaceInv, OrderInv
    <3>3. \A k \in DOMAIN gSlice : gSlice[k] < submitted
      <4>1. gSlice \in Seq(Int) /\ \A k \in DOMAIN gSlice : gSlice[k] \in Int
        BY <3>2 DEF UpTo
      <4> QED BY <3>1, <3>2, <4>1 DEF UpTo
    <3>4. UpTo(Append(gSlice, submitted), submitted)
      BY <3>1, <3>2, <3>3, UpToAppend, submitted - 1 \in Int
    <3>5. ASSUME NEW x, x = Target(gTarget) PROVE Newest(x)' = submitted
      <4>1. CASE gTarget = NumValidators
        BY <2>3, <3>1, <4>1 DEF AppendStore, Missing, Newest
      <4>2. CASE gTarget /= NumValidators
        <5>1. gTarget' = gTarget + 1 /\ gTarget + 1 \in 0 .. NumValidators
          BY <2>3, <3>1, <4>2, RaceAssumption DEF AppendStore
        <5>2. \A k \in gTarget + 1 .. NumValidators : x /= Target(k)
          BY <3>1, <3>5, TargetInjective, RaceAssumption
        <5>3. ~Missing(x)'
          BY <5>1, <5>2 DEF Missing, Target
        <5> QED BY <3>1, <5>3 DEF Newest
      <4> QED BY <4>1, <4>2
    <3>6. ASSUME NEW x \in PoolName PROVE UpTo(Pool'[x], Newest(x)')
      <4>1. CASE x = Target(gTarget)
        <5>1. Pool'[x] = Append(gSlice, submitted)
          BY <3>1, <4>1
        <5> QED BY <3>4, <3>5, <4>1, <5>1
      <4>2. CASE x /= Target(gTarget)
        <5>1. Pool'[x] = Pool[x]
          BY <3>1, <4>2
        <5> QED BY <1>2, <5>1 DEF RaceInv, OrderInv
      <4> QED BY <4>1, <4>2
    <3> QED BY <2>3, <3>6 DEF AppendStore
  <2> QED BY <2>1, <2>2, <2>3 DEF GeneratorStep
<1> QED BY <1>1, <1>4, MainSlicesKept DEF RaceInv, OrderInv

-----------------------------------------------------------------------------
LEMMA MainTypes == ASSUME RaceInv, MainStep PROVE TypeInv'
<1>1. submitted' = submitted /\ gpc' = gpc /\ gTarget' = gTarget
  BY DEF MainStep, CheckMempool, TakeLength, TakeAll, TakeSome, RestRead,
         TrimStore, ScanRead, KeepNext, PurgeStore, EndRound, genVars
<1>2. Pool' \in [PoolName -> Seq(Int)]
  <2>1. CASE TrimStore
    BY <2>1 DEF TrimStore, RaceInv, TypeInv, OrderInv, UpTo
  <2>2. CASE PurgeStore
    BY <2>2 DEF PurgeStore, RaceInv, TypeInv, OrderInv, UpTo
  <2>3. CASE ~TrimStore /\ ~PurgeStore
    BY <2>3 DEF MainStep, CheckMempool, TakeLength, TakeAll, TakeSome, RestRead,
                ScanRead, KeepNext, EndRound, RaceInv, TypeInv
  <2> QED BY <2>1, <2>2, <2>3
<1>3. CurrentLeader' \in Validator
  <2>1. CASE EndRound
    BY <2>1, RaceAssumption DEF EndRound, NextLeader, RaceInv, TypeInv, Validator
  <2>2. CASE ~EndRound
    BY <2>2 DEF MainStep, CheckMempool, TakeLength, TakeAll, TakeSome, RestRead,
                TrimStore, ScanRead, KeepNext, PurgeStore, RaceInv, TypeInv
  <2> QED BY <2>1, <2>2
<1> QED BY <1>1, <1>2, <1>3 DEF RaceInv, TypeInv

(* The same, access by access.                                             *)
LEMMA MainKeeps == ASSUME RaceInv, MainStep PROVE RaceInv'
<1>1. \A x : Newest(x)' = Newest(x) /\ Newest(x) \in Int
  BY NewestInt DEF RaceInv, MainStep, CheckMempool, TakeLength, TakeAll,
                   TakeSome, RestRead, TrimStore, ScanRead, KeepNext,
                   PurgeStore, EndRound, genVars, Newest, Missing
<1>2. gpc' = gpc /\ gSlice' = gSlice /\ submitted' = submitted
  BY DEF MainStep, CheckMempool, TakeLength, TakeAll, TakeSome, RestRead,
         TrimStore, ScanRead, KeepNext, PurgeStore, EndRound, genVars
<1>3. gpc' = "store" => UpTo(gSlice, submitted - 1)'
  BY <1>2 DEF RaceInv, OrderInv
<1>4. ASSUME UNCHANGED Pool
      PROVE  \A x \in PoolName : UpTo(Pool[x], Newest(x))'
  BY <1>1, <1>4 DEF RaceInv, OrderInv
<1>5. ASSUME NEW x, x = CurrentLeader' PROVE Newest(CurrentLeader)' = Newest(x)
  BY <1>1, <1>5 DEF Newest, Missing
<1>6. /\ \A x \in PoolName : UpTo(Pool[x], Newest(x))'
      /\ pc' = "trim" => UpTo(mSlice, Newest(CurrentLeader))'
      /\ pc' = "purge" =>
          /\ UpTo(mSlice, Newest(Global))' /\ UpTo(newTxs, Newest(Global))'
          /\ \A j \in DOMAIN newTxs', k \in DOMAIN mSlice' : newTxs'[j] < mSlice'[k]
      /\ pc' /= "purge" => newTxs' = <<>>
      /\ Ascending(txsToInclude)'
  <2>1. CASE CheckMempool
    <3>1. pc' \in {"check", "take"} /\ pc = "check" /\ UNCHANGED <<Pool, newTxs, txsToInclude>>
      BY <2>1 DEF CheckMempool
    <3> QED BY <1>4, <3>1 DEF RaceInv, OrderInv, Ascending
  <2>2. CASE TakeLength
    <3>1. /\ pc' \in {"all", "some"} /\ pc = "take"
          /\ UNCHANGED <<Pool, newTxs, txsToInclude>>
      BY <2>2 DEF TakeLength
    <3> QED BY <1>4, <3>1 DEF RaceInv, OrderInv, Ascending
  <2>3. CASE TakeAll \/ TakeSome \/ RestRead
    <3>1. /\ pc \in {"all", "some", "rest"} /\ pc' \in {"rest", "trim"}
          /\ UNCHANGED <<Pool, newTxs, CurrentLeader>>
      BY <2>3 DEF TakeAll, TakeSome, RestRead
    <3>2. PICK x, s : x = CurrentLeader' /\ s = Pool[CurrentLeader]
      OBVIOUS
    <3>3. UpTo(s, Newest(x)) /\ Newest(x) \in Int
      BY <1>1, <3>1, <3>2 DEF RaceInv, OrderInv, TypeInv, PoolName
    <3>4. /\ UpTo(SubSeq(s, 1, Limit(s)), Newest(x))
          /\ UpTo(SubSeq(s, Limit(s) + 1, Len(s)), Newest(x))
      BY <3>3, LimitInRange, UpToSubSeq
    <3>5. txsToInclude' \in {s, SubSeq(s, 1, Limit(s)), txsToInclude}
      BY <2>3, <3>2 DEF TakeAll, TakeSome, RestRead, Include
    <3>6. Ascending(txsToInclude')
      BY <3>3, <3>4, <3>5 DEF UpTo, RaceInv, OrderInv
    <3>7. pc' = "trim" => mSlice' \in {<<>>, SubSeq(s, Limit(s) + 1, Len(s))}
      BY <2>3, <3>2 DEF TakeAll, TakeSome, RestRead
    <3>8. pc' = "trim" => UpTo(mSlice', Newest(x))
      BY <3>4, <3>7, UpToEmpty
    <3>9. pc' = "trim" => UpTo(mSlice, Newest(CurrentLeader))'
      BY <1>5, <3>2, <3>8
    <3> QED BY <1>4, <3>1, <3>6, <3>9 DEF RaceInv, OrderInv, Ascending
  <2>8. CASE TrimStore
    <3>1. /\ pc' \in {"vote", "scan"} /\ pc = "trim" /\ UNCHANGED <<newTxs, txsToInclude>>
          /\ Pool' = [Pool EXCEPT ![CurrentLeader] = mSlice]
      BY <2>8 DEF TrimStore
    <3>2. ASSUME NEW x \in PoolName PROVE UpTo(Pool'[x], Newest(x))
      BY <3>1 DEF RaceInv, TypeInv, OrderInv
    <3>3. \A x \in PoolName : UpTo(Pool[x], Newest(x))'
      BY <1>1, <3>2
    <3> QED BY <3>1, <3>3 DEF RaceInv, OrderInv, Ascending
  <2>4. CASE ScanRead
    <3>1. /\ pc' = "purge" /\ pc = "scan" /\ UNCHANGED <<Pool, newTxs, txsToInclude>>
          /\ mSlice' = Pool[Global] /\ newTxs = <<>>
      BY <2>4 DEF ScanRead, RaceInv, OrderInv
    <3>2. UpTo(mSlice', Newest(Global)) /\ UpTo(newTxs', Newest(Global))
      BY <3>1, UpToEmpty DEF RaceInv, OrderInv, PoolName
    <3>3. UpTo(mSlice, Newest(Global))' /\ UpTo(newTxs, Newest(Global))'
      BY <1>1, <3>2
    <3> QED BY <1>4, <3>1, <3>3 DEF RaceInv, OrderInv, Ascending
  <2>5. CASE KeepNext
    <3>1. /\ pc' = "purge" /\ pc = "purge" /\ UNCHANGED <<Pool, txsToInclude>>
          /\ mSlice /= <<>> /\ mSlice' = Tail(mSlice)
          /\ newTxs' = newTxs \/ newTxs' = Append(newTxs, Head(mSlice))
      BY <2>5 DEF KeepNext
    <3>2. /\ UpTo(mSlice, Newest(Global)) /\ UpTo(newTxs, Newest(Global))
          /\ Newest(Global) \in Int
          /\ \A j \in DOMAIN newTxs, k \in DOMAIN mSlice : newTxs[j] < mSlice[k]
      BY <1>1, <3>1 DEF RaceInv, OrderInv
    <3>3. /\ Head(mSlice) \in Int /\ Head(mSlice) <= Newest(Global)
          /\ UpTo(mSlice', Newest(Global))
          /\ \A k \in DOMAIN mSlice' : Head(mSlice) < mSlice'[k]
          /\ \A k \in DOMAIN mSlice' : \E j \in DOMAIN mSlice : mSlice'[k] = mSlice[j]
      BY <3>1, <3>2, UpToTail
    <3>4. \A j \in DOMAIN newTxs : newTxs[j] < Head(mSlice)
      <4>1. 1 \in DOMAIN mSlice /\ mSlice[1] = Head(mSlice)
        BY <3>1, <3>2 DEF UpTo
      <4> QED BY <3>2, <4>1
    <3>5. \A j \in DOMAIN newTxs, k \in DOMAIN mSlice' : newTxs[j] < mSlice'[k]
      BY <3>2, <3>3
    <3>6. /\ UpTo(newTxs', Newest(Global))
          /\ \A j \in DOMAIN newTxs', k \in DOMAIN mSlice' : newTxs'[j] < mSlice'[k]
      <4>1. CASE newTxs' = newTxs
        BY <3>2, <3>5, <4>1
      <4>2. CASE newTxs' = Append(newTxs, Head(mSlice))
        <5>1. UpTo(newTxs', Head(mSlice))
          BY <3>2, <3>3, <3>4, <4>2, UpToAppend
        <5>2. UpTo(newTxs', Newest(Global))
          BY <3>2, <3>3, <5>1, UpToMore
        <5>3. \A j \in DOMAIN newTxs' : newTxs'[j] \in Int /\ newTxs'[j] <= Head(mSlice)
          BY <5>1 DEF UpTo
        <5>4. \A k \in DOMAIN mSlice' : mSlice'[k] \in Int
          BY <3>3 DEF UpTo
        <5>5. ASSUME NEW j \in DOMAIN newTxs', NEW k \in DOMAIN mSlice'
              PROVE  newTxs'[j] < mSlice'[k]
          BY <3>3, <5>3, <5>4
        <5> QED BY <5>2, <5>5
      <4> QED BY <3>1, <4>1, <4>2
    <3>7. UpTo(mSlice, Newest(Global))' /\ UpTo(newTxs, Newest(Global))'
      BY <1>1, <3>3, <3>6
    <3> QED BY <1>4, <3>1, <3>6, <3>7 DEF RaceInv, OrderInv, Ascending
  <2>6. CASE PurgeStore
    <3>1. /\ pc' = "vote" /\ pc = "purge" /\ newTxs' = <<>> /\ txsToInclude' = txsToInclude
          /\ Pool' = [Pool EXCEPT ![Global] = newTxs]
      BY <2>6 DEF PurgeStore
    <3>2. ASSUME NEW x \in PoolName PROVE UpTo(Pool'[x], Newest(x))
      BY <3>1 DEF RaceInv, TypeInv, OrderInv
    <3>3. \A x \in PoolName : UpTo(Pool[x], Newest(x))'
      BY <1>1, <3>2
    <3> QED BY <3>1, <3>3 DEF RaceInv, OrderInv, Ascending
  <2>7. CASE EndRound
    <3>1. pc' = "check" /\ pc = "vote" /\ UNCHANGED <<Pool, newTxs>> /\ txsToInclude' = <<>>
      BY <2>7 DEF EndRound
    <3> QED BY <1>4, <3>1 DEF RaceInv, OrderInv, Ascending
  <2> QED BY <2>1, <2>2, <2>3, <2>4, <2>5, <2>6, <2>7, <2>8 DEF MainStep
<1> QED BY <1>3, <1>6, MainTypes DEF RaceInv, OrderInv

-----------------------------------------------------------------------------
LEMMA RaceInvHolds == Spec => []RaceInv
<1>1. Init => RaceInv
  BY UpToEmpty, RaceAssumption
     DEF Init, RaceInv, TypeInv, OrderInv, Ascending, Validator
<1>2. RaceInv /\ [Next]_vars => RaceInv'
  <2> SUFFICES ASSUME RaceInv, [Next]_vars PROVE RaceInv'
    OBVIOUS
  <2>1. CASE GeneratorStep
    BY <2>1, GeneratorKeeps
  <2>2. CASE MainStep
    BY <2>2, MainKeeps
  <2>3. CASE UNCHANGED <<Pool, genVars, mainVars>>
    BY <2>3 DEF genVars, mainVars, RaceInv, TypeInv, OrderInv, UpTo, Ascending,
                Newest, Missing
  <2> QED BY <2>1, <2>2, <2>3 DEF Next, TornAccess, Stopped, vars
<1> QED BY <1>1, <1>2, PTL DEF Spec

(* ProposeBlock and SubmitTransaction share the mempools without a lock    *)
(* (blockchain.go): what they lose of each other's work never disorders a  *)
(* mempool or a block, and never puts a transaction into one twice.        *)
THEOREM SlicesStayInOrder == Spec => []SubmissionOrder
<1>1. RaceInv => SubmissionOrder
  BY DEF RaceInv, OrderInv, UpTo, SubmissionOrder
<1> QED BY <1>1, RaceInvHolds, PTL

-----------------------------------------------------------------------------
Untaken == Transactions \ taken

(* As far as transactions go that are in no block yet, what the generator  *)
(* has read is never behind the mempool, and what main has read or copied  *)
(* never ahead of it.                                                      *)
HeldInv ==
    /\ Elements(txsToInclude) \subseteq taken
    /\ \A p \in Untaken :
        /\ gpc = "store" /\ p \in Elements(Pool[Target(gTarget)])
               => p \in Elements(gSlice)
        /\ pc = "trim" /\ p \in Elements(mSlice)
               => p \in Elements(Pool[CurrentLeader])
        /\ pc = "purge" /\ p \in Elements(mSlice) \cup Elements(newTxs)
               => p \in Elements(Pool[Global])

(* main is past the check and has not trimmed yet.                         *)
Taking == {"take", "all", "some", "rest", "trim"}

(* A call of ProposeBlock that may still lose a copy of p has lost none.   *)
LossInv ==
    /\ proposals \in Nat
    /\ \A p \in Untaken :
        /\ Cardinality(LostCopies(p)) <= proposals
        /\ pc \in Taking => Cardinality(LostCopies(p)) < proposals
        /\ pc = "scan" =>
              Cardinality(LostCopies(p)) < proposals \/ Global \in Appends(p)
        /\ pc = "purge" =>
              \/ Cardinality(LostCopies(p)) < proposals
              \/ p \in Elements(mSlice) \cup Elements(newTxs)
              \/ Global \in LostCopies(p)

LEMMA ElementsAppend ==
    ASSUME NEW s \in Seq(Int), NEW p
    PROVE  Elements(Append(s, p)) = Elements(s) \cup {p}
<1>1. /\ Len(s) \in Nat /\ DOMAIN s = 1 .. Len(s)
      /\ DOMAIN Append(s, p) = 1 .. Len(s) + 1
      /\ \A k \in 1 .. Len(s) : Append(s, p)[k] = s[k]
      /\ Append(s, p)[Len(s) + 1] = p
  BY AppendProperties, LenProperties
<1>2. 1 .. Len(s) + 1 = 1 .. Len(s) \cup {Len(s) + 1}
  BY <1>1
<1> QED BY <1>1, <1>2 DEF Elements

LEMMA ElementsTail ==
    ASSUME NEW s \in Seq(Int), s /= <<>>
    PROVE  /\ Tail(s) \in Seq(Int) /\ Head(s) \in Int
           /\ Elements(s) = {Head(s)} \cup Elements(Tail(s))
<1>1. /\ Head(s) = s[1] /\ Tail(s) \in Seq(Int) /\ Len(Tail(s)) = Len(s) - 1
      /\ \A k \in 1 .. Len(s) - 1 : Tail(s)[k] = s[k + 1]
  BY HeadTailProperties
<1>2. Len(s) \in Nat \ {0} /\ DOMAIN s = 1 .. Len(s)
  BY LenProperties, EmptySeq
<1>3. DOMAIN Tail(s) = 1 .. Len(s) - 1
  BY <1>1, LenProperties
<1>4. ASSUME NEW k \in 1 .. Len(s) PROVE s[k] = Head(s) \/ s[k] \in Elements(Tail(s))
  <2>1. k = 1 \/ (k - 1 \in 1 .. Len(s) - 1 /\ k - 1 + 1 = k)
    BY <1>2
  <2> QED BY <1>1, <1>3, <2>1 DEF Elements
<1>5. \A k \in 1 .. Len(s) - 1 : Tail(s)[k] \in Elements(s)
  <2>1. \A k \in 1 .. Len(s) - 1 : k + 1 \in DOMAIN s
    BY <1>2
  <2> QED BY <1>1, <2>1 DEF Elements
<1>6. Head(s) \in Elements(s) /\ Head(s) \in Int
  BY <1>1, <1>2 DEF Elements
<1> QED BY <1>1, <1>2, <1>3, <1>4, <1>5, <1>6 DEF Elements

LEMMA ElementsSplit ==
    ASSUME NEW s \in Seq(Int), NEW k \in 0 .. Len(s)
    PROVE  Elements(s) = Elements(SubSeq(s, 1, k)) \cup Elements(SubSeq(s, k + 1, Len(s)))
<1> DEFINE a == SubSeq(s, 1, k)
           b == SubSeq(s, k + 1, Len(s))
<1>0. PICK n \in Nat : n = Len(s)
  BY LenProperties
<1>1. DOMAIN s = 1 .. n /\ k \in 0 .. n /\ \A i \in 1 .. n : s[i] \in Int
  BY <1>0, LenProperties, ElementOfSeq
<1>2. DOMAIN a = 1 .. k /\ \A i \in 1 .. k : a[i] = s[i]
  <2>1. \A i \in 1 .. k : s[i] \in Int
    BY <1>1
  <2>2. /\ a \in Seq(Int) /\ Len(a) = IF 1 <= k THEN k - 1 + 1 ELSE 0
        /\ \A i \in 1 .. k - 1 + 1 : a[i] = s[1 + i - 1]
    BY <1>1, <2>1, SubSeqProperties
  <2>3. Len(a) = k
    BY <1>1, <2>2
  <2>4. \A i \in 1 .. k : i \in 1 .. k - 1 + 1 /\ 1 + i - 1 = i
    BY <1>1
  <2> QED BY <2>2, <2>3, <2>4, LenProperties
<1>3. DOMAIN b = 1 .. n - k /\ \A i \in 1 .. n - k : b[i] = s[k + i]
  <2>1. \A i \in k + 1 .. n : s[i] \in Int
    BY <1>1
  <2>2. /\ b \in Seq(Int) /\ Len(b) = IF k + 1 <= n THEN n - (k + 1) + 1 ELSE 0
        /\ \A i \in 1 .. n - (k + 1) + 1 : b[i] = s[k + 1 + i - 1]
    BY <1>0, <1>1, <2>1, SubSeqProperties
  <2>3. Len(b) = n - k
    BY <1>1, <2>2
  <2>4. \A i \in 1 .. n - k : i \in 1 .. n - (k + 1) + 1 /\ k + 1 + i - 1 = k + i
    BY <1>1
  <2> QED BY <2>2, <2>3, <2>4, LenProperties
<1> HIDE DEF a, b
<1>4. \A i \in 1 .. n : i \in 1 .. k \/ (i - k \in 1 .. n - k /\ k + (i - k) = i)
  BY <1>1
<1>5. Elements(s) \subseteq Elements(a) \cup Elements(b)
  BY <1>1, <1>2, <1>3, <1>4 DEF Elements
<1>6. /\ \A i \in 1 .. k : i \in 1 .. n
      /\ \A i \in 1 .. n - k : k + i \in 1 .. n
  BY <1>1
<1>7. Elements(a) \subseteq Elements(s) /\ Elements(b) \subseteq Elements(s)
  BY <1>1, <1>2, <1>3, <1>6 DEF Elements
<1> QED BY <1>5, <1>7 DEF a, b

LEMMA FewerCopies ==
    ASSUME NEW S \in SUBSET PoolName, NEW T \in SUBSET S
    PROVE  /\ Cardinality(S) \in Nat /\ Cardinality(T) \in Nat
           /\ Cardinality(T) <= Cardinality(S)
           /\ T /= S => Cardinality(T) < Cardinality(S)
           /\ \A x : /\ Cardinality(T \cup {x}) \in Nat
                     /\ Cardinality(T \cup {x}) <= Cardinality(S) + 1
<1>1. IsFiniteSet(PoolName)
  <2>1. 0 \in Int /\ NumValidators - 1 \in Int
    BY RaceAssumption
  <2>2. IsFiniteSet(Validator)
    BY <2>1, FS_Interval DEF Validator
  <2> QED BY <2>2, FS_AddElement DEF PoolName
<1>2. IsFiniteSet(S) /\ IsFiniteSet(T)
  BY <1>1, FS_Subset
<1>3. /\ Cardinality(S) \in Nat /\ Cardinality(T) \in Nat
      /\ Cardinality(T) <= Cardinality(S)
      /\ Cardinality(T) = Cardinality(S) => T = S
  BY <1>2, FS_CardinalityType, FS_Subset
<1>4. ASSUME NEW x
      PROVE  /\ Cardinality(T \cup {x}) \in Nat
             /\ Cardinality(T \cup {x}) <= Cardinality(S) + 1
  <2>1. PICK m \in Nat, n \in Nat : m = Cardinality(T) /\ n = Cardinality(S)
    BY <1>3
  <2>2. Cardinality(T \cup {x}) = IF x \in T THEN m ELSE m + 1
    BY <1>2, <2>1, FS_AddElement
  <2>3. m <= n
    BY <1>3, <2>1
  <2> QED BY <2>1, <2>2, <2>3
<1>5. T /= S => Cardinality(T) < Cardinality(S)
  <2>1. PICK m \in Nat, n \in Nat : m = Cardinality(T) /\ n = Cardinality(S)
    BY <1>3
  <2>2. m <= n /\ (T /= S => m /= n)
    BY <1>3, <2>1
  <2>3. T /= S => m < n
    BY <2>2
  <2> QED BY <2>1, <2>3
<1>6. ASSUME NEW x
      PROVE  Cardinality(T \cup {x}) \in Nat /\ Cardinality(T \cup {x}) <= Cardinality(S) + 1
  BY <1>4
<1> QED BY <1>3, <1>5, <1>6

(* SubmitTransaction appends to bc.Mempool first.                          *)
LEMMA AppendsGlobalFirst ==
    ASSUME TypeInv, NEW p, NEW x \in Appends(p)
    PROVE  Global \in Appends(p) /\ Appends(p) \subseteq PoolName
<1>1. Global \in PoolName /\ Target(0) = Global
  BY DEF PoolName, Target
<1>2. CASE p < submitted \/ (p = submitted /\ gpc = "idle")
  BY <1>1, <1>2 DEF Appends
<1>3. CASE ~(p < submitted \/ (p = submitted /\ gpc = "idle"))
  <2>1. p = submitted /\ Appends(p) = {Target(k) : k \in 0 .. gTarget - 1}
    BY <1>3 DEF Appends
  <2>2. gTarget \in Int /\ 0 \in 0 .. gTarget - 1
    BY <2>1, RaceAssumption DEF TypeInv
  <2>3. \A k \in 0 .. gTarget - 1 : k \in 0 .. NumValidators
    BY RaceAssumption DEF TypeInv
  <2> QED BY <1>1, <2>1, <2>2, <2>3, TargetInjective
<1> QED BY <1>2, <1>3

LEMMA LostInPools ==
    ASSUME TypeInv, NEW p PROVE LostCopies(p) \in SUBSET PoolName
BY AppendsGlobalFirst DEF LostCopies

-----------------------------------------------------------------------------
(* What SubmitTransaction does only adds copies.                           *)
LEMMA GeneratorAddsCopies ==
    ASSUME RaceInv, HeldInv, GeneratorStep, NEW p \in Untaken
    PROVE  /\ LostCopies(p)' \subseteq LostCopies(p)
           /\ Appends(p) \subseteq Appends(p)'
           /\ \A x \in PoolName : p \in Elements(Pool[x]) => p \in Elements(Pool'[x])
<1>0. /\ submitted \in Int /\ gTarget \in 0 .. NumValidators /\ p \in Int
      /\ Pool \in [PoolName -> Seq(Int)]
  BY DEF RaceInv, TypeInv, Untaken, Transactions
<1>1. CASE BeginSubmit
  <2>1. /\ gpc = "idle" /\ gpc' = "read" /\ gTarget' = 0
        /\ submitted' = submitted + 1 /\ Pool' = Pool
    BY <1>1 DEF BeginSubmit
  <2>2. Appends(p)' = Appends(p)
    <3>1. \A k \in 0 .. 0 - 1 : FALSE
      OBVIOUS
    <3>2. 0 .. gTarget' - 1 = {}
      BY <2>1, <3>1
    <3>3. CASE p < submitted + 1
      BY <1>0, <2>1, <3>3 DEF Appends
    <3>4. CASE p = submitted + 1
      <4>1. Appends(p) = {}
        BY <1>0, <3>4 DEF Appends
      <4>2. Appends(p)' = {(Target(k))' : k \in 0 .. gTarget' - 1}
        BY <1>0, <2>1, <3>4 DEF Appends
      <4> QED BY <3>2, <4>1, <4>2
    <3>5. CASE p > submitted + 1
      BY <1>0, <2>1, <3>5 DEF Appends
    <3> QED BY <1>0, <3>3, <3>4, <3>5
  <2> QED BY <2>1, <2>2 DEF LostCopies
<1>2. CASE AppendRead
  <2>1. /\ gpc = "read" /\ gpc' = "store" /\ gTarget' = gTarget
        /\ submitted' = submitted /\ Pool' = Pool
    BY <1>2 DEF AppendRead
  <2>2. Appends(p)' = Appends(p)
    BY <2>1 DEF Appends, Target
  <2> QED BY <2>1, <2>2 DEF LostCopies
<1>3. CASE AppendStore
  <2> DEFINE x == Target(gTarget)
  <2>1. /\ gpc = "store" /\ submitted' = submitted
        /\ Pool' = [Pool EXCEPT ![x] = Append(gSlice, submitted)]
        /\ IF gTarget = NumValidators THEN gpc' = "idle" /\ gTarget' = 0
           ELSE gpc' = "read" /\ gTarget' = gTarget + 1
        /\ gSlice \in Seq(Int)
    BY <1>3 DEF AppendStore, Appended, RaceInv, OrderInv, UpTo
  <2>2. x \in PoolName
    BY <1>0, TargetInjective
  <2>3. Elements(Pool'[x]) = Elements(gSlice) \cup {submitted}
    BY <1>0, <2>1, <2>2, ElementsAppend
  <2>4. \A y \in PoolName : y /= x => Pool'[y] = Pool[y]
    BY <1>0, <2>1, <2>2
  <2>5. p \in Elements(Pool[x]) => p \in Elements(gSlice)
    BY <2>1 DEF HeldInv
  <2>6. \A y \in PoolName : p \in Elements(Pool[y]) => p \in Elements(Pool'[y])
    BY <2>3, <2>4, <2>5
  <2>7. CASE p < submitted
    <3>1. Appends(p) = PoolName /\ Appends(p)' = PoolName
      BY <2>1, <2>7 DEF Appends
    <3> QED BY <2>6, <3>1 DEF LostCopies
  <2>8. CASE p > submitted
    <3>1. Appends(p) = {} /\ Appends(p)' = {}
      BY <1>0, <2>1, <2>8 DEF Appends
    <3> QED BY <2>6, <3>1 DEF LostCopies
  <2>9. CASE p = submitted
    <3>1. Appends(p) = {Target(k) : k \in 0 .. gTarget - 1}
      BY <1>0, <2>1, <2>9 DEF Appends
    <3>2. Appends(p)' = Appends(p) \cup {x}
      <4>1. CASE gTarget = NumValidators
        <5>1. Appends(p)' = PoolName
          BY <2>1, <2>9, <4>1 DEF Appends
        <5>2. ASSUME NEW y \in PoolName PROVE y = x \/ y \in Appends(p)
          <6>1. PICK k \in 0 .. NumValidators : y = Target(k)
            <7>1. CASE y = Global
              BY <7>1, RaceAssumption DEF Target
            <7>2. CASE y \in Validator
              <8>1. PICK k \in 0 .. NumValidators : k /= 0 /\ k - 1 = y
                <9>1. y + 1 \in 0 .. NumValidators /\ y + 1 /= 0 /\ y + 1 - 1 = y
                  BY <7>2, RaceAssumption DEF Validator
                <9> QED BY <7>2, <9>1 DEF Validator
              <8>2. Target(k) = y
                BY <8>1 DEF Target
              <8> QED BY <8>1, <8>2
            <7> QED BY <7>1, <7>2 DEF PoolName
          <6>2. k = gTarget \/ k \in 0 .. gTarget - 1
            BY <4>1, <6>1, RaceAssumption
          <6> QED BY <3>1, <6>1, <6>2
        <5>3. Appends(p) \subseteq PoolName
          BY AppendsGlobalFirst DEF RaceInv
        <5> QED BY <2>2, <5>1, <5>2, <5>3
      <4>2. CASE gTarget /= NumValidators
        <5>1. Appends(p)' = {Target(k) : k \in 0 .. gTarget + 1 - 1}
          BY <1>0, <2>1, <2>9, <4>2 DEF Appends, Target
        <5>2. 0 .. gTarget + 1 - 1 = 0 .. gTarget - 1 \cup {gTarget}
          BY <1>0
        <5> QED BY <3>1, <5>1, <5>2
      <4> QED BY <4>1, <4>2
    <3>3. Appends(p) \subseteq PoolName
      BY AppendsGlobalFirst DEF RaceInv
    <3>4. p \in Elements(Pool'[x])
      BY <2>3, <2>9
    <3> HIDE DEF x
    <3> QED BY <2>6, <3>2, <3>3, <3>4 DEF LostCopies
  <2> QED BY <1>0, <2>6, <2>7, <2>8, <2>9
<1> QED BY <1>1, <1>2, <1>3 DEF GeneratorStep

LEMMA GeneratorKeepsHeld == ASSUME RaceInv, HeldInv, GeneratorStep PROVE HeldInv'
<1>1. UNCHANGED mainVars
  BY DEF GeneratorStep, BeginSubmit, AppendRead, AppendStore
<1>2. /\ pc' = pc /\ CurrentLeader' = CurrentLeader /\ mSlice' = mSlice
      /\ txsToInclude' = txsToInclude /\ newTxs' = newTxs /\ taken' = taken
  BY <1>1 DEF mainVars
<1>3. Untaken' = Untaken /\ Elements(txsToInclude)' \subseteq taken'
  BY <1>2 DEF Untaken, HeldInv, Elements
<1>4. CurrentLeader \in PoolName /\ Global \in PoolName
  BY DEF RaceInv, TypeInv, PoolName
<1>5. ASSUME NEW p \in Untaken
      PROVE  /\ gpc' = "store" /\ p \in Elements(Pool'[Target(gTarget')])
                    => p \in Elements(gSlice')
             /\ pc = "trim" /\ p \in Elements(mSlice)
                    => p \in Elements(Pool'[CurrentLeader])
             /\ pc = "purge" /\ p \in Elements(mSlice) \cup Elements(newTxs)
                    => p \in Elements(Pool'[Global])
  <2>1. gpc' = "store" /\ p \in Elements(Pool'[Target(gTarget')]) => p \in Elements(gSlice')
    BY DEF GeneratorStep, BeginSubmit, AppendRead, AppendStore
  <2>2. \A x \in PoolName : p \in Elements(Pool[x]) => p \in Elements(Pool'[x])
    BY GeneratorAddsCopies
  <2> QED BY <1>4, <2>1, <2>2 DEF HeldInv
<1>6. ASSUME NEW p \in Untaken'
      PROVE  /\ gpc' = "store" /\ p \in Elements(Pool[Target(gTarget)])'
                    => p \in Elements(gSlice)'
             /\ pc' = "trim" /\ p \in Elements(mSlice)'
                    => p \in Elements(Pool[CurrentLeader])'
             /\ pc' = "purge" /\ p \in (Elements(mSlice) \cup Elements(newTxs))'
                    => p \in Elements(Pool[Global])'
  BY <1>2, <1>3, <1>5 DEF Target, Elements, Global
<1> QED BY <1>3, <1>6 DEF HeldInv

LEMMA GeneratorKeepsLoss ==
    ASSUME RaceInv, HeldInv, LossInv, GeneratorStep PROVE LossInv'
<1>1. UNCHANGED mainVars
  BY DEF GeneratorStep, BeginSubmit, AppendRead, AppendStore
<1>2. /\ pc' = pc /\ mSlice' = mSlice /\ newTxs' = newTxs /\ taken' = taken
      /\ proposals' = proposals /\ proposals \in Nat
  BY <1>1 DEF mainVars, LossInv
<1>3. Untaken' = Untaken
  BY <1>2 DEF Untaken
<1>4. ASSUME NEW p \in Untaken
      PROVE  /\ Cardinality(LostCopies(p)') <= proposals
             /\ pc \in Taking => Cardinality(LostCopies(p)') < proposals
             /\ pc = "scan" =>
                   Cardinality(LostCopies(p)') < proposals \/ Global \in Appends(p)'
             /\ pc = "purge" =>
                   \/ Cardinality(LostCopies(p)') < proposals
                   \/ p \in Elements(mSlice) \cup Elements(newTxs)
                   \/ Global \in LostCopies(p)'
  <2>1. LostCopies(p)' \subseteq LostCopies(p) /\ Appends(p) \subseteq Appends(p)'
    BY GeneratorAddsCopies
  <2>2. LostCopies(p) \in SUBSET PoolName
    BY LostInPools DEF RaceInv
  <2>3. PICK S, T : S = LostCopies(p) /\ T = LostCopies(p)'
    OBVIOUS
  <2>4. PICK m, n : m = Cardinality(T) /\ n = Cardinality(S)
    OBVIOUS
  <2>5. m \in Nat /\ n \in Nat /\ m <= n /\ (T /= S => m < n)
    BY <2>1, <2>2, <2>3, <2>4, FewerCopies
  <2>6. /\ n <= proposals
        /\ pc \in Taking => n < proposals
        /\ pc = "scan" => n < proposals \/ Global \in Appends(p)
        /\ pc = "purge" => \/ n < proposals
                           \/ p \in Elements(mSlice) \cup Elements(newTxs)
                           \/ Global \in S
    BY <2>3, <2>4 DEF LossInv
  <2>7. /\ m <= proposals
        /\ pc \in Taking => m < proposals
        /\ pc = "scan" => m < proposals \/ Global \in Appends(p)
        /\ pc = "purge" => \/ m < proposals
                           \/ p \in Elements(mSlice) \cup Elements(newTxs)
                           \/ Global \in T
    BY <1>2, <2>5, <2>6
  <2> QED BY <2>1, <2>3, <2>4, <2>7
<1> QED BY <1>2, <1>3, <1>4 DEF LossInv, Elements, Global

-----------------------------------------------------------------------------
(* ProposeBlock leaves the generator alone, and what it stores is part of  *)
(* what it has read.                                                       *)
LEMMA MainKeepsHeld == ASSUME RaceInv, RaceInv', HeldInv, MainStep PROVE HeldInv'
<1>0. /\ gpc' = gpc /\ gTarget' = gTarget /\ gSlice' = gSlice
      /\ taken \subseteq taken' /\ Untaken' \subseteq Untaken
  BY DEF MainStep, CheckMempool, TakeLength, TakeAll, TakeSome, Include,
         RestRead, TrimStore, ScanRead, KeepNext, PurgeStore, EndRound, genVars,
         Untaken, Transactions
<1>1. /\ Pool \in [PoolName -> Seq(Int)]
      /\ CurrentLeader \in PoolName /\ Global \in PoolName
      /\ gTarget \in 0 .. NumValidators /\ Target(gTarget) \in PoolName
  BY TargetInjective DEF RaceInv, TypeInv, PoolName
<1>2. ASSUME NEW p \in Untaken', NEW x \in PoolName,
             p \in Elements(Pool'[x])
      PROVE  p \in Elements(Pool[x])
  <2>1. CASE TrimStore
    <3>1. /\ Pool' = [Pool EXCEPT ![CurrentLeader] = mSlice]
          /\ p \in Elements(mSlice) => p \in Elements(Pool[CurrentLeader])
      BY <1>0, <2>1 DEF TrimStore, HeldInv
    <3> QED BY <1>1, <1>2, <3>1
  <2>2. CASE PurgeStore
    <3>1. /\ Pool' = [Pool EXCEPT ![Global] = newTxs]
          /\ p \in Elements(newTxs) => p \in Elements(Pool[Global])
      BY <1>0, <2>2 DEF PurgeStore, HeldInv
    <3> QED BY <1>1, <1>2, <3>1
  <2>3. CASE ~TrimStore /\ ~PurgeStore
    BY <1>2, <2>3 DEF MainStep, CheckMempool, TakeLength, TakeAll, TakeSome,
                      RestRead, ScanRead, KeepNext, EndRound
  <2> QED BY <2>1, <2>2, <2>3
<1>3. Elements(txsToInclude') \subseteq taken'
  <2>1. CASE TakeAll \/ TakeSome
    BY <2>1 DEF TakeAll, TakeSome, Include
  <2>2. CASE EndRound
    BY <2>2 DEF EndRound, Elements
  <2>3. CASE ~(TakeAll \/ TakeSome) /\ ~EndRound
    <3>1. txsToInclude' = txsToInclude
      BY <2>3 DEF MainStep, CheckMempool, TakeLength, RestRead, TrimStore, ScanRead,
                  KeepNext, PurgeStore
    <3> QED BY <1>0, <3>1 DEF HeldInv
  <2> QED BY <2>1, <2>2, <2>3
<1>4. ASSUME NEW p \in Untaken', pc' = "trim", p \in Elements(mSlice')
      PROVE  p \in Elements(Pool'[CurrentLeader'])
  <2>1. CASE RestRead
    <3>1. PICK s : s = Pool[CurrentLeader]
      OBVIOUS
    <3>2. /\ mSlice' = SubSeq(s, Limit(s) + 1, Len(s))
          /\ Pool'[CurrentLeader'] = s
      BY <2>1, <3>1 DEF RestRead
    <3>3. UpTo(s, Newest(CurrentLeader))
      BY <1>1, <3>1 DEF RaceInv, OrderInv
    <3>4. s \in Seq(Int) /\ Limit(s) \in 0 .. Len(s)
      BY <3>3, LimitInRange DEF UpTo
    <3>5. Elements(mSlice') \subseteq Elements(s)
      BY <3>2, <3>4, ElementsSplit
    <3> QED BY <1>4, <3>2, <3>5
  <2>2. CASE TakeAll
    BY <1>4, <2>2 DEF TakeAll, Elements
  <2>3. CASE ~RestRead /\ ~TakeAll
    BY <1>4, <2>3 DEF MainStep, CheckMempool, TakeLength, TakeSome, TrimStore,
                      ScanRead, KeepNext, PurgeStore, EndRound
  <2> QED BY <2>1, <2>2, <2>3
<1>5. ASSUME NEW p \in Untaken', pc' = "purge",
             p \in Elements(mSlice') \cup Elements(newTxs')
      PROVE  p \in Elements(Pool'[Global])
  <2>1. CASE ScanRead
    <3>1. mSlice' = Pool[Global] /\ Pool' = Pool /\ newTxs' = <<>>
      BY <2>1 DEF ScanRead, RaceInv, OrderInv
    <3>2. Elements(newTxs') = {}
      BY <3>1 DEF Elements
    <3> QED BY <1>5, <3>1, <3>2
  <2>2. CASE KeepNext
    <3>1. /\ pc = "purge" /\ Pool' = Pool /\ mSlice /= <<>> /\ mSlice' = Tail(mSlice)
          /\ newTxs' = newTxs \/ newTxs' = Append(newTxs, Head(mSlice))
      BY <2>2 DEF KeepNext
    <3>2. mSlice \in Seq(Int) /\ newTxs \in Seq(Int)
      BY <3>1 DEF RaceInv, OrderInv, UpTo
    <3>3. Elements(mSlice) = {Head(mSlice)} \cup Elements(mSlice')
      BY <3>1, <3>2, ElementsTail
    <3>4. Elements(Append(newTxs, Head(mSlice))) = Elements(newTxs) \cup {Head(mSlice)}
      BY <3>2, ElementsAppend
    <3>5. Elements(newTxs') \subseteq Elements(newTxs) \cup {Head(mSlice)}
      BY <3>1, <3>4
    <3>6. p \in Elements(mSlice) \cup Elements(newTxs)
      BY <1>5, <3>3, <3>5
    <3> QED BY <1>0, <3>1, <3>6 DEF HeldInv
  <2>3. CASE ~ScanRead /\ ~KeepNext
    BY <1>5, <2>3 DEF MainStep, CheckMempool, TakeLength, TakeAll, TakeSome,
                      RestRead, TrimStore, PurgeStore, EndRound
  <2> QED BY <2>1, <2>2, <2>3
<1>6. ASSUME NEW p \in Untaken', gpc' = "store", p \in Elements(Pool'[Target(gTarget)])
      PROVE  p \in Elements(gSlice')
  <2>1. p \in Elements(Pool[Target(gTarget)])
    BY <1>1, <1>2, <1>6
  <2> QED BY <1>0, <1>6, <2>1 DEF HeldInv
<1> QED BY <1>0, <1>3, <1>4, <1>5, <1>6 DEF HeldInv, Elements, Target, Global

(* The copies a step of ProposeBlock loses: of the leader's mempool in the *)
(* trim, of bc.Mempool at the end of the purge, and otherwise none.        *)
LEMMA MainLoses ==
    ASSUME RaceInv, HeldInv, MainStep, NEW p \in Untaken'
    PROVE  /\ p \in Untaken /\ Appends(p)' = Appends(p)
           /\ ~TrimStore /\ ~PurgeStore => LostCopies(p)' = LostCopies(p)
           /\ TrimStore => LostCopies(p)' \subseteq LostCopies(p) \cup {CurrentLeader}
           /\ PurgeStore => LostCopies(p)' \subseteq LostCopies(p) \cup {Global}
           /\ PurgeStore /\ p \in Elements(newTxs) =>
                 LostCopies(p)' \subseteq LostCopies(p)
<1>1. UNCHANGED genVars /\ p \in Untaken
  BY DEF MainStep, CheckMempool, TakeLength, TakeAll, TakeSome, Include,
         RestRead, TrimStore, ScanRead, KeepNext, PurgeStore, EndRound, Untaken,
         Transactions
<1>2. Appends(p)' = Appends(p)
  BY <1>1 DEF genVars, Appends, Target
<1>3. /\ Pool \in [PoolName -> Seq(Int)] /\ Appends(p) \subseteq PoolName
  BY AppendsGlobalFirst DEF RaceInv, TypeInv
<1>4. ASSUME ~TrimStore, ~PurgeStore PROVE LostCopies(p)' = LostCopies(p)
  <2>1. Pool' = Pool
    BY <1>4 DEF MainStep, CheckMempool, TakeLength, TakeAll, TakeSome, RestRead,
                ScanRead, KeepNext, EndRound
  <2> QED BY <1>2, <2>1 DEF LostCopies
<1>5. ASSUME NEW x, NEW t, Pool' = [Pool EXCEPT ![x] = t]
      PROVE  /\ LostCopies(p)' \subseteq LostCopies(p) \cup {x}
             /\ p \in Elements(t) => LostCopies(p)' \subseteq LostCopies(p)
  <2>1. /\ \A y \in PoolName : y /= x => Pool'[y] = Pool[y]
        /\ \A y \in PoolName : y = x => Pool'[y] = t
    BY <1>3, <1>5
  <2> QED BY <1>2, <1>3, <2>1 DEF LostCopies
<1>6. TrimStore => LostCopies(p)' \subseteq LostCopies(p) \cup {CurrentLeader}
  BY <1>5 DEF TrimStore
<1>7. PurgeStore => /\ LostCopies(p)' \subseteq LostCopies(p) \cup {Global}
                    /\ p \in Elements(newTxs) => LostCopies(p)' \subseteq LostCopies(p)
  BY <1>5 DEF PurgeStore
<1> QED BY <1>1, <1>2, <1>4, <1>6, <1>7

LEMMA MainKeepsLoss ==
    ASSUME RaceInv, HeldInv, LossInv, MainStep PROVE LossInv'
<1>0. proposals \in Nat /\ Untaken' \subseteq Untaken
  BY MainLoses DEF LossInv
<1>1. proposals' \in Nat
  <2>1. proposals' = proposals \/ proposals' = proposals + 1
    BY DEF MainStep, CheckMempool, TakeLength, TakeAll, TakeSome, RestRead,
           TrimStore, ScanRead, KeepNext, PurgeStore, EndRound
  <2> QED BY <1>0, <2>1
<1>2. ASSUME NEW p \in Untaken'
      PROVE  /\ Cardinality(LostCopies(p)') <= proposals'
             /\ pc' \in Taking => Cardinality(LostCopies(p)') < proposals'
             /\ pc' = "scan" =>
                   Cardinality(LostCopies(p)') < proposals' \/ Global \in Appends(p)'
             /\ pc' = "purge" =>
                   \/ Cardinality(LostCopies(p)') < proposals'
                   \/ p \in Elements(mSlice') \cup Elements(newTxs')
                   \/ Global \in LostCopies(p)'
  <2> DEFINE S == LostCopies(p)
             T == LostCopies(p)'
  <2>1. /\ p \in Untaken /\ Appends(p)' = Appends(p)
        /\ ~TrimStore /\ ~PurgeStore => T = S
        /\ TrimStore => T \subseteq S \cup {CurrentLeader}
        /\ PurgeStore => T \subseteq S \cup {Global}
        /\ PurgeStore /\ p \in Elements(newTxs) => T \subseteq S
    BY MainLoses
  <2>2. PICK n \in Nat : n = Cardinality(S)
    BY FewerCopies, LostInPools DEF RaceInv
  <2>3. /\ n <= proposals
        /\ pc \in Taking => n < proposals
        /\ pc = "scan" => n < proposals \/ Global \in Appends(p)
        /\ pc = "purge" => \/ n < proposals
                           \/ p \in Elements(mSlice) \cup Elements(newTxs)
                           \/ Global \in S
    BY <2>1, <2>2 DEF LossInv
  <2>4. S \in SUBSET PoolName
    BY LostInPools DEF RaceInv
  <2>5. ASSUME NEW x, T \subseteq S \cup {x}
        PROVE  Cardinality(T) \in Nat /\ Cardinality(T) <= n + 1
    <3>1. T \in SUBSET (S \cup {x})
      BY <2>5
    <3>2. PICK R \in SUBSET S : T = R \/ T = R \cup {x}
      <4>1. T \ {x} \in SUBSET S /\ (T = T \ {x} \/ T = (T \ {x}) \cup {x})
        BY <2>5
      <4> QED BY <4>1
    <3>3. /\ Cardinality(R) \in Nat /\ Cardinality(R) <= n
          /\ Cardinality(R \cup {x}) \in Nat
          /\ Cardinality(R \cup {x}) <= n + 1
      BY <2>2, <2>4, FewerCopies
    <3>4. \A m \in Nat : m <= n => m <= n + 1
      BY <2>2
    <3> QED BY <3>2, <3>3, <3>4
  <2>6. ASSUME T \subseteq S PROVE Cardinality(T) \in Nat /\ Cardinality(T) <= n
    BY <2>2, <2>4, <2>6, FewerCopies
  <2>7. S \subseteq Appends(p)
    BY DEF LostCopies
  <2> HIDE DEF S, T
  <2>8. CASE CheckMempool
    <3>1. T = S /\ pc' \in {"check", "take"}
          /\ (pc' = "check" => proposals' = proposals)
          /\ (pc' = "take" => proposals' = proposals + 1)
      BY <2>1, <2>8 DEF CheckMempool, TrimStore, PurgeStore
    <3>2. Cardinality(T) = n
      BY <2>2, <3>1
    <3>3. n <= proposals' /\ (pc' = "take" => n < proposals')
      BY <1>0, <2>3, <3>1
    <3> QED BY <3>1, <3>2, <3>3 DEF Taking, S, T
  <2>9. CASE TakeLength \/ TakeAll \/ TakeSome \/ RestRead
    <3>1. /\ T = S /\ proposals' = proposals
          /\ pc \in Taking \ {"trim"} /\ pc' \in Taking \ {"take"}
      BY <2>1, <2>9 DEF TakeLength, TakeAll, TakeSome, RestRead, TrimStore,
                        PurgeStore, Taking
    <3>2. Cardinality(T) = n
      BY <2>2, <3>1
    <3>3. n <= proposals' /\ n < proposals'
      BY <2>3, <3>1
    <3> QED BY <3>1, <3>2, <3>3 DEF S, T, Taking
  <2>10. CASE TrimStore
    <3>1. pc = "trim" /\ pc' \in {"vote", "scan"} /\ proposals' = proposals
      BY <2>10 DEF TrimStore
    <3>2. n < proposals
      BY <2>3, <3>1 DEF Taking
    <3>3. CASE T \subseteq S
      <4>1. Cardinality(T) \in Nat /\ Cardinality(T) <= n
        BY <2>6, <3>3
      <4>2. Cardinality(T) <= proposals /\ Cardinality(T) < proposals
        BY <1>0, <3>2, <4>1
      <4> QED BY <3>1, <4>2 DEF T
    <3>4. CASE ~(T \subseteq S)
      <4>1. T \subseteq S \cup {CurrentLeader}
        BY <2>1, <2>10
      <4>2. Cardinality(T) \in Nat /\ Cardinality(T) <= n + 1
        BY <2>5, <4>1
      <4>3. Cardinality(T) <= proposals
        BY <1>0, <3>2, <4>2
      <4>4. T \subseteq Appends(p)
        BY <2>1 DEF T, LostCopies
      <4>5. Global \in Appends(p)
        BY <3>4, <4>4, AppendsGlobalFirst DEF RaceInv
      <4> QED BY <2>1, <3>1, <4>3, <4>5 DEF Taking, T
    <3> QED BY <3>3, <3>4
  <2>11. CASE ScanRead
    <3>1. /\ T = S /\ pc = "scan" /\ pc' = "purge" /\ proposals' = proposals
          /\ mSlice' = Pool[Global] /\ Pool' = Pool
      BY <2>1, <2>11 DEF ScanRead, TrimStore, PurgeStore
    <3>2. Cardinality(T) = n
      BY <2>2, <3>1
    <3>3. Global \in Appends(p) => p \in Elements(mSlice') \/ Global \in S
      BY <3>1 DEF S, LostCopies
    <3> QED BY <2>3, <3>1, <3>2, <3>3 DEF Taking, S, T
  <2>12. CASE KeepNext
    <3>1. /\ T = S /\ pc = "purge" /\ pc' = "purge" /\ proposals' = proposals
          /\ mSlice /= <<>> /\ mSlice' = Tail(mSlice)
          /\ newTxs' = IF Head(mSlice) \in Elements(txsToInclude) THEN newTxs
                           ELSE Append(newTxs, Head(mSlice))
      BY <2>1, <2>12 DEF KeepNext, TrimStore, PurgeStore
    <3>2. Cardinality(T) = n
      BY <2>2, <3>1
    <3>3. mSlice \in Seq(Int) /\ newTxs \in Seq(Int)
      BY <3>1 DEF RaceInv, OrderInv, UpTo
    <3>4. Elements(mSlice) = {Head(mSlice)} \cup Elements(mSlice')
      BY <3>1, <3>3, ElementsTail
    <3>5. Elements(newTxs') = IF Head(mSlice) \in Elements(txsToInclude) THEN Elements(newTxs)
                              ELSE Elements(newTxs) \cup {Head(mSlice)}
      BY <3>1, <3>3, ElementsAppend
    <3>6. p \notin Elements(txsToInclude)
      BY <2>1 DEF HeldInv, Untaken
    <3>7. p \in Elements(mSlice) \cup Elements(newTxs) =>
              p \in Elements(mSlice') \cup Elements(newTxs')
      BY <3>4, <3>5, <3>6
    <3> QED BY <2>3, <3>1, <3>2, <3>7 DEF S, T
  <2>13. CASE PurgeStore
    <3>1. pc = "purge" /\ pc' = "vote" /\ proposals' = proposals /\ mSlice = <<>>
      BY <2>13 DEF PurgeStore
    <3>2. Elements(mSlice) = {}
      BY <3>1 DEF Elements
    <3>3. CASE n < proposals
      <4>1. Cardinality(T) \in Nat /\ Cardinality(T) <= n + 1
        BY <2>1, <2>5, <2>13
      <4>2. Cardinality(T) <= proposals
        BY <1>0, <3>3, <4>1
      <4> QED BY <3>1, <4>2 DEF Taking, T
    <3>4. CASE ~(n < proposals)
      <4>1. T \subseteq S
        BY <2>1, <2>3, <2>13, <3>1, <3>2, <3>4
      <4>2. Cardinality(T) <= proposals
        BY <1>0, <2>3, <2>6, <4>1
      <4> QED BY <3>1, <4>2 DEF Taking, T
    <3> QED BY <3>3, <3>4
  <2>14. CASE EndRound
    <3>1. T = S /\ pc' = "check" /\ proposals' = proposals
      BY <2>1, <2>14 DEF EndRound, TrimStore, PurgeStore
    <3>2. Cardinality(T) = n
      BY <2>2, <3>1
    <3> QED BY <2>3, <3>1, <3>2 DEF Taking, S, T
  <2> QED BY <2>8, <2>9, <2>10, <2>11, <2>12, <2>13, <2>14 DEF MainStep
<1> QED BY <1>1, <1>2 DEF LossInv, Elements, Global

-----------------------------------------------------------------------------
(* SubmitTransaction works from bc.Mempool to the validators' mempools and *)
(* ProposeBlock the other way (blockchain.go), so a transaction in no      *)
(* block yet loses at most one copy to each call of ProposeBlock.          *)
THEOREM OneCopyLostPerProposal == Spec => []OneCopyPerProposal
<1>1. Init => HeldInv /\ LossInv
  <2> SUFFICES ASSUME Init PROVE HeldInv /\ LossInv
    OBVIOUS
  <2>1. /\ pc = "check" /\ gpc = "idle" /\ txsToInclude = <<>> /\ proposals = 0
        /\ submitted = 0 /\ gTarget = 0
    BY DEF Init
  <2>2. HeldInv
    BY <2>1 DEF HeldInv, Elements
  <2>3. \A p \in Transactions : Cardinality(LostCopies(p)) = 0
    <3>1. \A p \in Transactions : Appends(p) = {}
      BY <2>1, RaceAssumption DEF Appends, Transactions
    <3>2. \A p \in Transactions : LostCopies(p) = {}
      BY <3>1 DEF LostCopies
    <3> QED BY <3>2, FS_EmptySet
  <2>4. LossInv
    BY <2>1, <2>3 DEF Taking, LossInv, Untaken
  <2> QED BY <2>2, <2>4
<1>2. RaceInv /\ RaceInv' /\ HeldInv /\ LossInv /\ [Next]_vars => HeldInv' /\ LossInv'
  <2> SUFFICES ASSUME RaceInv, RaceInv', HeldInv, LossInv, [Next]_vars
               PROVE  HeldInv' /\ LossInv'
    OBVIOUS
  <2>1. CASE GeneratorStep
    BY <2>1, GeneratorKeepsHeld, GeneratorKeepsLoss
  <2>2. CASE MainStep
    BY <2>2, MainKeepsHeld, MainKeepsLoss
  <2>3. CASE UNCHANGED <<Pool, genVars, mainVars>>
    <3>1. /\ UNCHANGED <<Pool, submitted, gpc, gTarget, gSlice>>
          /\ UNCHANGED <<pc, CurrentLeader, mSlice, txsToInclude, newTxs, taken, proposals>>
      BY <2>3 DEF genVars, mainVars
    <3>2. Untaken' = Untaken
      BY <3>1 DEF Untaken, Transactions
    <3>3. \A p : Appends(p)' = Appends(p)
      BY <3>1 DEF Appends, Target
    <3>4. \A p : LostCopies(p)' = LostCopies(p)
      BY <3>1, <3>3 DEF LostCopies
    <3>5. HeldInv'
      BY <3>1, <3>2 DEF HeldInv, Elements, Target, Global
    <3>6. LossInv'
      BY <3>1, <3>2, <3>3, <3>4 DEF LossInv, Elements, Global
    <3> QED BY <3>5, <3>6
  <2> QED BY <2>1, <2>2, <2>3 DEF Next, TornAccess, Stopped, vars
<1>3. LossInv => OneCopyPerProposal
  BY DEF LossInv, OneCopyPerProposal, Untaken
<1> QED BY <1>1, <1>2, <1>3, RaceInvHolds, PTL DEF Spec
=============================================================================
