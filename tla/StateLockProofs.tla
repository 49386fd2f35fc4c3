-------------------------- MODULE StateLockProofs --------------------------
(***************************************************************************)
(* The read lock of an object counts its holders, for any number of        *)
(* readers and executions, as long as the object is not overwritten; so    *)
(* only an overwrite can make the runtime abort.                           *)
(***************************************************************************)
EXTENDS StateLock, FiniteSetTheorems, TLAPS

Inv == TypeOK /\ SharedObjectKept /\ NoPhantomHolder /\ AbortNeedsOverwrite

LEMMA HoldersFinite ==
    \A o : IsFiniteSet(Holders(o)) /\ Cardinality(Holders(o)) \in Nat
<1> SUFFICES ASSUME NEW o
             PROVE  IsFiniteSet(Holders(o)) /\ Cardinality(Holders(o)) \in Nat
    OBVIOUS
<1>1. Holders(o) \subseteq Readers
      BY DEF Holders
<1> QED BY <1>1, LockAssumption, FS_Subset, FS_CardinalityType

LEMMA InitInv == Init => Inv
<1> SUFFICES ASSUME Init PROVE Inv
    OBVIOUS
<1>1. TypeOK
  <2>1. State \in 0 .. executions /\ executions \in 0 .. NumExecutions
        BY LockAssumption DEF Init
  <2>2. readerCount \in [Object -> Nat] /\ overwritten \subseteq Object
        BY DEF Init
  <2>3. /\ at \in [Readers -> {"outside", "loaded", "locked"}]
        /\ held \in [Readers -> Object \cup {NoState}]
        /\ \A r \in Readers : at[r] = "outside" /\ held[r] = NoState
        BY DEF Init
  <2> QED BY <2>1, <2>2, <2>3 DEF Init, TypeOK
<1>2. \A o : Holders(o) = {}
      BY DEF Init, Holders
<1>3. \A o \in Object : readerCount[o] = 0 /\ Cardinality(Holders(o)) = 0
      BY <1>2, FS_EmptySet DEF Init
<1>4. SharedObjectKept /\ NoPhantomHolder
      BY <1>3 DEF SharedObjectKept, NoPhantomHolder
<1> QED BY <1>1, <1>4 DEF Init, Inv, AbortNeedsOverwrite

(* The steps that leave every lock and its holders as they are.            *)
LEMMA SameHolders ==
    ASSUME Inv, readerCount' = readerCount, overwritten' = overwritten,
           crashed' = crashed, \A o : Holders(o)' = Holders(o)
    PROVE  SharedObjectKept' /\ NoPhantomHolder' /\ AbortNeedsOverwrite'
BY DEF Inv, SharedObjectKept, NoPhantomHolder, AbortNeedsOverwrite

LEMMA LoadStateKeepsInv == ASSUME Inv, NEW r \in Readers, LoadState(r) PROVE Inv'
<1> USE LockAssumption DEF Inv
<1>1. TypeOK'
  <2>1. State \in 0 .. executions /\ State \in Object
        BY DEF TypeOK, Object
  <2>2. /\ at' \in [Readers -> {"outside", "loaded", "locked"}]
        /\ held' \in [Readers -> Object \cup {NoState}]
        BY <2>1 DEF TypeOK, LoadState
  <2>3. \A q \in Readers : IF at'[q] = "outside" THEN held'[q] = NoState
                            ELSE held'[q] \in 0 .. executions
        BY <2>1 DEF TypeOK, LoadState
  <2> QED BY <2>2, <2>3 DEF TypeOK, LoadState
<1>2. \A o : Holders(o)' = Holders(o)
      BY DEF LoadState, Holders, TypeOK
<1> QED BY <1>1, <1>2, SameHolders DEF LoadState

LEMMA RLockKeepsInv == ASSUME Inv, NEW r \in Readers, RLock(r) PROVE Inv'
<1> USE LockAssumption DEF Inv
<1>1. TypeOK'
      BY DEF TypeOK, RLock, Object
<1> SUFFICES ASSUME NEW h, h = held[r] PROVE Inv'
    OBVIOUS
<1>2. h \in Object /\ readerCount[h] \in Nat
      BY DEF TypeOK, RLock, Object
<1>3. \A o : o /= h => Holders(o)' = Holders(o)
      BY DEF RLock, Holders, TypeOK
<1>4. Holders(h)' = Holders(h) \cup {r} /\ r \notin Holders(h)
      BY DEF RLock, Holders, TypeOK
<1>5. Cardinality(Holders(h)') = Cardinality(Holders(h)) + 1
      BY <1>4, HoldersFinite, FS_AddElement
<1>6. readerCount' = [readerCount EXCEPT ![h] = readerCount[h] + 1]
      /\ overwritten' = overwritten /\ crashed' = crashed
      BY DEF RLock
<1>7. /\ readerCount'[h] = readerCount[h] + 1
      /\ \A o \in Object : o /= h => readerCount'[o] = readerCount[o]
      BY <1>2, <1>6 DEF TypeOK
<1>8. SharedObjectKept'
  <2> SUFFICES ASSUME NEW o \in Object \ overwritten
               PROVE  readerCount'[o] = Cardinality(Holders(o)')
      BY <1>6 DEF SharedObjectKept, Object
  <2>1. readerCount[o] = Cardinality(Holders(o))
        BY DEF SharedObjectKept
  <2>2. CASE o = h
        BY <1>5, <1>7, <2>1, <2>2
  <2>3. CASE o /= h
        BY <1>3, <1>7, <2>1, <2>3
  <2> QED BY <2>2, <2>3
<1>9. NoPhantomHolder'
  <2> SUFFICES ASSUME NEW o \in Object
               PROVE  readerCount'[o] <= Cardinality(Holders(o)')
      BY DEF NoPhantomHolder, Object
  <2>1. readerCount[o] <= Cardinality(Holders(o)) /\ readerCount[o] \in Nat
        BY DEF NoPhantomHolder, TypeOK
  <2>2. CASE o = h
    <3>1. Cardinality(Holders(h)) \in Nat
          BY HoldersFinite
    <3>2. Cardinality(Holders(o)') = Cardinality(Holders(h)) + 1
          BY <1>5, <2>2
    <3>3. readerCount'[o] = readerCount[h] + 1
          BY <1>7, <2>2
    <3> QED BY <2>1, <2>2, <3>1, <3>2, <3>3
  <2>3. CASE o /= h
        BY <1>3, <1>7, <2>1, <2>3
  <2> QED BY <2>2, <2>3
<1> QED BY <1>1, <1>6, <1>8, <1>9 DEF AbortNeedsOverwrite

LEMMA RUnlockKeepsInv == ASSUME Inv, NEW r \in Readers, RUnlock(r) PROVE Inv'
<1> USE LockAssumption DEF Inv
<1> SUFFICES ASSUME NEW h, h = held[r],
                    NEW c, c = IF readerCount[h] = 0 THEN 0 ELSE readerCount[h] - 1
             PROVE  Inv'
    OBVIOUS
<1>1. h \in Object /\ readerCount[h] \in Nat /\ c \in Nat
      BY DEF TypeOK, RUnlock, Object
<1>2. /\ readerCount' = [readerCount EXCEPT ![h] = c]
      /\ overwritten' = overwritten
      /\ crashed' = (crashed \/ readerCount[h] = 0)
      BY <1>1 DEF RUnlock, TypeOK
<1>3. TypeOK'
      BY <1>1, <1>2 DEF TypeOK, RUnlock, Object
<1>4. \A o : o /= h => Holders(o)' = Holders(o)
      BY DEF RUnlock, Holders, TypeOK
<1>5. Holders(h)' = Holders(h) \ {r} /\ r \in Holders(h)
      BY DEF RUnlock, Holders, TypeOK
<1>6. Cardinality(Holders(h)') = Cardinality(Holders(h)) - 1
      BY <1>5, HoldersFinite, FS_RemoveElement
<1>7. Cardinality(Holders(h)) \in Nat /\ Cardinality(Holders(h)') \in Nat
      /\ Cardinality(Holders(h)) >= 1
  <2>1. IsFiniteSet(Holders(h)')
        BY <1>5, HoldersFinite, FS_RemoveElement
  <2>2. Cardinality(Holders(h)') \in Nat
        BY <2>1, FS_CardinalityType
  <2> QED BY <1>6, <2>2, HoldersFinite
<1>8. /\ readerCount'[h] = c
      /\ \A o \in Object : o /= h => readerCount'[o] = readerCount[o]
      BY <1>1, <1>2 DEF TypeOK
<1>9. SharedObjectKept'
  <2> SUFFICES ASSUME NEW o \in Object \ overwritten
               PROVE  readerCount'[o] = Cardinality(Holders(o)')
      BY <1>2 DEF SharedObjectKept, Object
  <2>1. readerCount[o] = Cardinality(Holders(o))
        BY DEF SharedObjectKept
  <2>2. CASE o = h
        BY <1>6, <1>7, <1>8, <2>1, <2>2
  <2>3. CASE o /= h
        BY <1>4, <1>8, <2>1, <2>3
  <2> QED BY <2>2, <2>3
<1>10. NoPhantomHolder'
  <2> SUFFICES ASSUME NEW o \in Object
               PROVE  readerCount'[o] <= Cardinality(Holders(o)')
      BY DEF NoPhantomHolder, Object
  <2>1. readerCount[o] <= Cardinality(Holders(o)) /\ readerCount[o] \in Nat
        BY DEF NoPhantomHolder, TypeOK
  <2>2. CASE o = h
        BY <1>6, <1>7, <1>8, <2>1, <2>2
  <2>3. CASE o /= h
        BY <1>4, <1>8, <2>1, <2>3
  <2> QED BY <2>2, <2>3
<1>11. AbortNeedsOverwrite'
  <2> SUFFICES ASSUME readerCount[h] = 0, overwritten = {} PROVE FALSE
      BY <1>2 DEF AbortNeedsOverwrite
  <2>1. readerCount[h] = Cardinality(Holders(h))
        BY <1>1 DEF SharedObjectKept
  <2> QED BY <1>7, <2>1
<1> QED BY <1>3, <1>9, <1>10, <1>11

LEMMA ExecutionKeepsInv == Inv /\ ExecutionStep => Inv'
<1> USE LockAssumption DEF Inv
<1>1. ASSUME Inv, CopyState \/ FinishSequential \/ FinishSpeculation PROVE Inv'
  <2>1. TypeOK'
    <3>1. /\ executions \in 0 .. NumExecutions /\ State \in 0 .. executions
          /\ \A r \in Readers : at[r] /= "outside" => held[r] \in 0 .. executions
          BY <1>1 DEF TypeOK
    <3>2. CASE CopyState
      <4>1. executions' \in 0 .. NumExecutions /\ executions' = executions + 1
            BY <3>1, <3>2 DEF CopyState
      <4>2. State' \in 0 .. executions'
            /\ \A r \in Readers : at[r] /= "outside" => held[r] \in 0 .. executions'
            BY <3>1, <3>2, <4>1 DEF CopyState
      <4> QED BY <1>1, <3>2, <4>1, <4>2 DEF TypeOK, CopyState
    <3>3. CASE FinishSequential \/ FinishSpeculation
      <4>1. State' \in 0 .. executions
            BY <3>1, <3>3 DEF FinishSequential, FinishSpeculation, StorePointer, CopyOfState
      <4> QED BY <1>1, <3>3, <4>1 DEF TypeOK, FinishSequential, FinishSpeculation, StorePointer
    <3> QED BY <1>1, <3>2, <3>3
  <2>2. \A o : Holders(o)' = Holders(o)
        BY <1>1 DEF Holders, CopyState, FinishSequential, FinishSpeculation
  <2>3. readerCount' = readerCount /\ overwritten' = overwritten /\ crashed' = crashed
        BY <1>1 DEF CopyState, FinishSequential, FinishSpeculation, StorePointer
  <2> QED BY <1>1, <2>1, <2>2, <2>3, SameHolders
<1>2. ASSUME Inv, FinishParallel PROVE Inv'
  <2>1. /\ readerCount' = [readerCount EXCEPT ![State] = 0]
        /\ overwritten' = overwritten \cup {State} /\ crashed' = crashed
        /\ State \in Object
        BY <1>2 DEF FinishParallel, LockOfCopy, TypeOK, Object
  <2>2. TypeOK'
    <3>1. readerCount' \in [Object -> Nat] /\ overwritten' \subseteq Object
          BY <1>2, <2>1 DEF TypeOK
    <3> QED BY <1>2, <3>1 DEF TypeOK, FinishParallel
  <2>3. \A o : Holders(o)' = Holders(o)
        BY <1>2 DEF Holders, FinishParallel
  <2>4. \A o \in Object : o /= State => readerCount'[o] = readerCount[o]
        BY <1>2, <2>1 DEF TypeOK
  <2>5. readerCount'[State] = 0
        BY <1>2, <2>1 DEF TypeOK
  <2>6. SharedObjectKept'
        BY <1>2, <2>1, <2>3, <2>4 DEF SharedObjectKept, Object
  <2>7. NoPhantomHolder'
    <3> SUFFICES ASSUME NEW o \in Object
                 PROVE  readerCount'[o] <= Cardinality(Holders(o))
        BY <2>3 DEF NoPhantomHolder, Object
    <3> QED BY <1>2, <2>4, <2>5, HoldersFinite DEF NoPhantomHolder
  <2>8. AbortNeedsOverwrite'
        BY <2>1 DEF AbortNeedsOverwrite
  <2> QED BY <2>2, <2>6, <2>7, <2>8
<1> QED BY <1>1, <1>2 DEF ExecutionStep

LEMMA StepKeepsInv == Inv /\ [Next]_vars => Inv'
<1> SUFFICES ASSUME Inv, [Next]_vars PROVE Inv'
    OBVIOUS
<1>1. CASE ReaderStep
      BY <1>1, LoadStateKeepsInv, RLockKeepsInv, RUnlockKeepsInv DEF ReaderStep
<1>2. CASE ExecutionStep
      BY <1>2, ExecutionKeepsInv
<1>3. CASE UNCHANGED vars
  <2>1. TypeOK'
        BY <1>3 DEF Inv, TypeOK, vars
  <2>2. \A o : Holders(o)' = Holders(o)
        BY <1>3 DEF Holders, vars
  <2> QED BY <1>3, <2>1, <2>2, SameHolders DEF Inv, vars
<1> QED BY <1>1, <1>2, <1>3 DEF Next, Stopped

LEMMA SpecInv == Spec => []Inv
BY InitInv, StepKeepsInv, PTL DEF Spec

(* Sequential execution and speculation never take the lock from under a   *)
(* reader.                                                                 *)
THEOREM SharedObjectIsKept == Spec => []SharedObjectKept
<1>1. Inv => SharedObjectKept
      BY DEF Inv
<1> QED BY SpecInv, <1>1, PTL

(* Every abort is one that `*pe.State = *stateCopy` has caused.            *)
THEOREM AbortsNeedOverwrite == Spec => []AbortNeedsOverwrite
<1>1. Inv => AbortNeedsOverwrite
      BY DEF Inv
<1> QED BY SpecInv, <1>1, PTL

(* A lock that was overwritten is lost, never held by nobody.              *)
THEOREM NoPhantoms == Spec => []NoPhantomHolder
<1>1. Inv => NoPhantomHolder
      BY DEF Inv
<1> QED BY SpecInv, <1>1, PTL
=============================================================================
