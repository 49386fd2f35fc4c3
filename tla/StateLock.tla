----------------------------- MODULE StateLock -----------------------------
(***************************************************************************)
(* The RWMutex inside state.State.  GetAccount, called by the generator    *)
(* and by main (validateTransaction), locks the object bc.State points to, *)
(* looks and unlocks, while ExecuteBlock, in a goroutine of its own or in  *)
(* main, puts new accounts there:                                          *)
(*   - sequential execution points bc.State at the copy it worked on;      *)
(*   - ParallelExecutor overwrites the object itself, `*pe.State =         *)
(*     *stateCopy`, RWMutex included.                                      *)
(* ExecutionMutex lets one execution run at a time; readers do not take it. *)
(***************************************************************************)
EXTENDS Integers, FiniteSets

CONSTANTS Readers,        \* goroutines that call GetAccount
          NumExecutions,  \* calls of ExecuteBlock: a bound
          NoState

ASSUME LockAssumption ==
    IsFiniteSet(Readers) /\ NumExecutions \in Nat /\ NoState \notin Nat

VARIABLES
    State,        \* which object bc.State points to
    readerCount,  \* StateMutex of each object: how many hold the read lock
    at, held,     \* where each reader is in GetAccount, and on which object
    executions, executing, \* calls so far, and whether one is under way
    overwritten,  \* objects `*pe.State = *stateCopy` was applied to: history
    crashed

vars == <<State, readerCount, at, held, executions, executing, overwritten, crashed>>

-----------------------------------------------------------------------------
Object == 0 .. NumExecutions

Init ==
    /\ State = 0 /\ readerCount = [o \in Object |-> 0]
    /\ at = [r \in Readers |-> "outside"] /\ held = [r \in Readers |-> NoState]
    /\ executions = 0 /\ executing = FALSE
    /\ overwritten = {} /\ crashed = FALSE

(* GetAccount: its receiver is loaded from bc.State, then locked.          *)
LoadState(r) ==
    /\ at[r] = "outside"
    /\ held' = [held EXCEPT ![r] = State]
    /\ at' = [at EXCEPT ![r] = "loaded"]
    /\ UNCHANGED <<State, readerCount, executions, executing, overwritten, crashed>>

RLock(r) ==
    /\ at[r] = "loaded"
    /\ readerCount' = [readerCount EXCEPT ![held[r]] = @ + 1]
    /\ at' = [at EXCEPT ![r] = "locked"]
    /\ UNCHANGED <<State, held, executions, executing, overwritten, crashed>>

(* The deferred RUnlock: the runtime aborts the process when nobody holds  *)
(* the lock.                                                               *)
RUnlock(r) ==
    /\ at[r] = "locked"
    /\ IF readerCount[held[r]] = 0 THEN crashed' = TRUE /\ UNCHANGED readerCount
       ELSE /\ readerCount' = [readerCount EXCEPT ![held[r]] = @ - 1]
            /\ UNCHANGED crashed
    /\ at' = [at EXCEPT ![r] = "outside"]
    /\ held' = [held EXCEPT ![r] = NoState]
    /\ UNCHANGED <<State, executions, executing, overwritten>>

(* ExecuteBlock takes ExecutionMutex and copies the accounts.  It locks     *)
(* bc.State for that, and has unlocked it again when it stores.            *)
CopyState ==
    /\ ~executing /\ executions < NumExecutions
    /\ executing' = TRUE /\ executions' = executions + 1
    /\ UNCHANGED <<State, readerCount, at, held, overwritten, crashed>>

(* Mutant: the object is overwritten here too.                             *)
StoreInPlace ==
    /\ State' = State
    /\ readerCount' = [readerCount EXCEPT ![State] = 0]

(* The copy made by the execution under way.                               *)
CopyOfState == executions

(* bc.State = stateCopy: a new object, which nobody holds.                 *)
StorePointer ==
    /\ State' = CopyOfState
    /\ UNCHANGED readerCount

FinishSequential ==
    /\ executing /\ executing' = FALSE
    /\ StorePointer
    /\ UNCHANGED <<at, held, executions, overwritten, crashed>>

(* A speculative sequential execution stores no accounts.                  *)
FinishSpeculation ==
    /\ executing /\ executing' = FALSE
    /\ UNCHANGED <<State, readerCount, at, held, executions, overwritten, crashed>>

(* Mutant: the copy is still locked.                                       *)
LockedCopy == 1

LockOfCopy == 0

(* *pe.State = *stateCopy: the lock of the copy, which nobody holds.       *)
FinishParallel ==
    /\ executing /\ executing' = FALSE
    /\ readerCount' = [readerCount EXCEPT ![State] = LockOfCopy]
    /\ overwritten' = overwritten \cup {State}
    /\ UNCHANGED <<State, at, held, executions, crashed>>

ReaderStep == \E r \in Readers : LoadState(r) \/ RLock(r) \/ RUnlock(r)

ExecutionStep ==
    CopyState \/ FinishSequential \/ FinishSpeculation \/ FinishParallel

Stopped == crashed /\ UNCHANGED vars

Next == (~crashed /\ (ReaderStep \/ ExecutionStep)) \/ Stopped

Spec == Init /\ [][Next]_vars

-----------------------------------------------------------------------------
Holders(o) == {r \in Readers : at[r] = "locked" /\ held[r] = o}

TypeOK ==
    /\ State \in 0 .. executions /\ executions \in 0 .. NumExecutions
    /\ readerCount \in [Object -> Nat]
    /\ at \in [Readers -> {"outside", "loaded", "locked"}]
    /\ held \in [Readers -> Object \cup {NoState}]
    /\ \A r \in Readers :
        IF at[r] = "outside" THEN held[r] = NoState ELSE held[r] \in 0 .. executions
    /\ executing \in BOOLEAN /\ crashed \in BOOLEAN /\ overwritten \subseteq Object

(* The lock of an object counts its holders exactly, unless a parallel     *)
(* execution overwrote the object: sequential execution and speculation    *)
(* never take the lock from under a reader.                                *)
SharedObjectKept ==
    \A o \in Object \ overwritten : readerCount[o] = Cardinality(Holders(o))

(* An overwritten lock never counts more holders than there are: it is     *)
(* lost, so that the RUnlock of a reader aborts, never held by nobody.     *)
NoPhantomHolder == \A o \in Object : readerCount[o] <= Cardinality(Holders(o))

(* The process aborts only after an overwrite.                             *)
AbortNeedsOverwrite == crashed => overwritten /= {}
=============================================================================
