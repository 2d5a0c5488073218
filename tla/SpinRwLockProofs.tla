-------------------------- MODULE SpinRwLockProofs --------------------------
(***************************************************************************)
(* For any finite set of threads, the count of SpinRwLock always encodes   *)
(* who holds the lock, and the code implements a readers-writer lock.      *)
(***************************************************************************)
EXTENDS SpinRwLock, FiniteSetTheorems, TLAPS

\* A thread about to exchange has not seen a writer.
OldInv ==
  \A t \in Thread :
    pc[t] \in {"lock_shared_cas", "try_lock_shared_cas"} => old[t] # 1

IInv == TypeOK /\ OldInv /\ CountEncodes

\* The ways in and out of the lock, with what they do to count.
EnterShared(t) ==
  /\ t \notin readers /\ count # 1 /\ count' = count + 2
  /\ readers' = readers \union {t} /\ writers' = writers
LeaveShared(t) ==
  /\ t \in readers /\ count' = count - 2
  /\ readers' = readers \ {t} /\ writers' = writers
EnterExclusive(t) ==
  /\ count = 0 /\ count' = 1
  /\ readers' = readers /\ writers' = writers \union {t}
LeaveExclusive(t) ==
  /\ t \in writers /\ count' = 0
  /\ readers' = readers /\ writers' = writers \ {t}
Outside == count' = count /\ readers' = readers /\ writers' = writers

-----------------------------------------------------------------------------
(* The numbers of readers before and after one enters or leaves.            *)
LEMMA ReaderCount ==
  /\ IsFiniteSet(readers)
  /\ Cardinality(readers) \in Nat
  /\ \A t : t \notin readers =>
       Cardinality(readers \union {t}) = Cardinality(readers) + 1
  /\ \A t \in readers :
       Cardinality(readers) > 0
       /\ Cardinality(readers \ {t}) = Cardinality(readers) - 1
  /\ Cardinality(readers) = 0 <=> readers = {}
<1>1. readers \subseteq Thread
  BY Zenon DEF readers
<1>2. IsFiniteSet(readers)
  BY <1>1, ThreadAssumption, FS_Subset, Zenon
<1>3. Cardinality(readers) \in Nat
  BY <1>2, FS_CardinalityType, Zenon
<1>4. \A t : t \notin readers =>
        Cardinality(readers \union {t}) = Cardinality(readers) + 1
  BY <1>2, FS_AddElement, Zenon
<1>5. Cardinality(readers) = 0 <=> readers = {}
  BY <1>2, FS_EmptySet, Zenon
<1>6. \A t \in readers : Cardinality(readers \ {t}) = Cardinality(readers) - 1
  BY <1>2, FS_RemoveElement, Zenon
<1>7. \A t \in readers : Cardinality(readers) > 0
  <2>1. Cardinality(readers) > 0 \/ readers = {}
    BY <1>3, <1>5
  <2> QED BY <2>1, Zenon
<1> QED BY <1>2, <1>3, <1>4, <1>5, <1>6, <1>7, Zenon

(* Each step of lock_exclusive, lock_shared, their try_ variants and the    *)
(* unlocks is one of the five ways to move.                                 *)
LEMMA Moves ==
  ASSUME TypeOK, OldInv, NEW t \in Thread, Call(t) \/ Step(t)
  PROVE  \/ EnterShared(t) \/ LeaveShared(t)
         \/ EnterExclusive(t) \/ LeaveExclusive(t) \/ Outside
<1> USE DEF TypeOK, readers, writers, At, Goto
<1>1. CASE Call(t)
  BY <1>1, Zenon DEF Call, Outside
<1>2. CASE lock_exclusive_load(t)
  BY <1>2, Zenon DEF lock_exclusive_load, Outside
<1>3. CASE lock_exclusive_cas(t)
  BY <1>3, Zenon DEF lock_exclusive_cas, EnterExclusive, Outside
<1>4. CASE try_lock_exclusive(t)
  BY <1>4, Zenon DEF try_lock_exclusive, EnterExclusive, Outside
<1>5. CASE lock_shared_load(t)
  BY <1>5, Zenon DEF lock_shared_load, Outside
<1>6. CASE lock_shared_cas(t)
  BY <1>6, Zenon DEF lock_shared_cas, OldInv, EnterShared, Outside
<1>7. CASE try_lock_shared_load(t)
  BY <1>7, Zenon DEF try_lock_shared_load, Outside
<1>8. CASE try_lock_shared_cas(t)
  BY <1>8, Zenon DEF try_lock_shared_cas, OldInv, EnterShared, Outside
<1>9. CASE unlock_exclusive(t)
  BY <1>9, Zenon DEF unlock_exclusive, LeaveExclusive
<1>10. CASE unlock_shared(t)
  BY <1>10, Zenon DEF unlock_shared, LeaveShared
<1> QED
  BY <1>1, <1>2, <1>3, <1>4, <1>5, <1>6, <1>7, <1>8, <1>9, <1>10, Zenon DEF Step

(* Every way to move keeps the encoding of the holders in count.            *)
LEMMA EncodingStep ==
  ASSUME CountEncodes, NEW t \in Thread,
         \/ EnterShared(t) \/ LeaveShared(t)
         \/ EnterExclusive(t) \/ LeaveExclusive(t) \/ Outside
  PROVE  CountEncodes'
<1>1. CASE EnterShared(t)
  <2>1. writers = {} /\ count = 2 * Cardinality(readers)
    BY <1>1, Zenon DEF CountEncodes, EnterShared
  <2>2. Cardinality(readers') = Cardinality(readers) + 1
    BY <1>1, ReaderCount, Zenon DEF EnterShared
  <2>3. count' = 2 * Cardinality(readers')
    BY <1>1, <2>1, <2>2, ReaderCount DEF EnterShared
  <2> QED BY <1>1, <2>1, <2>3, Zenon DEF EnterShared, CountEncodes
<1>2. CASE LeaveShared(t)
  <2>1. writers = {} /\ count = 2 * Cardinality(readers)
    BY <1>2, Zenon DEF CountEncodes, LeaveShared
  <2>2. Cardinality(readers') = Cardinality(readers) - 1
    BY <1>2, ReaderCount, Zenon DEF LeaveShared
  <2>3. count' = 2 * Cardinality(readers')
    BY <1>2, <2>1, <2>2, ReaderCount DEF LeaveShared
  <2> QED BY <1>2, <2>1, <2>3, Zenon DEF LeaveShared, CountEncodes
<1>3. CASE EnterExclusive(t)
  <2>1. writers = {} /\ Cardinality(readers) = 0
    BY <1>3, ReaderCount DEF CountEncodes, EnterExclusive
  <2>2. readers = {}
    BY <2>1, ReaderCount, Zenon
  <2>3. readers' = {} /\ count' = 1 /\ writers' = {t}
    BY <1>3, <2>1, <2>2, Zenon DEF EnterExclusive
  <2> QED BY <2>3, Zenon DEF CountEncodes
<1>4. CASE LeaveExclusive(t)
  <2>1. readers = {} /\ \E u \in Thread : writers = {u}
    BY <1>4, Zenon DEF CountEncodes, LeaveExclusive
  <2>2. writers' = {} /\ readers' = {} /\ count' = 0
    BY <1>4, <2>1, Zenon DEF LeaveExclusive
  <2>3. Cardinality(readers') = 0
    BY <2>2, FS_EmptySet, Zenon
  <2> QED BY <2>2, <2>3 DEF CountEncodes
<1>5. CASE Outside
  BY <1>5, Zenon DEF Outside, CountEncodes
<1> QED BY <1>1, <1>2, <1>3, <1>4, <1>5, Zenon

-----------------------------------------------------------------------------
LEMMA InitInv == Init => IInv
<1> SUFFICES ASSUME Init PROVE IInv
  BY Zenon
<1>1. TypeOK /\ OldInv
  BY Zenon DEF Init, TypeOK, OldInv
<1>2. readers = {} /\ writers = {}
  BY Zenon DEF Init, readers, writers
<1>3. Cardinality(readers) = 0
  BY <1>2, FS_EmptySet, Zenon
<1> QED BY <1>1, <1>2, <1>3 DEF Init, IInv, CountEncodes

LEMMA StepInv == IInv /\ [Next]_vars => IInv'
<1> SUFFICES ASSUME IInv, [Next]_vars PROVE IInv'
  BY Zenon
<1>1. CASE UNCHANGED vars
  BY <1>1, Zenon DEF vars, IInv, TypeOK, OldInv, CountEncodes, readers, writers
<1>2. ASSUME NEW t \in Thread, Call(t) \/ Step(t) PROVE IInv'
  <2>1. CountEncodes'
    BY <1>2, Moves, EncodingStep, Zenon DEF IInv
  <2>2. count' \in Nat
    <3>1. count \in Nat /\ (t \in readers => count >= 2)
      BY ReaderCount DEF IInv, TypeOK, CountEncodes
    <3>2. \/ EnterShared(t) \/ LeaveShared(t)
          \/ EnterExclusive(t) \/ LeaveExclusive(t) \/ Outside
      BY <1>2, Moves, Zenon DEF IInv
    <3> QED
      BY <3>1, <3>2 DEF EnterShared, LeaveShared, EnterExclusive, LeaveExclusive, Outside
  <2>3. TypeOK' /\ OldInv'
    <3> USE <2>2 DEF IInv, TypeOK, OldInv, At, Goto
    <3>1. CASE Call(t)
      BY <3>1, Zenon DEF Call
    <3>2. CASE lock_exclusive_load(t) \/ lock_exclusive_cas(t) \/ try_lock_exclusive(t)
      BY <3>2, Zenon DEF lock_exclusive_load, lock_exclusive_cas, try_lock_exclusive
    <3>3. CASE lock_shared_load(t)
      BY <3>3, Zenon DEF lock_shared_load
    <3>4. CASE lock_shared_cas(t)
      BY <3>4, Zenon DEF lock_shared_cas
    <3>5. CASE try_lock_shared_load(t)
      BY <3>5, Zenon DEF try_lock_shared_load
    <3>6. CASE try_lock_shared_cas(t)
      BY <3>6, Zenon DEF try_lock_shared_cas
    <3>7. CASE unlock_exclusive(t) \/ unlock_shared(t)
      BY <3>7, Zenon DEF unlock_exclusive, unlock_shared
    <3> QED
      BY <1>2, <3>1, <3>2, <3>3, <3>4, <3>5, <3>6, <3>7, Zenon DEF Step
  <2> QED BY <2>1, <2>3, Zenon DEF IInv
<1> QED BY <1>1, <1>2, Zenon DEF Next

(* At every moment count is 0, twice the number of readers, or 1 for a      *)
(* single writer, whatever the interleaving and the number of threads.      *)
THEOREM Encoding == Spec => []CountEncodes
<1>1. Spec => []IInv
  BY InitInv, StepInv, PTL DEF Spec
<1> QED BY <1>1, PTL DEF IInv

(* The code of SpinRwLock implements a readers-writer lock.                 *)
THEOREM LockRefinement == Spec => ImplementsLock
<1>1. Init => ReadersWriterLock!Init
  BY Zenon DEF Init, ReadersWriterLock!Init, readers, writers
<1>2. IInv /\ [Next]_vars => [ReadersWriterLock!Next]_(ReadersWriterLock!vars)
  <2> SUFFICES ASSUME IInv, [Next]_vars
               PROVE  [ReadersWriterLock!Next]_(ReadersWriterLock!vars)
    BY Zenon
  <2> USE DEF ReadersWriterLock!vars, ReadersWriterLock!Next
  <2>1. CASE UNCHANGED vars
    BY <2>1, Zenon DEF vars, readers, writers
  <2>2. ASSUME NEW t \in Thread, Call(t) \/ Step(t)
        PROVE  [ReadersWriterLock!Next]_(ReadersWriterLock!vars)
    <3>1. CASE EnterShared(t)
      BY <3>1, Zenon DEF EnterShared, IInv, CountEncodes, ReadersWriterLock!Read
    <3>2. CASE LeaveShared(t)
      <4>1. writers = {}
        BY <3>2, Zenon DEF LeaveShared, IInv, CountEncodes
      <4> QED BY <3>2, <4>1, Zenon DEF LeaveShared, ReadersWriterLock!Leave
    <3>3. CASE EnterExclusive(t)
      <4>1. writers = {} /\ Cardinality(readers) = 0
        BY <3>3, ReaderCount DEF EnterExclusive, IInv, CountEncodes
      <4>2. readers = {}
        BY <4>1, ReaderCount, Zenon
      <4> QED BY <3>3, <4>1, <4>2, Zenon DEF EnterExclusive, ReadersWriterLock!Write
    <3>4. CASE LeaveExclusive(t)
      <4>1. readers = {}
        BY <3>4, Zenon DEF LeaveExclusive, IInv, CountEncodes
      <4> QED BY <3>4, <4>1, Zenon DEF LeaveExclusive, ReadersWriterLock!Leave
    <3>5. CASE Outside
      BY <3>5, Zenon DEF Outside
    <3> QED BY <2>2, <3>1, <3>2, <3>3, <3>4, <3>5, Moves, Zenon DEF IInv
  <2> QED BY <2>1, <2>2, Zenon DEF Next
<1>3. Spec => []IInv
  BY InitInv, StepInv, PTL DEF Spec
<1> QED
  BY <1>1, <1>2, <1>3, PTL DEF Spec, ImplementsLock, ReadersWriterLock!Spec
=============================================================================
