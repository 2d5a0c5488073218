----------------------------- MODULE SpinRwLock -----------------------------
(***************************************************************************)
(* SpinRwLock of kernel/src/memory_manager.rs, the lock of every window,   *)
(* under threads that are preempted between any two accesses to count.     *)
(* compare_exchange_weak does not fail spuriously on x86-64, the only      *)
(* target of the build; hlt between two loads changes nothing here.        *)
(***************************************************************************)
EXTENDS Integers, FiniteSets

CONSTANT Thread

ASSUME ThreadAssumption == IsFiniteSet(Thread)

VARIABLES
  count,   \* the atomic: 0, 2n for n readers, 1 for a writer
  pc,      \* where each thread is; "reader" and "writer" hold the lock
  old      \* the local of lock_shared and try_lock_shared

vars == <<count, pc, old>>

At(t, p) == pc[t] = p
Goto(t, p) == pc' = [pc EXCEPT ![t] = p]

readers == {t \in Thread : pc[t] = "reader"}
writers == {t \in Thread : pc[t] = "writer"}

Init ==
  /\ count = 0
  /\ pc = [t \in Thread |-> "out"]
  /\ old = [t \in Thread |-> 0]

-----------------------------------------------------------------------------
Call(t) ==
  /\ At(t, "out")
  /\ \E f \in {"lock_exclusive", "lock_shared", "try_lock_exclusive", "try_lock_shared"} :
       Goto(t, f)
  /\ UNCHANGED <<count, old>>

lock_exclusive_load(t) ==
  /\ At(t, "lock_exclusive")
  /\ count = 0
  /\ Goto(t, "lock_exclusive_cas")
  /\ UNCHANGED <<count, old>>

\* Wrong: the lock is taken on the strength of the load.
lock_exclusive_blind(t) ==
  /\ At(t, "lock_exclusive_cas")
  /\ count' = 1 /\ Goto(t, "writer")
  /\ UNCHANGED old

lock_exclusive_cas(t) ==
  /\ At(t, "lock_exclusive_cas")
  /\ \/ count = 0 /\ count' = 1 /\ Goto(t, "writer")
     \/ count # 0 /\ Goto(t, "lock_exclusive") /\ UNCHANGED count
  /\ UNCHANGED old

try_lock_exclusive(t) ==
  /\ At(t, "try_lock_exclusive")
  /\ \/ count = 0 /\ count' = 1 /\ Goto(t, "writer")
     \/ count # 0 /\ Goto(t, "out") /\ UNCHANGED count
  /\ UNCHANGED old

lock_shared_load(t) ==
  /\ At(t, "lock_shared")
  /\ old' = [old EXCEPT ![t] = count]
  /\ count # 1 /\ Goto(t, "lock_shared_cas")
  /\ UNCHANGED count

lock_shared_cas(t) ==
  /\ At(t, "lock_shared_cas")
  /\ \/ count = old[t] /\ count' = old[t] + 2 /\ Goto(t, "reader")
     \/ count # old[t] /\ Goto(t, "lock_shared") /\ UNCHANGED count
  /\ UNCHANGED old

try_lock_shared_load(t) ==
  /\ At(t, "try_lock_shared")
  /\ old' = [old EXCEPT ![t] = count]
  /\ \/ count # 1 /\ Goto(t, "try_lock_shared_cas")
     \/ count = 1 /\ Goto(t, "out")
  /\ UNCHANGED count

try_lock_shared_cas(t) ==
  /\ At(t, "try_lock_shared_cas")
  /\ \/ count = old[t] /\ count' = old[t] + 2 /\ Goto(t, "reader")
     \/ count # old[t] /\ Goto(t, "out") /\ UNCHANGED count
  /\ UNCHANGED old

unlock_exclusive(t) ==
  /\ At(t, "writer")
  /\ count' = 0
  /\ Goto(t, "out")
  /\ UNCHANGED old

\* Wrong: the last reader leaves the count at 1, as if a writer were inside.
unlock_shared_to_writer(t) ==
  /\ At(t, "reader")
  /\ count' = IF count = 2 THEN 1 ELSE count - 2
  /\ Goto(t, "out")
  /\ UNCHANGED old

unlock_shared(t) ==
  /\ At(t, "reader")
  /\ count' = count - 2
  /\ Goto(t, "out")
  /\ UNCHANGED old

Step(t) ==
  \/ lock_exclusive_load(t) \/ lock_exclusive_cas(t) \/ try_lock_exclusive(t)
  \/ lock_shared_load(t) \/ lock_shared_cas(t)
  \/ try_lock_shared_load(t) \/ try_lock_shared_cas(t)
  \/ unlock_exclusive(t) \/ unlock_shared(t)

Next == \E t \in Thread : Call(t) \/ Step(t)

\* Every thread that has called gets the CPU again and again, and a guard is
\* dropped in the end.
Fairness == \A t \in Thread : WF_vars(Step(t))

Spec == Init /\ [][Next]_vars /\ Fairness

-----------------------------------------------------------------------------
\* The states of a thread are those of the code.
TypeOK ==
  /\ count \in Nat
  /\ pc \in [Thread -> {"out", "lock_exclusive", "lock_exclusive_cas",
                        "try_lock_exclusive", "lock_shared", "lock_shared_cas",
                        "try_lock_shared", "try_lock_shared_cas", "reader", "writer"}]
  /\ old \in [Thread -> Nat]

(* The comment on the field count (lines 72-74) at every moment, calls in   *)
(* progress included: 0 when unlocked, 2n with n readers, 1 with a writer,  *)
(* and never a second holder besides a writer.                              *)
CountEncodes ==
  \/ writers = {} /\ count = 2 * Cardinality(readers)
  \/ readers = {} /\ count = 1 /\ \E t \in Thread : writers = {t}

(* lock_exclusive, lock_shared, the try_ variants and the two unlocks       *)
(* implement a readers-writer lock.                                         *)
ReadersWriterLock == INSTANCE ReadersWriter
ImplementsLock == ReadersWriterLock!Spec

(* The threads in lock_exclusive and lock_shared never wait for each other  *)
(* in vain: when one waits, one gets in. (Which one is not promised: a      *)
(* writer can be passed by readers for ever.)                               *)
Waiting == \E t \in Thread : pc[t] \in {"lock_exclusive", "lock_shared"}
SomeoneGetsIn == Waiting ~> (readers \union writers # {})
=============================================================================
