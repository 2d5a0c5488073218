-------------------------- MODULE EventLoopProofs --------------------------
(***************************************************************************)
(* Proofs about the event loop, for any number of periodic timers, any     *)
(* periods, and any queue and heap with room for one entry per timer and   *)
(* one more: no handler ever spins on a lock, no message is ever dropped,  *)
(* no timer is lost, no timer push allocates, and no event is stranded.    *)
(***************************************************************************)
EXTENDS EventLoop, FiniteSetTheorems, TLAPS

\* Where main runs with the interrupt flag clear.
Masked == {"drawing", "reading", "adding", "check", "sti", "pop"}

(* Locks follow the interrupt flag: main holds TIMER and EVENTS only where *)
(* it has cleared the flag, and there it is the running task and no        *)
(* handler is active.                                                      *)
LockInv ==
  /\ tmLock = "main" <=> pc \in {"drawing", "reading", "adding"}
  /\ evLock = "main" <=> pc = "check"
  /\ tmLock = "irq" <=> hpc = "expire"
  /\ pc \in Masked => ~iflag /\ hpc = "idle" /\ running = "main"
  /\ hpc # "idle" => ~iflag

(* What main holds where: a timer value while it arms one, the popped      *)
(* message until it is dispatched, Xhci while it reads the event ring, and *)
(* nothing at the top of the loop.                                         *)
MsgInv ==
  /\ pc \in {"read", "reading", "add", "adding"} => msg \in Values
  /\ pc \in {"draw", "drawing", "dispatch"} => msg \in Msgs
  /\ pc \in {"drain", "erdp"} => msg = Xhci
  /\ pc \in {"loop", "check", "sti", "hlt", "halted", "pop"} => msg = NoMsg
  /\ boot => pc \in {"read", "reading", "add", "adding"}
  /\ pc = "pop" => events # <<>>

\* No value occurs twice in the heap, no message twice in the queue.
Distinct ==
  /\ \A t, u \in timers : t.value = u.value => t = u
  /\ \A i, j \in 1 .. Len(events) : events[i] = events[j] => i = j

(* The Xhci message, from the interrupt to the end of main's reading of    *)
(* the event ring, is in at most one place, and in one exactly when Event  *)
(* Handler Busy is set.                                                    *)
XhciInv ==
  /\ ring > 0 => ehb
  /\ ehb <=> (irqX \/ hpc = "xhci" \/ Queued(Xhci) \/ msg = Xhci)
  /\ irqX => hpc # "xhci" /\ ~Queued(Xhci) /\ msg # Xhci
  /\ hpc = "xhci" => ~Queued(Xhci) /\ msg # Xhci
  /\ Queued(Xhci) => msg # Xhci

\* The conservation of timer v, spelled out.
OnePlace(v) ==
  /\ Armed(v) \/ Queued(v) \/ msg = v \/ (boot /\ v > msg)
  /\ Armed(v) => ~Queued(v) /\ msg # v /\ ~(boot /\ v > msg)
  /\ Queued(v) => msg # v /\ ~(boot /\ v > msg)

TimerInv == (\A v \in Values : OnePlace(v)) /\ Armed(TASK_TIMER_VALUE)

RingInv == ring + unacked <= RingLen

IInv == TypeOK /\ LockInv /\ MsgInv /\ Distinct /\ XhciInv /\ TimerInv /\ RingInv

-----------------------------------------------------------------------------
(* What pushing to EVENTS does to the set of queued messages, when there   *)
(* is room and the message is not queued yet.                              *)
LEMMA QueuePush ==
  ASSUME NEW m \in Msgs, events \in Seq(Msgs), push(m), Len(events) < QueueLen, ~Queued(m),
         \A i, j \in 1 .. Len(events) : events[i] = events[j] => i = j
  PROVE  /\ events' \in Seq(Msgs)
         /\ \A x : Queued(x)' <=> Queued(x) \/ x = m
         /\ \A i, j \in 1 .. Len(events') : events'[i] = events'[j] => i = j
<1>1. /\ events' \in Seq(Msgs) /\ Len(events') = Len(events) + 1
      /\ \A i \in 1 .. Len(events) : events'[i] = events[i]
      /\ events'[Len(events) + 1] = m
  BY QueueAssumption DEF push
<1>2. Len(events) \in Nat
  OBVIOUS
<1>3. ASSUME NEW x PROVE Queued(x)' <=> Queued(x) \/ x = m
  BY <1>1, <1>2 DEF Queued
<1>4. ASSUME NEW i \in 1 .. Len(events'), NEW j \in 1 .. Len(events'), events'[i] = events'[j]
      PROVE  i = j
  BY <1>1, <1>2, <1>4 DEF Queued
<1>. QED  BY <1>1, <1>3, <1>4, Zenon

(* Popping the oldest message removes it, and only it.                     *)
LEMMA QueuePop ==
  ASSUME events \in Seq(Msgs), events # <<>>, events' = Tail(events),
         \A i, j \in 1 .. Len(events) : events[i] = events[j] => i = j
  PROVE  /\ events' \in Seq(Msgs)
         /\ Head(events) \in Msgs
         /\ Queued(Head(events))
         /\ \A x : Queued(x)' <=> Queued(x) /\ x # Head(events)
         /\ \A i, j \in 1 .. Len(events') : events'[i] = events'[j] => i = j
<1>1. /\ events' \in Seq(Msgs) /\ Len(events') = Len(events) - 1 /\ Len(events) \in Nat \ {0}
      /\ \A i \in 1 .. Len(events) - 1 : events'[i] = events[i + 1]
      /\ Head(events) = events[1] /\ Head(events) \in Msgs
  OBVIOUS
<1>2. Queued(Head(events))
  BY <1>1 DEF Queued
<1>3. ASSUME NEW x PROVE Queued(x)' <=> Queued(x) /\ x # Head(events)
  <2>1. ASSUME Queued(x)' PROVE Queued(x) /\ x # Head(events)
    <3>1. PICK i \in 1 .. Len(events) - 1 : events'[i] = x
      BY <1>1, <2>1, Zenon DEF Queued
    <3>2. i + 1 \in 1 .. Len(events) /\ 1 \in 1 .. Len(events) /\ i + 1 # 1 /\ events[i + 1] = x
      BY <1>1, <3>1
    <3>. QED  BY <1>1, <3>2, Zenon DEF Queued
  <2>2. ASSUME Queued(x), x # Head(events) PROVE Queued(x)'
    <3>1. PICK i \in 1 .. Len(events) : events[i] = x
      BY <2>2, Zenon DEF Queued
    <3>2. i - 1 \in 1 .. Len(events') /\ events'[i - 1] = x
      BY <1>1, <2>2, <3>1
    <3>. QED  BY <3>2, Zenon DEF Queued
  <2>. QED  BY <2>1, <2>2, Zenon
<1>4. ASSUME NEW i \in 1 .. Len(events'), NEW j \in 1 .. Len(events'), events'[i] = events'[j]
      PROVE  i = j
  BY <1>1, <1>4
<1>. QED  BY <1>1, <1>2, <1>3, <1>4, Zenon

(* A queue without duplicates that misses a message has room for it.       *)
LEMMA QueueRoom ==
  ASSUME NEW m \in Msgs, events \in Seq(Msgs), ~Queued(m),
         \A i, j \in 1 .. Len(events) : events[i] = events[j] => i = j
  PROVE  Len(events) < QueueLen
<1>1. IsFiniteSet(Msgs) /\ Cardinality(Msgs) = NTimers + 1
  <2>1. NTimers \in Nat
    BY PeriodAssumption DEF NTimers
  <2>2. IsFiniteSet(Values) /\ Cardinality(Values) = NTimers
    BY <2>1, FS_Interval DEF Values
  <2>3. Xhci \notin Values
    BY MsgAssumption DEF Values
  <2>. QED  BY <2>2, <2>3, FS_AddElement, Zenon DEF Msgs
<1>2. IsFiniteSet(Msgs \ {m}) /\ Cardinality(Msgs \ {m}) = NTimers
  <2>1. /\ IsFiniteSet(Msgs \ {m})
        /\ Cardinality(Msgs \ {m}) = Cardinality(Msgs) - 1
    BY <1>1, FS_RemoveElement, Zenon
  <2>. QED  BY <1>1, <2>1, PeriodAssumption DEF NTimers
<1>3. events \in Injection(1 .. Len(events), Msgs \ {m})
  <2>1. events \in [1 .. Len(events) -> Msgs \ {m}]
    BY DEF Queued
  <2>2. IsInjective(events)
    BY DEF IsInjective
  <2>. QED  BY <2>1, <2>2, Zenon DEF Injection
<1>4. Cardinality(1 .. Len(events)) <= NTimers
  BY <1>2, <1>3, FS_Injection, Zenon
<1>5. Cardinality(1 .. Len(events)) = Len(events)
  BY FS_Interval
<1>. QED  BY <1>4, <1>5, QueueAssumption, PeriodAssumption DEF NTimers

(* A heap without duplicate values that misses timer v has room for it.    *)
LEMMA HeapRoom ==
  ASSUME NEW v \in Values, timers \in SUBSET Timer, ~Armed(v),
         \A t, u \in timers : t.value = u.value => t = u
  PROVE  Cardinality(timers) < HeapCap
<1>. DEFINE S == (0 .. NTimers) \ {v}
            f == [t \in timers |-> t.value]
<1>0. NTimers \in Nat
  BY PeriodAssumption DEF NTimers
<1>1. IsFiniteSet(S) /\ Cardinality(S) = NTimers
  <2>1. IsFiniteSet(0 .. NTimers) /\ Cardinality(0 .. NTimers) = NTimers + 1
    BY <1>0, FS_Interval
  <2>2. v \in 0 .. NTimers
    BY <1>0 DEF Values
  <2>3. IsFiniteSet(S) /\ Cardinality(S) = Cardinality(0 .. NTimers) - 1
    BY <2>1, <2>2, FS_RemoveElement, Zenon
  <2>. QED  BY <1>0, <2>1, <2>3
<1>2. f \in Injection(timers, S)
  <2>1. \A t \in timers : t.value \in S
    BY <1>0 DEF Timer, Values, TASK_TIMER_VALUE, Armed
  <2>2. f \in [timers -> S]
    BY <2>1, Zenon
  <2>3. IsInjective(f)
    BY Zenon DEF IsInjective
  <2>. QED  BY <2>2, <2>3, Zenon DEF Injection
<1>3. Cardinality(timers) \in Nat /\ Cardinality(timers) <= NTimers
  BY <1>1, <1>2, FS_Injection, FS_CardinalityType
<1>. QED  BY <1>0, <1>3, HeapAssumption

-----------------------------------------------------------------------------
(* A step that touches neither EVENTS nor the heap keeps what is in them.  *)
LEMMA Untouched ==
  ASSUME IInv, UNCHANGED <<events, timers>>
  PROVE  /\ events' \in Seq(Msgs) /\ timers' \in SUBSET Timer
         /\ Distinct'
         /\ \A x : Queued(x)' <=> Queued(x)
         /\ \A x : Armed(x)' <=> Armed(x)
BY Zenon DEF IInv, TypeOK, Distinct, Queued, Armed

LEMMA InitIInv == Init => IInv
<1>. SUFFICES ASSUME Init PROVE IInv
  BY Zenon
<1>. USE PeriodAssumption, TaskPeriodAssumption, RingAssumption, MsgAssumption, AgeAssumption DEF Init
<1>0. NTimers \in Nat /\ 1 \in Values
  BY DEF NTimers, Values
<1>t. timers \in SUBSET Timer
  BY DEF Timer, TASK_TIMER_VALUE
<1>s. events \in Seq(Msgs)
  OBVIOUS
<1>i. ring \in 0 .. RingLen /\ unacked \in 0 .. RingLen /\ age \in 0 .. MaxAge
  OBVIOUS
<1>1. TypeOK
  BY <1>0, <1>t, <1>s, <1>i, Zenon DEF TypeOK, PCs, Msgs
<1>2. LockInv
  BY Zenon DEF LockInv, Masked
<1>3. MsgInv
  BY <1>0, Zenon DEF MsgInv
<1>4. Distinct
  BY DEF Distinct
<1>5. \A x : ~Queued(x)
  BY DEF Queued
<1>6. XhciInv
  BY <1>0, <1>5 DEF XhciInv, Values
<1>7. TimerInv
  BY <1>0, <1>5 DEF TimerInv, OnePlace, Armed, Values, TASK_TIMER_VALUE
<1>8. RingInv
  BY DEF RingInv
<1>. QED  BY <1>1, <1>2, <1>3, <1>4, <1>6, <1>7, <1>8, Zenon DEF IInv

(* One step per action that touches neither EVENTS nor the heap.            *)
LEMMA QuietSteps ==
  ASSUME IInv, UNCHANGED <<events, timers>>
  PROVE  \/ LapicTimer \/ XhcPost \/ TakeTimer \/ TakeXhci \/ lapic_interrupt_handler
         \/ lock_timer("draw", "drawing") \/ get_current_tick("drawing", "dispatch")
         \/ lock_timer("read", "reading") \/ get_current_tick("reading", "add")
         \/ lock_timer("add", "adding")
         \/ loop \/ check \/ sti \/ hlt \/ dispatch \/ drain \/ erdp
         => IInv'
<1>u. /\ events' \in Seq(Msgs) /\ timers' \in SUBSET Timer
      /\ Distinct'
      /\ \A x : Queued(x)' <=> Queued(x)
      /\ \A x : Armed(x)' <=> Armed(x)
  BY Untouched, Zenon
<1>i. TypeOK /\ LockInv /\ MsgInv /\ XhciInv /\ TimerInv /\ RingInv
  BY Zenon DEF IInv
<1>1. ASSUME LapicTimer PROVE IInv'
  <2>. USE <1>1 DEF LapicTimer, cpu, main, locks, xhc
  <2>1. TypeOK'
    <3>1. age' \in 0 .. MaxAge /\ ring' \in 0 .. RingLen /\ unacked' \in 0 .. RingLen
      BY <1>i, RingAssumption, AgeAssumption, Zenon DEF TypeOK, RingInv
    <3>. QED  BY <1>u, <1>i, <3>1 DEF TypeOK, PCs
  <2>2. LockInv'
    BY <1>i, Zenon DEF TypeOK, LockInv, Masked
  <2>3. MsgInv'
    BY <1>i, Zenon DEF MsgInv, LockInv, Masked, Msgs
  <2>4. XhciInv'
    BY <1>u, <1>i, MsgAssumption, Zenon DEF TypeOK, XhciInv, MsgInv
  <2>5. TimerInv'
    BY <1>u, <1>i, MsgAssumption, Zenon DEF TimerInv, OnePlace, MsgInv, Values
  <2>6. RingInv'
    BY <1>i, RingAssumption, Zenon DEF TypeOK, RingInv
  <2>. QED  BY <1>u, <2>1, <2>2, <2>3, <2>4, <2>5, <2>6, Zenon DEF IInv
<1>2. ASSUME XhcPost PROVE IInv'
  <2>. USE <1>2 DEF XhcPost, cpu, main, locks
  <2>1. TypeOK'
    <3>1. age' \in 0 .. MaxAge /\ ring' \in 0 .. RingLen /\ unacked' \in 0 .. RingLen
      BY <1>i, RingAssumption, AgeAssumption DEF TypeOK, RingInv
    <3>2. iflag' \in BOOLEAN /\ switch' \in BOOLEAN /\ boot' \in BOOLEAN
      BY <1>i, Zenon DEF TypeOK
    <3>3. running' \in {"main", "taskB"} /\ hpc' \in {"idle", "xhci", "tick", "expire"} /\ pc' \in PCs
      BY <1>i, Zenon DEF TypeOK
    <3>4. /\ msg' \in Msgs \cup {NoMsg}
          /\ evLock' \in {"free", "main"} /\ tmLock' \in {"free", "main", "irq"}
      BY <1>i, Zenon DEF TypeOK
    <3>5. irqT' \in BOOLEAN /\ irqX' \in BOOLEAN /\ ehb' \in BOOLEAN
      BY <1>i, Zenon DEF TypeOK
    <3>. QED  BY ONLY <1>u, <3>1, <3>2, <3>3, <3>4, <3>5, Zenon DEF TypeOK
  <2>2. LockInv'
    BY <1>i, Zenon DEF TypeOK, LockInv, Masked
  <2>3. MsgInv'
    BY <1>i, Zenon DEF MsgInv, LockInv, Masked, Msgs
  <2>4. XhciInv'
    BY <1>u, <1>i, MsgAssumption, Zenon DEF TypeOK, XhciInv, MsgInv
  <2>5. TimerInv'
    BY <1>u, <1>i, MsgAssumption, Zenon DEF TimerInv, OnePlace, MsgInv, Values
  <2>6. RingInv'
    BY <1>i, RingAssumption DEF TypeOK, RingInv
  <2>. QED  BY <1>u, <2>1, <2>2, <2>3, <2>4, <2>5, <2>6, Zenon DEF IInv
<1>3. ASSUME TakeTimer PROVE IInv'
  <2>. USE <1>3 DEF TakeTimer, Take, locks, xhc
  <2>1. TypeOK'
    <3>1. age' \in 0 .. MaxAge /\ ring' \in 0 .. RingLen /\ unacked' \in 0 .. RingLen
      BY <1>i, RingAssumption, AgeAssumption, Zenon DEF TypeOK, RingInv
    <3>. QED  BY <1>u, <1>i, <3>1, Zenon DEF TypeOK, PCs
  <2>2. LockInv'
    BY <1>i, Zenon DEF TypeOK, LockInv, Masked
  <2>3. MsgInv'
    BY <1>i, Zenon DEF MsgInv, LockInv, Masked, Msgs
  <2>4. XhciInv'
    BY <1>u, <1>i, MsgAssumption, Zenon DEF TypeOK, XhciInv, MsgInv
  <2>5. TimerInv'
    BY <1>u, <1>i, MsgAssumption, Zenon DEF TimerInv, OnePlace, MsgInv, Values
  <2>6. RingInv'
    BY <1>i, RingAssumption, Zenon DEF TypeOK, RingInv
  <2>. QED  BY <1>u, <2>1, <2>2, <2>3, <2>4, <2>5, <2>6, Zenon DEF IInv
<1>4. ASSUME TakeXhci PROVE IInv'
  <2>. USE <1>4 DEF TakeXhci, Take, locks, xhc
  <2>1. TypeOK'
    <3>1. age' \in 0 .. MaxAge /\ ring' \in 0 .. RingLen /\ unacked' \in 0 .. RingLen
      BY <1>i, RingAssumption, AgeAssumption, Zenon DEF TypeOK, RingInv
    <3>. QED  BY <1>u, <1>i, <3>1, Zenon DEF TypeOK, PCs
  <2>2. LockInv'
    BY <1>i, Zenon DEF TypeOK, LockInv, Masked
  <2>3. MsgInv'
    BY <1>i, Zenon DEF MsgInv, LockInv, Masked, Msgs
  <2>4. XhciInv'
    BY <1>u, <1>i, MsgAssumption, Zenon DEF TypeOK, XhciInv, MsgInv
  <2>5. TimerInv'
    BY <1>u, <1>i, MsgAssumption, Zenon DEF TimerInv, OnePlace, MsgInv, Values
  <2>6. RingInv'
    BY <1>i, RingAssumption, Zenon DEF TypeOK, RingInv
  <2>. QED  BY <1>u, <2>1, <2>2, <2>3, <2>4, <2>5, <2>6, Zenon DEF IInv
<1>5. ASSUME lapic_interrupt_handler PROVE IInv'
  <2>. USE <1>5 DEF lapic_interrupt_handler, main, xhc
  <2>1. TypeOK'
    <3>1. age' \in 0 .. MaxAge /\ ring' \in 0 .. RingLen /\ unacked' \in 0 .. RingLen
      BY <1>i, RingAssumption, AgeAssumption, Zenon DEF TypeOK, RingInv
    <3>2. iflag' \in BOOLEAN /\ switch' \in BOOLEAN /\ boot' \in BOOLEAN
      BY <1>i, Zenon DEF TypeOK
    <3>3. running' \in {"main", "taskB"} /\ hpc' \in {"idle", "xhci", "tick", "expire"} /\ pc' \in PCs
      BY <1>i, Zenon DEF TypeOK
    <3>4. /\ msg' \in Msgs \cup {NoMsg}
          /\ evLock' \in {"free", "main"} /\ tmLock' \in {"free", "main", "irq"}
      BY <1>i, Zenon DEF TypeOK
    <3>5. irqT' \in BOOLEAN /\ irqX' \in BOOLEAN /\ ehb' \in BOOLEAN
      BY <1>i, Zenon DEF TypeOK
    <3>. QED  BY ONLY <1>u, <3>1, <3>2, <3>3, <3>4, <3>5, Zenon DEF TypeOK
  <2>2. LockInv'
    BY <1>i, Zenon DEF TypeOK, LockInv, Masked
  <2>3. MsgInv'
    BY <1>i, Zenon DEF MsgInv, LockInv, Masked, Msgs
  <2>4. XhciInv'
    BY <1>u, <1>i, MsgAssumption, Zenon DEF TypeOK, XhciInv, MsgInv
  <2>5. TimerInv'
    BY <1>u, <1>i, MsgAssumption, Zenon DEF TimerInv, OnePlace, MsgInv, Values
  <2>6. RingInv'
    BY <1>i, RingAssumption, Zenon DEF TypeOK, RingInv
  <2>. QED  BY <1>u, <2>1, <2>2, <2>3, <2>4, <2>5, <2>6, Zenon DEF IInv
<1>6. ASSUME lock_timer("draw", "drawing") PROVE IInv'
  <2>. USE <1>6 DEF lock_timer, without_interrupts, Goto, At, xhc
  <2>1. TypeOK'
    <3>1. age' \in 0 .. MaxAge /\ ring' \in 0 .. RingLen /\ unacked' \in 0 .. RingLen
      BY <1>i, RingAssumption, AgeAssumption, Zenon DEF TypeOK, RingInv
    <3>. QED  BY <1>u, <1>i, <3>1, Zenon DEF TypeOK, PCs
  <2>2. LockInv'
    BY <1>i, Zenon DEF TypeOK, LockInv, Masked
  <2>3. MsgInv'
    BY <1>i, Zenon DEF MsgInv, LockInv, Masked, Msgs
  <2>4. XhciInv'
    BY <1>u, <1>i, MsgAssumption, Zenon DEF TypeOK, XhciInv, MsgInv
  <2>5. TimerInv'
    BY <1>u, <1>i, MsgAssumption, Zenon DEF TimerInv, OnePlace, MsgInv, Values
  <2>6. RingInv'
    BY <1>i, RingAssumption, Zenon DEF TypeOK, RingInv
  <2>. QED  BY <1>u, <2>1, <2>2, <2>3, <2>4, <2>5, <2>6, Zenon DEF IInv
<1>7. ASSUME get_current_tick("drawing", "dispatch") PROVE IInv'
  <2>. USE <1>7 DEF get_current_tick, Goto, At, xhc
  <2>1. TypeOK'
    <3>1. age' \in 0 .. MaxAge /\ ring' \in 0 .. RingLen /\ unacked' \in 0 .. RingLen
      BY <1>i, RingAssumption, AgeAssumption DEF TypeOK, RingInv
    <3>. QED  BY <1>u, <1>i, <3>1, Zenon DEF TypeOK, PCs
  <2>2. LockInv'
    BY <1>i, Zenon DEF TypeOK, LockInv, Masked
  <2>3. MsgInv'
    BY <1>i, Zenon DEF MsgInv, LockInv, Masked, Msgs
  <2>4. XhciInv'
    BY <1>u, <1>i, MsgAssumption, Zenon DEF TypeOK, XhciInv, MsgInv
  <2>5. TimerInv'
    BY <1>u, <1>i, MsgAssumption, Zenon DEF TimerInv, OnePlace, MsgInv, Values
  <2>6. RingInv'
    BY <1>i, RingAssumption, Zenon DEF TypeOK, RingInv
  <2>. QED  BY <1>u, <2>1, <2>2, <2>3, <2>4, <2>5, <2>6, Zenon DEF IInv
<1>8. ASSUME lock_timer("read", "reading") PROVE IInv'
  <2>. USE <1>8 DEF lock_timer, without_interrupts, Goto, At, xhc
  <2>1. TypeOK'
    <3>1. age' \in 0 .. MaxAge /\ ring' \in 0 .. RingLen /\ unacked' \in 0 .. RingLen
      BY <1>i, RingAssumption, AgeAssumption, Zenon DEF TypeOK, RingInv
    <3>. QED  BY <1>u, <1>i, <3>1, Zenon DEF TypeOK, PCs
  <2>2. LockInv'
    BY <1>i, Zenon DEF TypeOK, LockInv, Masked
  <2>3. MsgInv'
    BY <1>i, Zenon DEF MsgInv, LockInv, Masked, Msgs
  <2>4. XhciInv'
    BY <1>u, <1>i, MsgAssumption, Zenon DEF TypeOK, XhciInv, MsgInv
  <2>5. TimerInv'
    BY <1>u, <1>i, MsgAssumption, Zenon DEF TimerInv, OnePlace, MsgInv, Values
  <2>6. RingInv'
    BY <1>i, RingAssumption, Zenon DEF TypeOK, RingInv
  <2>. QED  BY <1>u, <2>1, <2>2, <2>3, <2>4, <2>5, <2>6, Zenon DEF IInv
<1>9. ASSUME get_current_tick("reading", "add") PROVE IInv'
  <2>. USE <1>9 DEF get_current_tick, Goto, At, xhc
  <2>1. TypeOK'
    <3>1. age' \in 0 .. MaxAge /\ ring' \in 0 .. RingLen /\ unacked' \in 0 .. RingLen
      BY <1>i, RingAssumption, AgeAssumption DEF TypeOK, RingInv
    <3>. QED  BY <1>u, <1>i, <3>1, Zenon DEF TypeOK, PCs
  <2>2. LockInv'
    BY <1>i, Zenon DEF TypeOK, LockInv, Masked
  <2>3. MsgInv'
    BY <1>i, Zenon DEF MsgInv, LockInv, Masked, Msgs
  <2>4. XhciInv'
    BY <1>u, <1>i, MsgAssumption, Zenon DEF TypeOK, XhciInv, MsgInv
  <2>5. TimerInv'
    BY <1>u, <1>i, MsgAssumption, Zenon DEF TimerInv, OnePlace, MsgInv, Values
  <2>6. RingInv'
    BY <1>i, RingAssumption, Zenon DEF TypeOK, RingInv
  <2>. QED  BY <1>u, <2>1, <2>2, <2>3, <2>4, <2>5, <2>6, Zenon DEF IInv
<1>10. ASSUME lock_timer("add", "adding") PROVE IInv'
  <2>. USE <1>10 DEF lock_timer, without_interrupts, Goto, At, xhc
  <2>1. TypeOK'
    <3>1. age' \in 0 .. MaxAge /\ ring' \in 0 .. RingLen /\ unacked' \in 0 .. RingLen
      BY <1>i, RingAssumption, AgeAssumption, Zenon DEF TypeOK, RingInv
    <3>. QED  BY <1>u, <1>i, <3>1, Zenon DEF TypeOK, PCs
  <2>2. LockInv'
    BY <1>i, Zenon DEF TypeOK, LockInv, Masked
  <2>3. MsgInv'
    BY <1>i, Zenon DEF MsgInv, LockInv, Masked, Msgs
  <2>4. XhciInv'
    BY <1>u, <1>i, MsgAssumption, Zenon DEF TypeOK, XhciInv, MsgInv
  <2>5. TimerInv'
    BY <1>u, <1>i, MsgAssumption, Zenon DEF TimerInv, OnePlace, MsgInv, Values
  <2>6. RingInv'
    BY <1>i, RingAssumption, Zenon DEF TypeOK, RingInv
  <2>. QED  BY <1>u, <2>1, <2>2, <2>3, <2>4, <2>5, <2>6, Zenon DEF IInv
<1>11. ASSUME loop PROVE IInv'
  <2>. USE <1>11 DEF loop, set_interrupt_flag, Goto, At, xhc
  <2>1. TypeOK'
    <3>1. age' \in 0 .. MaxAge /\ ring' \in 0 .. RingLen /\ unacked' \in 0 .. RingLen
      BY <1>i, RingAssumption, AgeAssumption, Zenon DEF TypeOK, RingInv
    <3>. QED  BY <1>u, <1>i, <3>1, Zenon DEF TypeOK, PCs
  <2>2. LockInv'
    BY <1>i, Zenon DEF TypeOK, LockInv, Masked
  <2>3. MsgInv'
    BY <1>i, Zenon DEF MsgInv, LockInv, Masked, Msgs
  <2>4. XhciInv'
    BY <1>u, <1>i, MsgAssumption, Zenon DEF TypeOK, XhciInv, MsgInv
  <2>5. TimerInv'
    BY <1>u, <1>i, MsgAssumption, Zenon DEF TimerInv, OnePlace, MsgInv, Values
  <2>6. RingInv'
    BY <1>i, RingAssumption, Zenon DEF TypeOK, RingInv
  <2>. QED  BY <1>u, <2>1, <2>2, <2>3, <2>4, <2>5, <2>6, Zenon DEF IInv
<1>12. ASSUME check PROVE IInv'
  <2>. USE <1>12 DEF check, Goto, At, xhc
  <2>1. TypeOK'
    <3>1. age' \in 0 .. MaxAge /\ ring' \in 0 .. RingLen /\ unacked' \in 0 .. RingLen
      BY <1>i, RingAssumption, AgeAssumption, Zenon DEF TypeOK, RingInv
    <3>. QED  BY <1>u, <1>i, <3>1, Zenon DEF TypeOK, PCs
  <2>2. LockInv'
    BY <1>i, Zenon DEF TypeOK, LockInv, Masked
  <2>3. MsgInv'
    BY <1>i, Zenon DEF MsgInv, LockInv, Masked, Msgs
  <2>4. XhciInv'
    BY <1>u, <1>i, MsgAssumption, Zenon DEF TypeOK, XhciInv, MsgInv
  <2>5. TimerInv'
    BY <1>u, <1>i, MsgAssumption, Zenon DEF TimerInv, OnePlace, MsgInv, Values
  <2>6. RingInv'
    BY <1>i, RingAssumption, Zenon DEF TypeOK, RingInv
  <2>. QED  BY <1>u, <2>1, <2>2, <2>3, <2>4, <2>5, <2>6, Zenon DEF IInv
<1>13. ASSUME sti PROVE IInv'
  <2>. USE <1>13 DEF sti, set_interrupt_flag, Goto, At, locks, xhc
  <2>1. TypeOK'
    <3>1. age' \in 0 .. MaxAge /\ ring' \in 0 .. RingLen /\ unacked' \in 0 .. RingLen
      BY <1>i, RingAssumption, AgeAssumption, Zenon DEF TypeOK, RingInv
    <3>. QED  BY <1>u, <1>i, <3>1, Zenon DEF TypeOK, PCs
  <2>2. LockInv'
    BY <1>i, Zenon DEF TypeOK, LockInv, Masked
  <2>3. MsgInv'
    BY <1>i, Zenon DEF MsgInv, LockInv, Masked, Msgs
  <2>4. XhciInv'
    BY <1>u, <1>i, MsgAssumption, Zenon DEF TypeOK, XhciInv, MsgInv
  <2>5. TimerInv'
    BY <1>u, <1>i, MsgAssumption, Zenon DEF TimerInv, OnePlace, MsgInv, Values
  <2>6. RingInv'
    BY <1>i, RingAssumption, Zenon DEF TypeOK, RingInv
  <2>. QED  BY <1>u, <2>1, <2>2, <2>3, <2>4, <2>5, <2>6, Zenon DEF IInv
<1>14. ASSUME hlt PROVE IInv'
  <2>. USE <1>14 DEF hlt, Goto, At, locks, xhc
  <2>1. TypeOK'
    <3>1. age' \in 0 .. MaxAge /\ ring' \in 0 .. RingLen /\ unacked' \in 0 .. RingLen
      BY <1>i, RingAssumption, AgeAssumption, Zenon DEF TypeOK, RingInv
    <3>. QED  BY <1>u, <1>i, <3>1, Zenon DEF TypeOK, PCs
  <2>2. LockInv'
    BY <1>i, Zenon DEF TypeOK, LockInv, Masked
  <2>3. MsgInv'
    BY <1>i, Zenon DEF MsgInv, LockInv, Masked, Msgs
  <2>4. XhciInv'
    BY <1>u, <1>i, MsgAssumption, Zenon DEF TypeOK, XhciInv, MsgInv
  <2>5. TimerInv'
    BY <1>u, <1>i, MsgAssumption, Zenon DEF TimerInv, OnePlace, MsgInv, Values
  <2>6. RingInv'
    BY <1>i, RingAssumption, Zenon DEF TypeOK, RingInv
  <2>. QED  BY <1>u, <2>1, <2>2, <2>3, <2>4, <2>5, <2>6, Zenon DEF IInv
<1>15. ASSUME dispatch PROVE IInv'
  <2>. USE <1>15 DEF dispatch, Goto, At, locks, xhc
  <2>1. TypeOK'
    <3>1. age' \in 0 .. MaxAge /\ ring' \in 0 .. RingLen /\ unacked' \in 0 .. RingLen
      BY <1>i, RingAssumption, AgeAssumption, Zenon DEF TypeOK, RingInv
    <3>. QED  BY <1>u, <1>i, <3>1, Zenon DEF TypeOK, PCs
  <2>2. LockInv'
    BY <1>i, Zenon DEF TypeOK, LockInv, Masked
  <2>3. MsgInv'
    BY <1>i, Zenon DEF MsgInv, LockInv, Masked, Msgs
  <2>4. XhciInv'
    BY <1>u, <1>i, MsgAssumption, Zenon DEF TypeOK, XhciInv, MsgInv
  <2>5. TimerInv'
    BY <1>u, <1>i, MsgAssumption, Zenon DEF TimerInv, OnePlace, MsgInv, Values
  <2>6. RingInv'
    BY <1>i, RingAssumption, Zenon DEF TypeOK, RingInv
  <2>. QED  BY <1>u, <2>1, <2>2, <2>3, <2>4, <2>5, <2>6, Zenon DEF IInv
<1>16. ASSUME drain PROVE IInv'
  <2>. USE <1>16 DEF drain, has_event, Goto, At, locks
  <2>1. TypeOK'
    <3>1. age' \in 0 .. MaxAge /\ ring' \in 0 .. RingLen /\ unacked' \in 0 .. RingLen
      BY <1>i, RingAssumption, AgeAssumption DEF TypeOK, RingInv
    <3>. QED  BY <1>u, <1>i, <3>1 DEF TypeOK, PCs
  <2>2. LockInv'
    BY <1>i, Zenon DEF TypeOK, LockInv, Masked
  <2>3. MsgInv'
    BY <1>i, Zenon DEF MsgInv, LockInv, Masked, Msgs
  <2>4. XhciInv'
    BY <1>u, <1>i, MsgAssumption, Zenon DEF TypeOK, XhciInv, MsgInv
  <2>5. TimerInv'
    BY <1>u, <1>i, MsgAssumption, Zenon DEF TimerInv, OnePlace, MsgInv, Values
  <2>6. RingInv'
    BY <1>i, RingAssumption DEF TypeOK, RingInv
  <2>. QED  BY <1>u, <2>1, <2>2, <2>3, <2>4, <2>5, <2>6, Zenon DEF IInv
<1>17. ASSUME erdp PROVE IInv'
  <2>. USE <1>17 DEF erdp, clear_event_handler_busy, Goto, At, locks
  <2>1. TypeOK'
    <3>1. age' \in 0 .. MaxAge /\ ring' \in 0 .. RingLen /\ unacked' \in 0 .. RingLen
      BY <1>i, RingAssumption, AgeAssumption DEF TypeOK, RingInv
    <3>. QED  BY <1>u, <1>i, <3>1, Zenon DEF TypeOK, PCs
  <2>2. LockInv'
    BY <1>i, Zenon DEF TypeOK, LockInv, Masked
  <2>3. MsgInv'
    BY <1>i, Zenon DEF MsgInv, LockInv, Masked, Msgs
  <2>4. XhciInv'
    <3>1. msg = Xhci /\ msg' # Xhci /\ hpc' # "xhci" /\ ring \in Int /\ ring' = ring
      BY <1>i, MsgAssumption, RingAssumption DEF TypeOK, MsgInv
    <3>2. ~irqX /\ ~Queued(Xhci)'
      BY <1>u, <1>i, <3>1, Zenon DEF XhciInv
    <3>3. (ring = 0 /\ ~ehb' /\ ~irqX') \/ (ring > 0 /\ ehb' /\ irqX')
      BY <3>2, Zenon
    <3>. QED  BY ONLY <3>1, <3>2, <3>3 DEF XhciInv
  <2>5. TimerInv'
    BY <1>u, <1>i, MsgAssumption DEF TimerInv, OnePlace, MsgInv, Values
  <2>6. RingInv'
    BY <1>i, RingAssumption DEF TypeOK, RingInv
  <2>. QED  BY <1>u, <2>1, <2>2, <2>3, <2>4, <2>5, <2>6, Zenon DEF IInv
<1>. QED  BY <1>1, <1>2, <1>3, <1>4, <1>5, <1>6, <1>7, <1>8, <1>9, <1>10, <1>11, <1>12, <1>13, <1>14, <1>15, <1>16, <1>17, Zenon

(* The Xhci handler queues Xhci, which was not queued and had room.         *)
LEMMA XhciStep ==
  ASSUME IInv, xhci_interrupt_handler
  PROVE  IInv'
<1>. USE MsgAssumption DEF xhci_interrupt_handler, notify_end_of_interrupt, main, locks
<1>1. Xhci \in Msgs /\ ~Queued(Xhci)
  BY Zenon DEF IInv, XhciInv, Msgs
<1>2. Len(events) < QueueLen
  BY <1>1, QueueRoom, Zenon DEF IInv, TypeOK, Distinct
<1>3. /\ events' \in Seq(Msgs)
      /\ \A x : Queued(x)' <=> Queued(x) \/ x = Xhci
      /\ \A i, j \in 1 .. Len(events') : events'[i] = events'[j] => i = j
  BY <1>1, <1>2, QueuePush, Zenon DEF IInv, TypeOK, Distinct
<1>4. \A x : Armed(x)' <=> Armed(x)
  BY Zenon DEF Armed
<1>5. TypeOK' /\ RingInv'
  BY <1>3, Zenon DEF IInv, TypeOK, RingInv
<1>6. LockInv' /\ MsgInv'
  BY Zenon DEF IInv, LockInv, MsgInv, Masked
<1>7. Distinct'
  BY <1>3, Zenon DEF IInv, Distinct
<1>8. XhciInv'
  BY <1>3, Zenon DEF IInv, XhciInv
<1>9. TimerInv'
  <2>1. \A v \in Values : v # Xhci
    BY DEF Values
  <2>. QED  BY <1>3, <1>4, <2>1, Zenon DEF IInv, TimerInv, OnePlace
<1>. QED  BY <1>5, <1>6, <1>7, <1>8, <1>9, Zenon DEF IInv

(* A tick shortens every timer, and keeps their values apart.               *)
LEMMA TickStep ==
  ASSUME IInv, tick
  PROVE  IInv'
<1>. USE AgeAssumption DEF tick, xhc
<1>1. \A t \in timers : /\ t \in Timer
                        /\ [t EXCEPT !.left = @ - 1] \in Timer
                        /\ [t EXCEPT !.left = @ - 1].value = t.value
  BY DEF IInv, TypeOK, Timer
<1>2. timers' \in SUBSET Timer
  BY <1>1, Zenon
<1>3. \A x : Armed(x)' <=> Armed(x)
  BY <1>1, Zenon DEF Armed
<1>4. \A x : Queued(x)' <=> Queued(x)
  BY Zenon DEF Queued
<1>5. Distinct'
  <2>1. ASSUME NEW t \in timers', NEW u \in timers', t.value = u.value PROVE t = u
    <3>1. PICK t0 \in timers, u0 \in timers :
            t = [t0 EXCEPT !.left = @ - 1] /\ u = [u0 EXCEPT !.left = @ - 1]
      BY Zenon
    <3>2. t0 = u0
      BY <1>1, <2>1, <3>1 DEF IInv, Distinct
    <3>. QED  BY <3>1, <3>2, Zenon
  <2>. QED  BY <2>1, Zenon DEF IInv, Distinct
<1>6. TypeOK' /\ RingInv'
  <2>1. age' \in 0 .. MaxAge
    BY DEF IInv, TypeOK
  <2>2. hpc' \in {"idle", "xhci", "tick", "expire"} /\ tmLock' \in {"free", "main", "irq"}
    BY Zenon
  <2>3. RingInv'
    BY Zenon DEF IInv, RingInv
  <2>4. TypeOK'
    BY <1>2, <2>1, <2>2, Zenon DEF IInv, TypeOK
  <2>. QED  BY <2>3, <2>4, Zenon
<1>7. LockInv' /\ MsgInv'
  BY Zenon DEF IInv, LockInv, MsgInv, Masked
<1>8. XhciInv' /\ TimerInv'
  BY <1>3, <1>4, Zenon DEF IInv, XhciInv, TimerInv, OnePlace
<1>. QED  BY <1>5, <1>6, <1>7, <1>8, Zenon DEF IInv

(* An expired task timer is pushed again at once; an expired timer v moves *)
(* from the heap to EVENTS, where v was not and has room.                  *)
LEMMA ExpireStep ==
  ASSUME IInv, NEW t \in timers, expire(t)
  PROVE  IInv'
<1>. USE MsgAssumption DEF expire, main, locks, xhc
<1>0. t \in Timer /\ t.value \in Values \cup {TASK_TIMER_VALUE}
  BY Zenon DEF IInv, TypeOK, Timer
<1>1. TASK_TIMER_VALUE \notin Values /\ \A v \in Values : v # Xhci
  BY DEF Values, TASK_TIMER_VALUE
<1>2. LockInv' /\ MsgInv' /\ RingInv'
  BY Zenon DEF IInv, LockInv, MsgInv, Masked, RingInv
<1>3. CASE t.value = TASK_TIMER_VALUE
  <2>. DEFINE n == [left |-> TASK_TIMER_PERIOD, value |-> TASK_TIMER_VALUE]
  <2>1. timers' = (timers \ {t}) \cup {n} /\ events' = events /\ switch' = TRUE
    BY <1>3, Zenon DEF task_timer
  <2>2. n \in Timer /\ n.value = TASK_TIMER_VALUE
    BY TaskPeriodAssumption DEF Timer
  <2>. HIDE DEF n
  <2>3. \A x : Queued(x)' <=> Queued(x)
    BY <2>1, Zenon DEF Queued
  <2>4. \A x : Armed(x)' <=> Armed(x)
    BY <1>3, <2>1, <2>2, Zenon DEF Armed
  <2>5. Distinct'
    BY <1>3, <2>1, <2>2 DEF IInv, Distinct
  <2>6. TypeOK'
    BY <2>1, <2>2, ZenonT(60) DEF IInv, TypeOK
  <2>7. XhciInv' /\ TimerInv'
    BY <2>3, <2>4, Zenon DEF IInv, XhciInv, TimerInv, OnePlace
  <2>. QED  BY <1>2, <2>5, <2>6, <2>7, Zenon DEF IInv
<1>4. CASE t.value # TASK_TIMER_VALUE
  <2>. DEFINE v == t.value
  <2>1. timers' = timers \ {t} /\ push(v) /\ UNCHANGED switch
    BY <1>4, Zenon
  <2>2. v \in Values /\ v \in Msgs /\ Armed(v)
    BY <1>0, <1>4, Zenon DEF Msgs, Armed
  <2>3. ~Queued(v) /\ msg # v /\ ~(boot /\ v > msg)
    BY <2>2, Zenon DEF IInv, TimerInv, OnePlace
  <2>4. Len(events) < QueueLen
    BY <2>2, <2>3, QueueRoom, Zenon DEF IInv, TypeOK, Distinct
  <2>5. /\ events' \in Seq(Msgs)
        /\ \A x : Queued(x)' <=> Queued(x) \/ x = v
        /\ \A i, j \in 1 .. Len(events') : events'[i] = events'[j] => i = j
    BY <2>1, <2>2, <2>3, <2>4, QueuePush, Zenon DEF IInv, TypeOK, Distinct
  <2>6. \A x : Armed(x)' <=> Armed(x) /\ x # v
    BY <2>1, Zenon DEF IInv, Distinct, Armed
  <2>7. TypeOK'
    BY <2>1, <2>5, ZenonT(60) DEF IInv, TypeOK
  <2>8. Distinct'
    BY <2>1, <2>5, Zenon DEF IInv, Distinct
  <2>9. XhciInv'
    BY <1>1, <2>2, <2>5, Zenon DEF IInv, XhciInv
  <2>10. TimerInv'
    BY <1>1, <2>2, <2>3, <2>5, <2>6, Zenon DEF IInv, TimerInv, OnePlace
  <2>. QED  BY <1>2, <2>7, <2>8, <2>9, <2>10, Zenon DEF IInv
<1>. QED  BY <1>3, <1>4, Zenon

(* Arming timer v moves it from main to the heap, where v was not.         *)
LEMMA AddStep ==
  ASSUME IInv, add_timer
  PROVE  IInv'
<1>. USE MsgAssumption DEF add_timer, Goto, At, xhc
<1>. DEFINE n == [left |-> Period[msg] - age, value |-> msg]
<1>0. NTimers \in Nat /\ Values \subseteq Int
  BY PeriodAssumption DEF NTimers, Values
<1>1. msg \in Values /\ pc = "adding" /\ TASK_TIMER_VALUE \notin Values
  BY DEF IInv, MsgInv, Values, TASK_TIMER_VALUE
<1>2. timers' = timers \cup {n}
  BY Zenon DEF rearm
<1>3. n \in Timer /\ n.value = msg
  <2>1. Period[msg] \in Nat
    BY <1>1, PeriodAssumption DEF Values, NTimers
  <2>2. age \in Int
    BY ONLY IInv, AgeAssumption DEF IInv, TypeOK
  <2>. QED  BY ONLY <1>1, <2>1, <2>2 DEF Timer
<1>. HIDE DEF n
<1>4. ~Armed(msg) /\ ~Queued(msg)
  BY <1>1, Zenon DEF IInv, TimerInv, OnePlace
<1>5. \A x : Armed(x)' <=> Armed(x) \/ x = msg
  BY <1>2, <1>3, Zenon DEF Armed
<1>6. \A x : Queued(x)' <=> Queued(x)
  BY Zenon DEF Queued
<1>7. Distinct'
  BY <1>2, <1>3, <1>4, Zenon DEF IInv, Distinct, Armed
<1>8. TypeOK' /\ RingInv'
  <2>1. msg' \in Msgs \cup {NoMsg}
    BY <1>0, <1>1 DEF Values, Msgs
  <2>. QED  BY <1>2, <1>3, <2>1, Zenon DEF IInv, TypeOK, PCs, RingInv
<1>9. LockInv'
  BY Zenon DEF IInv, LockInv, Masked
<1>10. MsgInv'
  <2>1. CASE pc' = "read"
    BY <1>0, <1>1, <2>1 DEF MsgInv, Values
  <2>2. CASE pc' = "loop"
    BY <2>2, Zenon DEF MsgInv
  <2>. QED  BY <2>1, <2>2, Zenon
<1>11. XhciInv'
  <2>1. msg # Xhci /\ msg' # Xhci
    BY <1>0, <1>1
  <2>2. UNCHANGED <<ring, ehb, irqX, hpc>>
    BY Zenon
  <2>. QED  BY ONLY IInv, <1>6, <2>1, <2>2, Zenon DEF IInv, XhciInv
<1>12. TimerInv'
  <2>1. Armed(TASK_TIMER_VALUE)'
    BY <1>5, Zenon DEF IInv, TimerInv
  <2>2. ASSUME NEW v \in Values PROVE OnePlace(v)'
    <3>1. OnePlace(v) /\ v \in Int /\ msg \in Int
      BY <1>0, <1>1, <2>2, Zenon DEF IInv, TimerInv
    <3>2. CASE boot /\ msg < NTimers
      <4>1. msg' = msg + 1 /\ boot'
        BY <3>2, Zenon
      <4>. QED  BY ONLY <1>4, <1>5, <1>6, <3>1, <3>2, <4>1 DEF OnePlace
    <3>3. CASE ~(boot /\ msg < NTimers)
      <4>1. msg' # v /\ ~boot'
        BY <3>1, <3>3, Zenon
      <4>2. ~(boot /\ v > msg)
        BY ONLY <1>0, <1>1, <3>3, <2>2 DEF Values
      <4>. QED  BY ONLY <1>4, <1>5, <1>6, <3>1, <4>1, <4>2, Zenon DEF OnePlace
    <3>. QED  BY <3>2, <3>3, Zenon
  <2>. QED  BY <2>1, <2>2, Zenon DEF TimerInv
<1>. QED  BY <1>7, <1>8, <1>9, <1>10, <1>11, <1>12, Zenon DEF IInv

(* Popping moves the oldest message from EVENTS to main.                   *)
LEMMA PopStep ==
  ASSUME IInv, pop
  PROVE  IInv'
<1>. USE MsgAssumption DEF pop, Goto, At, locks, xhc, set_interrupt_flag
<1>1. pc = "pop" /\ msg = NoMsg /\ ~boot /\ events # <<>>
  BY Zenon DEF IInv, MsgInv
<1>2. /\ events' \in Seq(Msgs)
      /\ msg' \in Msgs /\ Queued(msg')
      /\ \A x : Queued(x)' <=> Queued(x) /\ x # msg'
      /\ \A i, j \in 1 .. Len(events') : events'[i] = events'[j] => i = j
  BY <1>1, QueuePop, Zenon DEF IInv, TypeOK, Distinct
<1>3. \A x : Armed(x)' <=> Armed(x)
  BY Zenon DEF Armed
<1>4. TypeOK' /\ RingInv'
  BY <1>2, Zenon DEF IInv, TypeOK, PCs, RingInv
<1>5. LockInv'
  BY Zenon DEF IInv, LockInv, Masked
<1>6. MsgInv'
  BY <1>1, <1>2, Zenon DEF IInv, MsgInv
<1>7. Distinct'
  BY <1>2, Zenon DEF IInv, Distinct
<1>8. XhciInv'
  BY <1>1, <1>2, Zenon DEF IInv, XhciInv
<1>9. TimerInv'
  <2>1. ~boot'
    BY <1>1, Zenon
  <2>2. ASSUME NEW v \in Values PROVE OnePlace(v)'
    <3>1. v # NoMsg
      BY DEF Values
    <3>2. /\ Armed(v) \/ Queued(v)
          /\ Armed(v) => ~Queued(v)
      BY <1>1, <3>1, Zenon DEF IInv, TimerInv, OnePlace
    <3>. QED  BY <1>2, <1>3, <2>1, <3>2, Zenon DEF OnePlace
  <2>3. Armed(TASK_TIMER_VALUE)'
    BY <1>3, Zenon DEF IInv, TimerInv
  <2>. QED  BY <2>2, <2>3, Zenon DEF TimerInv
<1>. QED  BY <1>4, <1>5, <1>6, <1>7, <1>8, <1>9, Zenon DEF IInv

-----------------------------------------------------------------------------
LEMMA StutterStep ==
  ASSUME IInv, UNCHANGED vars
  PROVE  IInv'
<1>. USE DEF vars, cpu, main, locks, xhc, IInv
<1>1. TypeOK'
  <2>1. /\ iflag' \in BOOLEAN /\ switch' \in BOOLEAN /\ boot' \in BOOLEAN
        /\ irqT' \in BOOLEAN /\ irqX' \in BOOLEAN /\ ehb' \in BOOLEAN
    BY Zenon DEF TypeOK
  <2>2. /\ UNCHANGED <<running, hpc, pc, msg, age, events, timers, evLock, tmLock, ring, unacked>>
        /\ TypeOK
    BY Zenon
  <2>. QED  BY ONLY <2>1, <2>2, Zenon DEF TypeOK
<1>2. LockInv'
  BY Zenon DEF LockInv, Masked
<1>3. MsgInv'
  BY Zenon DEF MsgInv
<1>4. Distinct'
  BY Zenon DEF Distinct
<1>5. XhciInv'
  BY Zenon DEF XhciInv, Queued
<1>6. TimerInv'
  BY Zenon DEF TimerInv, OnePlace, Queued, Armed
<1>7. RingInv'
  BY Zenon DEF RingInv
<1>. QED  BY <1>1, <1>2, <1>3, <1>4, <1>5, <1>6, <1>7, Zenon

LEMMA StepIInv == IInv /\ [Next]_vars => IInv'
<1>. SUFFICES ASSUME IInv, [Next]_vars PROVE IInv'
  BY Zenon
<1>1. CASE xhci_interrupt_handler
  BY <1>1, XhciStep, Zenon
<1>2. CASE tick
  BY <1>2, TickStep, Zenon
<1>3. ASSUME NEW t \in timers, expire(t) PROVE IInv'
  BY <1>3, ExpireStep, Zenon
<1>4. CASE add_timer
  BY <1>4, AddStep, Zenon
<1>5. CASE pop
  BY <1>5, PopStep, Zenon
<1>6. CASE LapicTimer
  BY <1>6, QuietSteps, Zenon DEF LapicTimer
<1>7. CASE XhcPost
  BY <1>7, QuietSteps, Zenon DEF XhcPost
<1>8. CASE TakeTimer
  BY <1>8, QuietSteps, Zenon DEF TakeTimer, Take
<1>9. CASE TakeXhci
  BY <1>9, QuietSteps, Zenon DEF TakeXhci, Take
<1>10. CASE lapic_interrupt_handler
  BY <1>10, QuietSteps, Zenon DEF lapic_interrupt_handler
<1>11. CASE lock_timer("draw", "drawing")
  BY <1>11, QuietSteps, Zenon DEF lock_timer
<1>12. CASE get_current_tick("drawing", "dispatch")
  BY <1>12, QuietSteps, Zenon DEF get_current_tick
<1>13. CASE lock_timer("read", "reading")
  BY <1>13, QuietSteps, Zenon DEF lock_timer
<1>14. CASE get_current_tick("reading", "add")
  BY <1>14, QuietSteps, Zenon DEF get_current_tick
<1>15. CASE lock_timer("add", "adding")
  BY <1>15, QuietSteps, Zenon DEF lock_timer
<1>16. CASE loop
  BY <1>16, QuietSteps, Zenon DEF loop
<1>17. CASE check
  BY <1>17, QuietSteps, Zenon DEF check
<1>18. CASE sti
  BY <1>18, QuietSteps, Zenon DEF sti
<1>19. CASE hlt
  BY <1>19, QuietSteps, Zenon DEF hlt
<1>20. CASE dispatch
  BY <1>20, QuietSteps, Zenon DEF dispatch
<1>21. CASE drain
  BY <1>21, QuietSteps, Zenon DEF drain
<1>22. CASE erdp
  BY <1>22, QuietSteps, Zenon DEF erdp
<1>23. CASE UNCHANGED vars
  BY <1>23, StutterStep, Zenon
<1>. QED
  BY <1>1, <1>2, <1>3, <1>4, <1>5, <1>6, <1>7, <1>8, <1>9, <1>10, <1>11, <1>12,
     <1>13, <1>14, <1>15, <1>16, <1>17, <1>18, <1>19, <1>20, <1>21, <1>22, <1>23
 , Zenon DEF Next, Device, Handler, Main

LEMMA Invariance == Spec => []IInv
BY InitIInv, StepIInv, PTL DEF Spec

-----------------------------------------------------------------------------
(* Every variable of the event loop keeps its type.                        *)
THEOREM Typing == Spec => []TypeOK
BY Invariance, PTL DEF IInv

(* No interrupt handler ever waits for EVENTS or TIMER: main takes either  *)
(* only after clearing the interrupt flag.                                 *)
THEOREM NoSpinning == Spec => []HandlersNeverSpin
<1>1. IInv => HandlersNeverSpin
  BY Zenon DEF IInv, TypeOK, LockInv, Masked, HandlersNeverSpin
<1>. QED  BY <1>1, Invariance, PTL

(* A queue with one slot per periodic timer and one for Xhci never drops a *)
(* message that a handler pushes.                                          *)
THEOREM NoDrop == Spec => []PushNeverFails
<1>1. IInv => PushNeverFails
  <2>. SUFFICES ASSUME IInv,
                       \/ hpc = "xhci"
                       \/ \E t \in timers : t.value # TASK_TIMER_VALUE
                PROVE  Len(events) < QueueLen
    BY Zenon DEF PushNeverFails, Tops
  <2>1. CASE hpc = "xhci"
    BY <2>1, QueueRoom, Zenon DEF IInv, TypeOK, XhciInv, Distinct, Msgs
  <2>2. ASSUME NEW t \in timers, t.value # TASK_TIMER_VALUE PROVE Len(events) < QueueLen
    <3>1. t.value \in Values
      BY <2>2, Zenon DEF IInv, TypeOK, Timer
    <3>2. ~Queued(t.value)
      BY <3>1, Zenon DEF IInv, TimerInv, OnePlace, Armed
    <3>. QED  BY <3>1, <3>2, QueueRoom, Zenon DEF IInv, TypeOK, Distinct, Msgs
  <2>. QED  BY <2>1, <2>2, Zenon
<1>. QED  BY <1>1, Invariance, PTL

(* No periodic timer is ever lost or doubled, and the task timer is always *)
(* armed.                                                                  *)
THEOREM NoTimerLost == Spec => []TimerConservation
<1>1. IInv => TimerConservation
  <2>. SUFFICES ASSUME IInv, NEW v \in Values
                PROVE  \E p \in Places : In(v, p) /\ \A q \in Places : In(v, q) => q = p
    BY Zenon DEF IInv, TimerInv, TimerConservation
  <2>0. NTimers \in Nat
    BY PeriodAssumption DEF NTimers
  <2>1. OnePlace(v)
    BY Zenon DEF IInv, TimerInv
  <2>2. ~(msg = v /\ boot /\ v > msg)
    BY <2>0 DEF Values
  <2>3. CASE Armed(v)
    <3>1. In(v, "heap") /\ \A q \in Places : In(v, q) => q = "heap"
      BY <2>1, <2>3, Zenon DEF OnePlace, In, Places
    <3>. QED  BY <3>1, Zenon DEF Places
  <2>4. CASE Queued(v)
    <3>1. In(v, "queue") /\ \A q \in Places : In(v, q) => q = "queue"
      BY <2>1, <2>4, Zenon DEF OnePlace, In, Places
    <3>. QED  BY <3>1, Zenon DEF Places
  <2>5. CASE ~Armed(v) /\ ~Queued(v) /\ msg = v
    <3>1. In(v, "main") /\ \A q \in Places : In(v, q) => q = "main"
      BY <2>1, <2>2, <2>5, Zenon DEF OnePlace, In, Places
    <3>. QED  BY <3>1, Zenon DEF Places
  <2>6. CASE ~Armed(v) /\ ~Queued(v) /\ msg # v
    <3>1. In(v, "boot") /\ \A q \in Places : In(v, q) => q = "boot"
      BY <2>1, <2>6, Zenon DEF OnePlace, In, Places
    <3>. QED  BY <3>1, Zenon DEF Places
  <2>. QED  BY <2>3, <2>4, <2>5, <2>6, Zenon
<1>. QED  BY <1>1, Invariance, PTL

(* A heap with room for every periodic timer and the task timer never      *)
(* reallocates in add_timer.                                               *)
THEOREM NoGrowth == Spec => []HeapNeverGrows
<1>1. IInv => HeapNeverGrows
  <2>. SUFFICES ASSUME IInv, pc = "adding" PROVE Cardinality(timers) < HeapCap
    BY Zenon DEF HeapNeverGrows
  <2>1. msg \in Values
    BY Zenon DEF IInv, MsgInv
  <2>2. ~Armed(msg)
    BY <2>1, Zenon DEF IInv, TimerInv, OnePlace
  <2>. QED  BY <2>1, <2>2, HeapRoom, Zenon DEF IInv, TypeOK, Distinct
<1>. QED  BY <1>1, Invariance, PTL

(* While the event ring holds an unread event, someone is on the way to    *)
(* read it.                                                                *)
THEOREM NoStranding == Spec => []NoStrandedEvent
<1>1. IInv => NoStrandedEvent
  BY Zenon DEF IInv, XhciInv, NoStrandedEvent
<1>. QED  BY <1>1, Invariance, PTL
=============================================================================
