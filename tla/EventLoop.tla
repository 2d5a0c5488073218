----------------------------- MODULE EventLoop -----------------------------
(***************************************************************************)
(* The kernel's event loop: the main task of kernel/src/main.rs, the two   *)
(* interrupt handlers that feed it through EVENTS, the timers of           *)
(* kernel/src/timer.rs, and the single CPU they share with taskB.          *)
(*                                                                         *)
(* There is one CPU.  A handler runs with the interrupt flag clear, so it  *)
(* interleaves only with the devices; main interleaves with the handlers   *)
(* wherever the flag is set, and with taskB through the task timer.        *)
(* The spin locks of EVENTS and TIMER are shared by main and the handlers: *)
(* a handler that finds one taken by the task it interrupted would wait    *)
(* for ever (SpinMutex::lock executes hlt with the flag clear).            *)
(*                                                                         *)
(* The absolute tick is only ever compared with timeouts, so a timer keeps *)
(* left = timeout - tick, and the tick value main has read keeps its age.  *)
(***************************************************************************)
EXTENDS Integers, Sequences, FiniteSets

CONSTANTS
  Period,             \* Period[v]: after how many ticks main re-arms timer v
  TASK_TIMER_PERIOD,
  QueueLen,           \* the length N of EVENTS
  HeapCap,            \* timers the BinaryHeap holds without reallocating
  RingLen,            \* events the xHC may post before software frees space
  Xhci,               \* Message::Xhci; TimerTimeout(v) is the number v
  NoMsg,              \* main holds no message
  MaxAge              \* bound: ticks counted between reading the tick and using it

NTimers == Len(Period)
Values == 1 .. NTimers
TASK_TIMER_VALUE == 0
Msgs == Values \cup {Xhci}

ASSUME PeriodAssumption == Period \in Seq(Nat) /\ NTimers >= 1
ASSUME TaskPeriodAssumption == TASK_TIMER_PERIOD \in Nat
ASSUME QueueAssumption == QueueLen \in Nat /\ QueueLen >= NTimers + 1
ASSUME HeapAssumption == HeapCap \in Nat /\ HeapCap >= NTimers + 1
ASSUME RingAssumption == RingLen \in Nat \ {0}
ASSUME MsgAssumption == Xhci \notin Int /\ NoMsg \notin Int /\ NoMsg # Xhci
ASSUME AgeAssumption == MaxAge \in Nat

VARIABLES
  iflag,     \* the CPU's interrupt flag
  running,   \* the task the CPU runs, the front of TaskManager.ctxs
  hpc,       \* where the interrupt handler is, "idle" outside handlers
  switch,    \* task_timer_timeout of the running TimerManager::tick
  pc, msg,   \* where main is, and the message it handles
  boot,      \* main is still arming the first timers, before its loop
  age,       \* ticks since main's last get_current_tick
  events,    \* EVENTS, oldest first (MessageQueue implements it)
  timers,    \* TimerManager.timers
  evLock, tmLock,  \* who holds EVENTS and TIMER
  irqT, irqX,      \* interrupts raised and not yet taken
  ring, unacked,   \* events posted and not read; read but before ERDP
  ehb              \* Event Handler Busy

cpu == <<iflag, running, hpc, switch>>
main == <<pc, msg, boot, age>>
locks == <<evLock, tmLock>>
xhc == <<ring, unacked, ehb>>
vars == <<cpu, main, events, timers, locks, irqT, irqX, xhc>>

Timer == [left : Int, value : Values \cup {TASK_TIMER_VALUE}]

Init ==
  /\ iflag = TRUE
  /\ running = "main"
  /\ hpc = "idle"
  /\ switch = FALSE
  /\ pc = "read" /\ msg = 1 /\ boot = TRUE /\ age = 0
  /\ events = <<>>
  /\ timers = {[left |-> TASK_TIMER_PERIOD, value |-> TASK_TIMER_VALUE]}
  /\ evLock = "free" /\ tmLock = "free"
  /\ irqT \in BOOLEAN
  /\ unacked = 0
  /\ \/ ring = 0 /\ ehb = FALSE /\ irqX = FALSE
     \/ ring \in 1 .. RingLen /\ ehb = TRUE /\ irqX = TRUE

-----------------------------------------------------------------------------
(* The devices.                                                            *)

\* The periodic LAPIC timer; a second interrupt merges with one still pending.
LapicTimer ==
  /\ ~irqT
  /\ irqT' = TRUE
  /\ UNCHANGED <<cpu, main, events, timers, locks, irqX, xhc>>

\* The controller posts an event if its ring has room, and interrupts unless
\* the handler of its last interrupt is still busy.
XhcPost ==
  /\ ring + unacked < RingLen
  /\ ring' = ring + 1
  /\ ehb' = TRUE
  /\ irqX' = IF ehb THEN irqX ELSE TRUE
  /\ UNCHANGED <<cpu, main, events, timers, locks, irqT, unacked>>

-----------------------------------------------------------------------------
(* Interrupts and their handlers, run with the flag clear.                 *)

\* A taken interrupt ends the hlt of the task it interrupts.
Take(handler) ==
  /\ iflag /\ hpc = "idle"
  /\ iflag' = FALSE
  /\ hpc' = handler
  /\ pc' = IF pc = "halted" /\ running = "main" THEN "loop" ELSE pc
  /\ UNCHANGED <<running, switch, msg, boot, age, events, timers, locks, xhc>>

TakeTimer == irqT /\ irqT' = FALSE /\ UNCHANGED irqX /\ Take("tick")

TakeXhci == irqX /\ irqX' = FALSE /\ UNCHANGED irqT /\ Take("xhci")

\* Wrong: one slot of the queue is never used.
push_short(m) == events' = IF Len(events) + 1 = QueueLen THEN events ELSE Append(events, m)

\* MessageQueue::push with its result ignored.
push(m) == events' = IF Len(events) = QueueLen THEN events ELSE Append(events, m)

\* The LAPIC's end of interrupt, which leaves the controller busy.
notify_end_of_interrupt == ehb' = ehb

xhci_interrupt_handler ==
  /\ hpc = "xhci" /\ evLock = "free"
  /\ push(Xhci)
  /\ notify_end_of_interrupt
  /\ hpc' = "idle"
  /\ iflag' = TRUE
  /\ UNCHANGED <<running, switch, main, timers, locks, irqT, irqX, ring, unacked>>

\* TimerManager::tick up to its loop: TIMER is taken and the tick advances.
tick ==
  /\ hpc = "tick" /\ tmLock = "free"
  /\ tmLock' = "irq"
  /\ timers' = {[t EXCEPT !.left = @ - 1] : t \in timers}
  /\ age' = IF age < MaxAge THEN age + 1 ELSE age
  /\ switch' = FALSE
  /\ hpc' = "expire"
  /\ UNCHANGED <<iflag, running, pc, msg, boot, events, evLock, irqT, irqX, xhc>>

is_over(t) == t.left < 0

\* The timers the heap may give out next: the reversed order of Timer makes
\* the BinaryHeap put a least timeout on top.
Tops == {t \in timers : \A u \in timers : t.left <= u.left}

\* Wrong: the expired task timer is not pushed again.
task_timer_once == {}

task_timer == {[left |-> TASK_TIMER_PERIOD, value |-> TASK_TIMER_VALUE]}

\* The loop of TimerManager::tick, one expired timer per step.
expire(t) ==
  /\ hpc = "expire"
  /\ t \in Tops /\ is_over(t)
  /\ \/ /\ t.value = TASK_TIMER_VALUE
        /\ switch' = TRUE
        /\ timers' = (timers \ {t}) \cup task_timer
        /\ UNCHANGED events
     \/ /\ t.value # TASK_TIMER_VALUE
        /\ evLock = "free"
        /\ push(t.value)
        /\ timers' = timers \ {t}
        /\ UNCHANGED switch
  /\ UNCHANGED <<iflag, running, hpc, main, locks, irqT, irqX, xhc>>

\* The rest of lapic_interrupt_handler: TIMER is released, the interrupt
\* acknowledged, and the other task resumed if the task timer has expired.
\* Both tasks were interrupted (or, taskB at first, created) with the flag set.
lapic_interrupt_handler ==
  /\ hpc = "expire"
  /\ \A t \in timers : ~is_over(t)
  /\ tmLock' = "free"
  /\ hpc' = "idle"
  /\ running' = IF switch THEN (IF running = "main" THEN "taskB" ELSE "main") ELSE running
  /\ switch' = FALSE
  /\ iflag' = TRUE
  /\ UNCHANGED <<main, events, timers, evLock, irqT, irqX, xhc>>

-----------------------------------------------------------------------------
(* Main, one step between points where an interrupt makes a difference.    *)

At(p) == running = "main" /\ hpc = "idle" /\ pc = p

\* A step of main that moves from p to q and touches neither CPU nor devices.
Goto(p, q) == At(p) /\ pc' = q /\ UNCHANGED <<running, hpc, switch, irqT>>

\* without_interrupts on entry; on exit it sets the flag again, which every
\* caller of it had set.
without_interrupts == iflag' = FALSE

\* TIMER.lock() inside without_interrupts, of get_current_tick and add_timer.
lock_timer(p, q) ==
  /\ Goto(p, q)
  /\ without_interrupts
  /\ tmLock = "free" /\ tmLock' = "main"
  /\ UNCHANGED <<msg, boot, age, events, timers, evLock, irqX, xhc>>

get_current_tick(p, q) ==
  /\ Goto(p, q)
  /\ age' = 0
  /\ tmLock' = "free" /\ iflag' = TRUE
  /\ UNCHANGED <<msg, boot, events, timers, evLock, irqX, xhc>>

\* Wrong: the last timer is not armed again.
rearm_but_last == IF msg = NTimers /\ ~boot THEN {} ELSE {[left |-> Period[msg] - age, value |-> msg]}

\* Timer { tick + Period[v], v }, with the tick main has read.
rearm == {[left |-> Period[msg] - age, value |-> msg]}

\* After an add_timer main goes on to the next timer at boot, and to the top
\* of its loop afterwards.
add_timer ==
  /\ \/ /\ boot /\ msg < NTimers
        /\ Goto("adding", "read")
        /\ msg' = msg + 1 /\ UNCHANGED boot
     \/ /\ ~(boot /\ msg < NTimers)
        /\ Goto("adding", "loop")
        /\ msg' = NoMsg /\ boot' = FALSE
  /\ timers' = timers \cup rearm
  /\ tmLock' = "free" /\ iflag' = TRUE
  /\ UNCHANGED <<age, events, evLock, irqX, xhc>>

\* sti or cli.
set_interrupt_flag(b) == iflag' = b

\* Wrong: EVENTS is locked with interrupts on.
loop_without_cli ==
  /\ Goto("loop", "check")
  /\ evLock = "free" /\ evLock' = "main"
  /\ UNCHANGED <<iflag, msg, boot, age, events, timers, tmLock, irqX, xhc>>

\* set_interrupt_flag(false), then EVENTS.lock() for the test of cnt.
loop ==
  /\ Goto("loop", "check")
  /\ set_interrupt_flag(FALSE)
  /\ evLock = "free" /\ evLock' = "main"
  /\ UNCHANGED <<msg, boot, age, events, timers, tmLock, irqX, xhc>>

check ==
  /\ Goto("check", IF events = <<>> THEN "sti" ELSE "pop")
  /\ evLock' = "free"
  /\ UNCHANGED <<iflag, msg, boot, age, events, timers, tmLock, irqX, xhc>>

\* set_interrupt_flag(true) is a call, so an interrupt may come before the hlt.
sti ==
  /\ Goto("sti", "hlt")
  /\ set_interrupt_flag(TRUE)
  /\ UNCHANGED <<msg, boot, age, events, timers, locks, irqX, xhc>>

hlt ==
  /\ Goto("hlt", "halted")
  /\ UNCHANGED <<iflag, msg, boot, age, events, timers, locks, irqX, xhc>>

\* EVENTS.lock().pop(), then set_interrupt_flag(true).
pop ==
  /\ Goto("pop", "draw")
  /\ evLock = "free"
  /\ msg' = Head(events) /\ events' = Tail(events)
  /\ set_interrupt_flag(TRUE)
  /\ UNCHANGED <<boot, age, timers, locks, irqX, xhc>>

\* The match on the message, after the test window and the layers are drawn.
dispatch ==
  /\ Goto("dispatch", IF msg = Xhci THEN "drain" ELSE "read")
  /\ UNCHANGED <<iflag, msg, boot, age, events, timers, locks, irqX, xhc>>

has_event == ring > 0

\* EventRing::on_xhc_interrupt: read events until there is none ...
drain ==
  /\ \/ /\ has_event
        /\ Goto("drain", "drain")
        /\ ring' = ring - 1 /\ unacked' = unacked + 1
     \/ /\ ~has_event
        /\ Goto("drain", "erdp")
        /\ UNCHANGED <<ring, unacked>>
  /\ UNCHANGED <<iflag, msg, boot, age, events, timers, locks, irqX, ehb>>

\* The controller interrupts again if it has posted an event meanwhile.
clear_event_handler_busy ==
  \/ ring = 0 /\ ehb' = FALSE /\ irqX' = irqX
  \/ ring > 0 /\ ehb' = TRUE /\ irqX' = TRUE

\* Wrong: ERDP is written without the bit that clears Event Handler Busy.
erdp_leaving_busy ==
  /\ Goto("erdp", "loop")
  /\ unacked' = 0
  /\ msg' = NoMsg
  /\ UNCHANGED <<iflag, boot, age, events, timers, locks, irqX, ring, ehb>>

\* ... then write ERDP and clear Event Handler Busy.  The executor's tasks that
\* usb::on_xhc_interrupt runs last touch none of this state.
erdp ==
  /\ Goto("erdp", "loop")
  /\ unacked' = 0
  /\ clear_event_handler_busy
  /\ msg' = NoMsg
  /\ UNCHANGED <<iflag, boot, age, events, timers, locks, ring>>

-----------------------------------------------------------------------------
Device == LapicTimer \/ XhcPost

Handler ==
  \/ xhci_interrupt_handler \/ tick \/ lapic_interrupt_handler
  \/ \E t \in timers : expire(t)

Main ==
  \/ lock_timer("draw", "drawing")
  \/ get_current_tick("drawing", "dispatch")
  \/ lock_timer("read", "reading")
  \/ get_current_tick("reading", "add")
  \/ lock_timer("add", "adding")
  \/ add_timer
  \/ loop \/ check \/ sti \/ hlt \/ pop \/ dispatch \/ drain \/ erdp

Next == Device \/ TakeTimer \/ TakeXhci \/ Handler \/ Main

Spec == Init /\ [][Next]_vars

\* The LAPIC timer is periodic; a pending interrupt is taken as soon as the
\* flag is set; a handler runs to its end; and main, whenever it is the
\* running task, executes instructions between two ticks.  Nothing is assumed
\* of the controller: it may never post an event.
Fairness ==
  /\ WF_vars(LapicTimer)
  /\ SF_vars(TakeTimer) /\ SF_vars(TakeXhci)
  /\ WF_vars(Handler)
  /\ SF_vars(Main)

FairSpec == Spec /\ Fairness

-----------------------------------------------------------------------------
PCs == {"read", "reading", "add", "adding", "loop", "check", "sti", "hlt", "halted",
        "pop", "draw", "drawing", "dispatch", "drain", "erdp"}

(* The type invariant.                                                     *)
TypeOK ==
  /\ iflag \in BOOLEAN /\ switch \in BOOLEAN /\ boot \in BOOLEAN
  /\ running \in {"main", "taskB"}
  /\ hpc \in {"idle", "xhci", "tick", "expire"}
  /\ pc \in PCs
  /\ msg \in Msgs \cup {NoMsg}
  /\ age \in 0 .. MaxAge
  /\ events \in Seq(Msgs)
  /\ timers \in SUBSET Timer
  /\ evLock \in {"free", "main"} /\ tmLock \in {"free", "main", "irq"}
  /\ irqT \in BOOLEAN /\ irqX \in BOOLEAN /\ ehb \in BOOLEAN
  /\ ring \in 0 .. RingLen /\ unacked \in 0 .. RingLen

Queued(m) == \E i \in 1 .. Len(events) : events[i] = m

Armed(v) == \E t \in timers : t.value = v

(* An interrupt handler never finds EVENTS or TIMER taken: main holds      *)
(* either only with the interrupt flag clear, so no handler can spin on a  *)
(* lock of the very task it has interrupted.                               *)
HandlersNeverSpin ==
  /\ hpc = "tick" => tmLock = "free"
  /\ hpc \in {"xhci", "expire"} => evLock = "free"

(* No push to EVENTS meets a full queue, though both handlers ignore the   *)
(* result of push: a lost TimerTimeout would never be re-armed, a lost     *)
(* Xhci would leave its events unread.                                     *)
PushNeverFails ==
  hpc = "xhci" \/ (hpc = "expire" /\ \E t \in Tops : is_over(t) /\ t.value # TASK_TIMER_VALUE)
    => Len(events) < QueueLen

\* The places the periodic timer v may be in.
In(v, place) ==
  \/ place = "heap"  /\ Armed(v)
  \/ place = "queue" /\ Queued(v)
  \/ place = "main"  /\ msg = v
  \/ place = "boot"  /\ boot /\ v > msg

Places == {"heap", "queue", "main", "boot"}

(* Every periodic timer is in exactly one place: in the heap, in EVENTS as *)
(* TimerTimeout, in main's hands to be armed again, or still to be armed   *)
(* at boot.  None is ever lost or doubled, and the task timer never leaves *)
(* the heap, so preemption never stops.                                    *)
TimerConservation ==
  /\ \A v \in Values : \E p \in Places :
       In(v, p) /\ \A q \in Places : In(v, q) => q = p
  /\ Armed(TASK_TIMER_VALUE)

(* add_timer never finds the heap at its capacity: the push of main, under *)
(* without_interrupts, allocates no memory.  The allocator's lock may be   *)
(* held by a preempted taskB, and spinning on it with the flag clear would *)
(* stop the machine.                                                       *)
HeapNeverGrows == pc = "adding" => Cardinality(timers) < HeapCap

(* No posted event is stranded: while the ring holds an unread event, an   *)
(* interrupt, a handler, a queued Xhci message or main is on its way to    *)
(* read it, in spite of Event Handler Busy suppressing interrupts.         *)
NoStrandedEvent ==
  ring > 0 => irqX \/ hpc = "xhci" \/ Queued(Xhci) \/ msg = Xhci

(* Under FairSpec, posted events are read: the loop wakes up even when the *)
(* interrupt came between the sti and the hlt, and reaches the event ring. *)
EventsRead == ring > 0 ~> pc = "drain"

(* Under FairSpec every periodic timer keeps firing and reaching main.     *)
TimersFire == \A v \in Values : []<>(pc = "read" /\ msg = v)

(* Under FairSpec the task timer keeps giving the CPU to both tasks.       *)
BothTasksRun == []<>(running = "main") /\ []<>(running = "taskB")
=============================================================================
