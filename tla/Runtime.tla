------------------------------- MODULE Runtime -------------------------------
(***************************************************************************)
(* kernel/src/usb/runtime.rs, the async runtime of the USB driver: channels *)
(* with one stored waker each, tasks that are queued when they are woken,  *)
(* and the executor that main runs until the queue is empty. A task keeps  *)
(* running until what it awaits is not there. The oneshot channels are the *)
(* futures crate's; a task awaits at most one of them at a time.           *)
(***************************************************************************)
EXTENDS Integers, Sequences

CONSTANTS
  Task,       \* the futures that are ever spawned
  Channel,    \* the channels between them
  None

VARIABLES
  task_queue,   \* the channel of the executor
  running,      \* the task being polled, or None
  queue,        \* the messages in each channel
  waker,        \* the waker stored in each channel
  oneshot,      \* what each task's oneshot::Receiver holds
  pc            \* where each task is

executor == <<task_queue, running>>
channels == <<queue, waker>>
runtime == <<task_queue, running, queue, waker, oneshot, pc>>

NoOneshot == [state |-> "none"]

Init_runtime(spawned, start) ==
  /\ task_queue = spawned
  /\ running = None
  /\ queue = [c \in Channel |-> <<>>]
  /\ waker = [c \in Channel |-> None]
  /\ oneshot = [t \in Task |-> NoOneshot]
  /\ pc = start

At(t, label) == running = t /\ pc[t] = label
Goto(t, label) == pc' = [pc EXCEPT ![t] = label]

-----------------------------------------------------------------------------
wake(t) == task_queue' = IF t = None THEN task_queue ELSE Append(task_queue, t)

\* Spawner::spawn: the new task is sent to the executor.
spawn_task(t) == task_queue' = Append(task_queue, t)

\* Wrong: the waker is dropped, not woken.
send_silently(c, v) ==
  /\ queue' = [queue EXCEPT ![c] = Append(@, v)]
  /\ waker' = [waker EXCEPT ![c] = None]
  /\ UNCHANGED task_queue

send(c, v) ==
  /\ queue' = [queue EXCEPT ![c] = Append(@, v)]
  /\ waker' = [waker EXCEPT ![c] = None]
  /\ wake(waker[c])

\* Recv::poll with a message there.
message(c) == Head(queue[c])
receive(c) ==
  /\ queue[c] # <<>>
  /\ queue' = [queue EXCEPT ![c] = Tail(@)]
  /\ UNCHANGED waker

\* Recv::poll with none: the task leaves its waker and is not run again before it is woken.
pending(t, c) ==
  /\ queue[c] = <<>>
  /\ waker' = [waker EXCEPT ![c] = t]
  /\ running' = None
  /\ UNCHANGED <<task_queue, queue, oneshot, pc>>

\* Awaiting a new oneshot::Receiver for the completion of trb.
await(t, trb) ==
  /\ oneshot' = [oneshot EXCEPT ![t] = [state |-> "open", want |-> trb]]
  /\ running' = None
  /\ UNCHANGED <<task_queue, channels>>

\* oneshot::Sender::send; a receiver that was dropped (None here) gets nothing.
complete(t, result) ==
  /\ oneshot' = IF t = None THEN oneshot
                ELSE [oneshot EXCEPT ![t] = [state |-> "sent", want |-> @.want, got |-> result]]
  /\ wake(t)

\* The awaited oneshot has its result.
resumed(t, label) == At(t, label) /\ oneshot[t].state = "sent"
got(t) == oneshot[t].got
take(t) == oneshot' = [oneshot EXCEPT ![t] = NoOneshot]

\* The future of t returns; Task::exec takes it out of its slot.
finish(t) ==
  /\ running' = None
  /\ Goto(t, "done")
  /\ take(t)
  /\ UNCHANGED <<task_queue, channels>>

\* process_next_task
exec ==
  /\ running = None /\ task_queue # <<>>
  /\ running' = Head(task_queue)
  /\ task_queue' = Tail(task_queue)
  /\ UNCHANGED <<channels, oneshot, pc>>

has_next_task == running # None \/ task_queue # <<>>
=============================================================================
