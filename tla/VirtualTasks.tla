---------------------------- MODULE VirtualTasks ----------------------------
(***************************************************************************)
(* What preemption promises the tasks: each has registers of its own that  *)
(* only its own steps change, and the tasks take turns in a fixed order.   *)
(***************************************************************************)
EXTENDS Integers, Sequences

CONSTANTS
  Tasks,      \* the tasks in the order of their turns, the running one first
  Registers,
  Value       \* what they hold

VARIABLES
  order,  \* the tasks, the running one first
  regs    \* regs[t][r]: register r as task t sees it

vars == <<order, regs>>

Init ==
  /\ order = Tasks
  /\ \A i \in 1 .. Len(Tasks) : regs[Tasks[i]] \in [Registers -> Value]

Execute ==
  /\ DOMAIN regs' = DOMAIN regs
  /\ regs'[order[1]] \in [Registers -> Value]
  /\ \A t \in DOMAIN regs \ {order[1]} : regs'[t] = regs[t]
  /\ UNCHANGED order

Switch ==
  /\ order' = Append(Tail(order), Head(order))
  /\ UNCHANGED regs

Next == Switch \/ Execute

Spec == Init /\ [][Next]_vars
=============================================================================
