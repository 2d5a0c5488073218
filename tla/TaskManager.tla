---------------------------- MODULE TaskManager ----------------------------
(***************************************************************************)
(* TaskManager of kernel/src/task.rs: the VecDeque of task contexts and    *)
(* the assembly of switch_context, instruction by instruction.             *)
(* switch_tasks runs in lapic_interrupt_handler with interrupts off, so a  *)
(* switch is one step.  A VecDeque is a ring of Cap slots; moving a        *)
(* context from its front to its back moves it to another slot.            *)
(***************************************************************************)
EXTENDS Integers, Sequences, Functions, FiniteSetsExt

CONSTANTS
  Tasks,    \* the tasks in the order they were pushed, the running one first
  Cap,      \* the capacity of the VecDeque
  Mutable   \* the registers the modelled steps of a task write

ASSUME TasksAssumption ==
  /\ Cap \in Nat /\ Tasks \in Seq(Range(Tasks)) /\ Len(Tasks) \in 2 .. Cap
  /\ IsInjective(Tasks)

\* The fields of TaskContext, in the order repr(C) lays them out, a word each
\* (fxsave_area is counted as the last word).
Fields == <<"cr3", "rip", "rflags", "rsvd1", "cs", "ss", "fs", "gs",
            "rax", "rbx", "rcx", "rdx", "rdi", "rsi", "rsp", "rbp",
            "r8", "r9", "r10", "r11", "r12", "r13", "r14", "r15", "fxsave_area">>

Words == 0 .. Len(Fields) - 1
Registers == {Fields[i] : i \in 1 .. Len(Fields)} \ {"rsvd1"}

\* A value is the task and the register it was written to, and a bit that a
\* step of the task flips.  Zero is the 0 of TaskContext::new.
Value == Range(Tasks) \X Registers \X {0, 1}
Zero == <<"zero", "zero", 0>>

ASSUME MutableAssumption == Mutable \subseteq Registers

VARIABLES
  slots, head,  \* the VecDeque's buffer, and the slot of its front
  cpu,          \* the registers of the CPU
  order         \* ghost: the task each context belongs to, front first

vars == <<slots, head, cpu, order>>

\* The context a task starts from: TaskContext::new, with the fields that
\* KernelMain2 then sets.
start(t) == [w \in Words |-> IF Fields[w + 1] = "rsvd1" THEN Zero ELSE <<t, Fields[w + 1], 0>>]
new == [w \in Words |-> Zero]

n == Len(Tasks)
slot(i) == (head + i) % Cap

\* init_task_manager: the front is main's, which runs; its context is empty.
\* The slots past the last context are never read before they are written.
Init ==
  /\ order = Tasks
  /\ head = 0
  /\ slots = [s \in 0 .. Cap - 1 |-> IF s \in 1 .. n - 1 THEN start(Tasks[s + 1]) ELSE new]
  /\ cpu = [r \in Registers |-> <<Tasks[1], r, 0>>]

-----------------------------------------------------------------------------
(* switch_context.  Offsets are in words.  rip stands for the return       *)
(* address at [rsp], and rsp for its value after the return.               *)

mov_to(word, r) == <<"store", word, r>>
mov_reg(r, from) == <<"copy", r, from>>
mov_from(r, word) == <<"load", r, word>>

\* Wrong: rax is saved after it has been used to fetch rsp.
save_rax_late == <<
  mov_to(9, "rbx"), mov_to(10, "rcx"), mov_to(11, "rdx"), mov_to(12, "rdi"), mov_to(13, "rsi"),
  mov_reg("rax", "rsp"), mov_to(14, "rax"), mov_to(8, "rax"), mov_to(15, "rbp")>>

save_general == <<
  mov_to(8, "rax"), mov_to(9, "rbx"), mov_to(10, "rcx"), mov_to(11, "rdx"),
  mov_to(12, "rdi"), mov_to(13, "rsi"),
  mov_reg("rax", "rsp"), mov_to(14, "rax"), mov_to(15, "rbp")>>

save_rest == <<
  mov_to(16, "r8"), mov_to(17, "r9"), mov_to(18, "r10"), mov_to(19, "r11"),
  mov_to(20, "r12"), mov_to(21, "r13"), mov_to(22, "r14"), mov_to(23, "r15"),
  mov_reg("rax", "cr3"), mov_to(0, "rax"),
  mov_reg("rax", "rip"), mov_to(1, "rax"),
  mov_to(2, "rflags"),
  mov_reg("rax", "cs"), mov_to(4, "rax"), mov_reg("rbx", "ss"), mov_to(5, "rbx"),
  mov_reg("rcx", "fs"), mov_to(6, "rcx"), mov_reg("rdx", "gs"), mov_to(7, "rdx"),
  mov_to(24, "fxsave_area")>>

restore == <<
  mov_from("fxsave_area", 24),
  mov_from("rax", 0), mov_reg("cr3", "rax"),
  mov_from("rax", 6), mov_reg("fs", "rax"), mov_from("rax", 7), mov_reg("gs", "rax"),
  mov_from("rax", 8), mov_from("rbx", 9), mov_from("rcx", 10), mov_from("rdx", 11),
  mov_from("rsi", 13), mov_from("rbp", 15),
  mov_from("r8", 16), mov_from("r9", 17), mov_from("r10", 18), mov_from("r11", 19),
  mov_from("r12", 20), mov_from("r13", 21), mov_from("r14", 22), mov_from("r15", 23),
  mov_from("rdi", 12)>>

program == save_general \o save_rest \o restore

\* Between the two: the words of next_ctx that are pushed, the last on top; and
\* the registers that iretq then pops, in the order they come off the stack.
pushed == <<5, 14, 2, 4, 1>>
iretq == <<"rip", "cs", "rflags", "rsp", "ss">>

\* The instructions before the i-th that write register r, and those that
\* write word w of the context being saved.
writers(i, r) == {j \in 1 .. i - 1 : program[j][1] \in {"copy", "load"} /\ program[j][2] = r}
stores(w) == {j \in 1 .. Len(program) : program[j][1] = "store" /\ program[j][2] = w}

\* The registers when the i-th instruction starts, given those, reg[j], of the
\* instructions before it.
registers(reg, i, next_ctx) ==
  [r \in Registers |->
     IF writers(i, r) = {} THEN cpu[r]
     ELSE LET j == Max(writers(i, r))
          IN  IF program[j][1] = "load" THEN next_ctx[program[j][3]] ELSE reg[j][program[j][3]]]

execution(next_ctx) ==
  LET reg[i \in 1 .. Len(program) + 1] == registers(reg, i, next_ctx) IN reg

\* What the straight-line program leaves in the context and in the registers.
switch_context(next_ctx, current_ctx) ==
  LET reg == execution(next_ctx)
      stored(w) == LET j == Max(stores(w)) IN reg[j][program[j][3]]
      place(r) == {i \in 1 .. Len(iretq) : iretq[i] = r}
  IN  [ctx |-> [w \in Words |-> IF stores(w) = {} THEN current_ctx[w] ELSE stored(w)],
       cpu |-> [r \in Registers |->
                  IF place(r) = {} THEN reg[Len(program) + 1][r]
                  ELSE next_ctx[pushed[Len(pushed) + 1 - Max(place(r))]]]]

\* as_mut_slices: front.first, and tail.last or front.last if tail is empty.
last == slot(n)

\* pop_front and push_back move the context of the running task to the back;
\* its registers are then saved there and those of the new front loaded.
switch_tasks ==
  LET moved == [slots EXCEPT ![last] = slots[head]]
      m == switch_context(moved[slot(1)], moved[last])
  IN  /\ slots' = [moved EXCEPT ![last] = m.ctx]
      /\ cpu' = m.cpu
      /\ head' = slot(1)
      /\ order' = Append(Tail(order), Head(order))

\* A step of the running task.
Execute(r) ==
  /\ cpu' = [cpu EXCEPT ![r] = <<order[1], r, 1 - @[3]>>]
  /\ UNCHANGED <<slots, head, order>>

Next == switch_tasks \/ \E r \in Mutable : Execute(r)

Spec == Init /\ [][Next]_vars

-----------------------------------------------------------------------------
(* The type invariant.                                                     *)
TypeOK ==
  /\ slots \in [0 .. Cap - 1 -> [Words -> Value \union {Zero}]]
  /\ head \in 0 .. Cap - 1
  /\ cpu \in [Registers -> Value]
  /\ Len(order) = n

word == [r \in Registers |-> CHOOSE w \in Words : Fields[w + 1] = r]

\* The registers of task t: in the CPU while it runs, else in its context.
SeenBy(t) ==
  LET i == CHOOSE i \in 1 .. n : order[i] = t
  IN  IF i = 1 THEN cpu ELSE [r \in Registers |-> slots[slot(i - 1)][word[r]]]

Virtual == INSTANCE VirtualTasks WITH
             regs <- [t \in Range(Tasks) |-> SeenBy(t)]

(* Preemption is invisible: every register a task sees is the one it last  *)
(* wrote, however often the deque has wrapped, and the tasks take turns.   *)
ImplementsTasks == Virtual!Spec
=============================================================================
