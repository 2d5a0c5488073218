------------------------- MODULE MessageQueueProofs -------------------------
(***************************************************************************)
(* Proofs about the kernel's message queue, for every set of messages and  *)
(* every capacity N: its fields stay in range and in agreement, and it     *)
(* implements the bounded queue of BoundedQueue.                           *)
(***************************************************************************)
EXTENDS MessageQueue, SequenceTheorems, TLAPS

(* The only arithmetic of the buffer: a position at most one lap ahead     *)
(* wraps by subtracting N (the % data.len() of push and pop).              *)
LEMMA Wrap ==
  ASSUME NEW x \in 0 .. 2 * N - 1
  PROVE  wrap(x) = IF x < N THEN x ELSE x - N
BY NAssumption DEF wrap

(* Positions a step apart, in the terms of push and pop.                   *)
LEMMA WrapStep ==
  ASSUME NEW p \in Slots, NEW c \in 0 .. N
  PROVE  /\ wrap(p + 1) \in Slots
         /\ c # N => wrap(wrap(p + c) + 1) = wrap(p + (c + 1))
         /\ c # 0 => wrap(p + c) = wrap(wrap(p + 1) + (c - 1))
<1>. USE NAssumption DEF Slots
<1>1. wrap(p + 1) = IF p + 1 < N THEN p + 1 ELSE p + 1 - N
  BY Wrap
<1>2. wrap(p + c) = IF p + c < N THEN p + c ELSE p + c - N
  BY Wrap
<1>3. wrap(p + 1) \in 0 .. N - 1 /\ wrap(p + c) \in 0 .. N - 1
  BY <1>1, <1>2
<1>4. ASSUME c # N PROVE wrap(wrap(p + c) + 1) = wrap(p + (c + 1))
  <2>1. wrap(p + (c + 1)) = IF p + (c + 1) < N THEN p + (c + 1) ELSE p + (c + 1) - N
    BY <1>4, Wrap
  <2>2. wrap(wrap(p + c) + 1) = IF wrap(p + c) + 1 < N THEN wrap(p + c) + 1
                                                     ELSE wrap(p + c) + 1 - N
    BY <1>3, Wrap
  <2>. QED  BY <1>2, <1>4, <2>1, <2>2
<1>5. ASSUME c # 0 PROVE wrap(p + c) = wrap(wrap(p + 1) + (c - 1))
  <2>1. wrap(wrap(p + 1) + (c - 1)) = IF wrap(p + 1) + (c - 1) < N THEN wrap(p + 1) + (c - 1)
                                                                 ELSE wrap(p + 1) + (c - 1) - N
    BY <1>3, <1>5, Wrap
  <2>. QED  BY <1>1, <1>2, <1>5, <2>1
<1>. QED  BY <1>3, <1>4, <1>5, Zenon

(* The invariant both theorems rest on: push and pop keep the positions in *)
(* the array, cnt within its length, and write_pos = read_pos + cnt.       *)
Inv == TypeOK /\ PositionsAgree

LEMMA InitInv == Init => Inv
<1>. SUFFICES ASSUME Init PROVE Inv
  BY Zenon
<1>1. TypeOK
  BY NAssumption, DefaultAssumption DEF Init, new, TypeOK, Slots
<1>2. PositionsAgree
  BY NAssumption, Wrap DEF Init, new, PositionsAgree
<1>. QED  BY <1>1, <1>2, Zenon DEF Inv

LEMMA StepInv == Inv /\ [Next]_vars => Inv'
<1>. SUFFICES ASSUME Inv, [Next]_vars PROVE Inv'
  BY Zenon
<1>0. /\ data \in [Slots -> Message] /\ read_pos \in Slots /\ write_pos \in Slots /\ cnt \in 0 .. N
      /\ N \in Nat \ {0} /\ write_pos = wrap(read_pos + cnt)
  BY NAssumption, Zenon DEF Inv, TypeOK, PositionsAgree
<1>1. ASSUME NEW msg \in Message, push(msg) PROVE Inv'
  <2>1. CASE cnt = N
    BY <1>1, <2>1, Zenon DEF push, Inv, TypeOK, PositionsAgree
  <2>2. CASE cnt # N
    <3>1. /\ data' \in [Slots -> Message] /\ read_pos' = read_pos /\ ret' = <<"Ok">>
          /\ cnt' = cnt + 1 /\ write_pos' = wrap(write_pos + 1)
      BY <1>0, <1>1, <2>2, Zenon DEF push
    <3>2. cnt' \in 0 .. N /\ write_pos' \in Slots
      BY <1>0, <2>2, <3>1, WrapStep
    <3>3. write_pos' = wrap(read_pos' + cnt')
      BY <1>0, <2>2, <3>1, WrapStep, Zenon
    <3>. QED  BY <1>0, <3>1, <3>2, <3>3, Zenon DEF Inv, TypeOK, PositionsAgree
  <2>. QED  BY <2>1, <2>2, Zenon
<1>2. CASE pop
  <2>1. CASE cnt = 0
    BY <1>0, <1>2, <2>1, Zenon DEF pop, Inv, TypeOK, PositionsAgree
  <2>2. CASE cnt # 0
    <3>1. /\ data' = data /\ write_pos' = write_pos /\ ret' = <<"Some", data[read_pos]>>
          /\ cnt' = cnt - 1 /\ read_pos' = wrap(read_pos + 1) /\ data[read_pos] \in Message
      BY <1>0, <1>2, <2>2, Zenon DEF pop
    <3>2. cnt' \in 0 .. N /\ read_pos' \in Slots
      BY <1>0, <2>2, <3>1, WrapStep
    <3>3. write_pos' = wrap(read_pos' + cnt')
      BY <1>0, <2>2, <3>1, WrapStep, Zenon
    <3>. QED  BY <1>0, <3>1, <3>2, <3>3, Zenon DEF Inv, TypeOK, PositionsAgree
  <2>. QED  BY <2>1, <2>2, Zenon
<1>3. CASE UNCHANGED vars
  BY <1>3, Zenon DEF vars, Inv, TypeOK, PositionsAgree
<1>. QED  BY <1>1, <1>2, <1>3, Zenon DEF Next

(* The fields of MessageQueue never leave their ranges and never disagree: *)
(* no index of push or pop is out of bounds, for any capacity.             *)
THEOREM FieldsAgree == Spec => [](TypeOK /\ PositionsAgree)
BY InitInv, StepInv, PTL DEF Spec, Inv

-----------------------------------------------------------------------------
(* What the abstraction reads off the fields: c messages, the i-th of them *)
(* i - 1 slots past the read position.                                     *)
LEMMA HeldMessages ==
  ASSUME NEW d \in [Slots -> Message], NEW r \in Slots, NEW c \in 0 .. N
  PROVE  LET s == [i \in 1 .. c |-> d[wrap(r + i - 1)]]
         IN  /\ s \in Seq(Message)
             /\ Len(s) = c
             /\ \A i \in 1 .. c : s[i] = d[wrap(r + i - 1)]
<1>1. \A i \in 1 .. c : wrap(r + i - 1) \in Slots
  BY NAssumption, Wrap DEF Slots
<1>. QED  BY <1>1, NAssumption

(* The sequence of held messages is what the bounded queue starts from.    *)
LEMMA InitQueue == Init => Queue!Init
BY DEF Init, new, Contents, Queue!Init

(* A successful push appends to the held messages, a refused one changes   *)
(* nothing.                                                                *)
LEMMA PushQueue ==
  ASSUME Inv, Inv', NEW msg \in Message, push(msg)
  PROVE  Queue!Push(msg)
<1>. USE NAssumption DEF Inv, TypeOK
<1>1. /\ Contents \in Seq(Message) /\ Len(Contents) = cnt
      /\ \A i \in 1 .. cnt : Contents[i] = data[wrap(read_pos + i - 1)]
  BY HeldMessages, Zenon DEF Contents
<1>2. CASE cnt = N
  BY <1>1, <1>2, Zenon DEF push, Queue!Push, Contents
<1>3. CASE cnt # N
  <2>1. /\ cnt' = cnt + 1 /\ read_pos' = read_pos
        /\ data' = [data EXCEPT ![write_pos] = msg]
    BY <1>3, Zenon DEF push
  <2>2. /\ Contents' \in Seq(Message) /\ Len(Contents') = cnt + 1
        /\ \A i \in 1 .. cnt + 1 : Contents'[i] = data'[wrap(read_pos + i - 1)]
    BY <2>1, HeldMessages DEF Contents
  <2>3. Contents'[cnt + 1] = msg
    BY <2>1, <2>2 DEF PositionsAgree
  <2>4. ASSUME NEW i \in 1 .. cnt
        PROVE  Contents'[i] = Contents[i]
    <3>0. read_pos \in 0 .. N - 1 /\ cnt \in 0 .. N - 1 /\ write_pos = wrap(read_pos + cnt)
      BY <1>3 DEF PositionsAgree, Slots
    <3>a. read_pos + i - 1 \in 0 .. 2 * N - 1 /\ read_pos + cnt \in 0 .. 2 * N - 1
      BY <3>0
    <3>b. /\ wrap(read_pos + i - 1) = IF read_pos + i - 1 < N THEN read_pos + i - 1
                                                            ELSE read_pos + i - 1 - N
          /\ write_pos = IF read_pos + cnt < N THEN read_pos + cnt ELSE read_pos + cnt - N
      BY <3>0, <3>a, Wrap
    <3>1. wrap(read_pos + i - 1) # write_pos /\ wrap(read_pos + i - 1) \in Slots
      BY <3>0, <3>b DEF Slots
    <3>. QED  BY <1>1, <2>1, <2>2, <3>1
  <2>5. Contents' = Append(Contents, msg)
    BY <1>1, <2>2, <2>3, <2>4, AppendProperties, SeqEqual
  <2>. QED  BY <1>1, <1>3, <2>5 DEF push, Queue!Push
<1>. QED  BY <1>2, <1>3, Zenon

(* A pop hands out the oldest held message and keeps the rest in order.    *)
LEMMA PopQueue ==
  ASSUME Inv, Inv', pop
  PROVE  Queue!Pop
<1>. USE NAssumption DEF Inv, TypeOK
<1>1. /\ Contents \in Seq(Message) /\ Len(Contents) = cnt
      /\ \A i \in 1 .. cnt : Contents[i] = data[wrap(read_pos + i - 1)]
  BY HeldMessages, Zenon DEF Contents
<1>2. CASE cnt = 0
  BY <1>1, <1>2 DEF pop, Queue!Pop, Contents
<1>3. CASE cnt # 0
  <2>1. cnt' = cnt - 1 /\ read_pos' = wrap(read_pos + 1) /\ data' = data
    BY <1>3, Zenon DEF pop
  <2>2. /\ Contents' \in Seq(Message) /\ Len(Contents') = cnt - 1
        /\ \A i \in 1 .. cnt - 1 : Contents'[i] = data[wrap(read_pos' + i - 1)]
    BY <2>1, HeldMessages DEF Contents
  <2>3. ASSUME NEW i \in 1 .. cnt - 1
        PROVE  Contents'[i] = Contents[i + 1]
    <3>1. wrap(read_pos' + i - 1) = wrap(read_pos + (i + 1) - 1)
      BY <1>3, <2>1, Wrap DEF Slots
    <3>2. i + 1 \in 1 .. cnt
      OBVIOUS
    <3>3. Contents[i + 1] = data[wrap(read_pos + (i + 1) - 1)]
      BY <1>1, <3>2, Zenon
    <3>. QED  BY <2>2, <3>1, <3>3, Zenon
  <2>4. Contents # <<>> /\ Head(Contents) = data[read_pos]
    <3>1. Contents # <<>> /\ Head(Contents) = Contents[1]
      BY <1>1, <1>3
    <3>2. wrap(read_pos + 1 - 1) = read_pos
      BY Wrap DEF Slots
    <3>. QED  BY <1>1, <1>3, <3>1, <3>2
  <2>5. Contents' = Tail(Contents)
    BY <1>1, <2>2, <2>3, <2>4, HeadTailProperties, SeqEqual
  <2>. QED  BY <1>3, <2>4, <2>5, Zenon DEF pop, Queue!Pop
<1>. QED  BY <1>2, <1>3, Zenon

(* The circular buffer of MessageQueue implements a bounded FIFO queue:    *)
(* every push and pop of the code is a push or pop of BoundedQueue on the  *)
(* sequence of held messages, whatever the capacity.                       *)
THEOREM QueueRefinement == Spec => ImplementsQueue
<1>1. Inv /\ [Next]_vars => [Queue!Next]_(Queue!vars)
  <2>. SUFFICES ASSUME Inv, [Next]_vars PROVE [Queue!Next]_(Queue!vars)
    BY Zenon
  <2>1. CASE UNCHANGED vars
    BY <2>1, Zenon DEF vars, Queue!vars, Contents
  <2>2. CASE pop
    BY <2>2, StepInv, PopQueue, Zenon DEF Queue!Next, Next
  <2>3. ASSUME NEW msg \in Message, push(msg) PROVE Queue!Next
    BY <2>3, StepInv, PushQueue, Zenon DEF Queue!Next, Next
  <2>. QED  BY <2>1, <2>2, <2>3, Zenon DEF Next
<1>. QED  BY <1>1, InitInv, StepInv, InitQueue, PTL DEF Spec, ImplementsQueue, Queue!Spec
=============================================================================
