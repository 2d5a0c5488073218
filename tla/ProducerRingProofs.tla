------------------------- MODULE ProducerRingProofs -------------------------
(***************************************************************************)
(* Proofs about the ring of TRBs, for every size of at least three slots   *)
(* and every set of TRBs: its indices stay in range, it implements the     *)
(* queue of TrbQueue, and a slot is never reused before its event.         *)
(***************************************************************************)
EXTENDS ProducerRing, SequenceTheorems, TLAPS

\* The cycle bits say which slots the driver has written on its current lap.
CycleInv ==
  /\ \A i \in Slots : cycle[i] = IF i < enque THEN cycle_state ELSE 1 - cycle_state
  /\ cycle[Last] = 1 - cycle_state

\* The controller is on the driver's lap and not past it, or one lap behind.
LapInv ==
  \/ ccs = cycle_state /\ at <= enque
  \/ ccs = 1 - cycle_state /\ enque < at

\* The controller is between what the driver knows and what it has pushed.
OrderInv == ahead(deque, head) <= ahead(deque, enque)

\* Events name executed slots, in the order of execution.
ReportInv ==
  /\ \A i \in 1 .. Len(reports) : ahead(deque, reports[i]) < ahead(deque, head)
  /\ \A i, j \in 1 .. Len(reports) :
       i < j => ahead(deque, reports[i]) < ahead(deque, reports[j])

IInv == TypeOK /\ CycleInv /\ LapInv /\ OrderInv /\ ReportInv

(* The distance between two slots is less than the number of slots.        *)
LEMMA AheadRange ==
  ASSUME NEW a \in Slots, NEW b \in Slots
  PROVE  ahead(a, b) \in Nat /\ ahead(a, b) < Last
BY SizeAssumption DEF ahead, Slots, Last

(* What moving deque past slot h does to the distances of later slots.     *)
LEMMA AheadShift ==
  ASSUME NEW d \in Slots, NEW h \in Slots, NEW x \in Slots, ahead(d, h) < ahead(d, x)
  PROVE  ahead(next_ptr(h), x) = ahead(d, x) - ahead(d, h) - 1
BY SizeAssumption DEF ahead, next_ptr, Slots, Last

(* Unless the ring is full, a push makes the distance to enque one more.   *)
LEMMA AheadNext ==
  ASSUME NEW d \in Slots, NEW e \in Slots, next_ptr(e) # d
  PROVE  ahead(d, next_ptr(e)) = ahead(d, e) + 1
BY SizeAssumption DEF ahead, next_ptr, Slots, Last

LEMMA InitIInv == Init => IInv
BY SizeAssumption
DEF Init, new, IInv, TypeOK, CycleInv, LapInv, OrderInv, ReportInv, Slots, Last, Bit, ahead, head

\* A push that is not refused.
Accept(trb) ==
  /\ ~is_full
  /\ data' = [data EXCEPT ![enque] = trb]
  /\ advance_enque_ptr([cycle EXCEPT ![enque] = cycle_state])
  /\ ret' = "Ok"
  /\ UNCHANGED <<deque, controller>>

LEMMA PushStep ==
  ASSUME IInv, NEW trb \in TRB, Accept(trb)
  PROVE  IInv' /\ enque' = next_ptr(enque) /\ UNCHANGED head
<1>. USE SizeAssumption DEF IInv, TypeOK, Slots, Last, Bit
<1>0. UNCHANGED <<deque, at, ccs, exec, reports>>
  BY Zenon DEF Accept, controller
<1>1. enque' = next_ptr(enque) /\ UNCHANGED head
  BY <1>0, Zenon DEF Accept, advance_enque_ptr, next_ptr, head
<1>2. TypeOK'
  <2>1. enque' \in Slots /\ cycle_state' \in Bit
    BY DEF Accept, advance_enque_ptr
  <2>2. cycle' \in [0 .. Last -> Bit]
    BY Zenon DEF Accept, advance_enque_ptr
  <2>3. data' \in [Slots -> TRB \cup {NoTrb}]
    BY Zenon DEF Accept
  <2>. QED  BY <1>0, <2>1, <2>2, <2>3, Zenon DEF Accept
<1>3. CycleInv'
  <2>1. CASE enque + 1 # Last
    BY <2>1 DEF Accept, advance_enque_ptr, CycleInv
  <2>2. CASE enque + 1 = Last
    BY <2>2 DEF Accept, advance_enque_ptr, CycleInv
  <2>. QED  BY <2>1, <2>2, Zenon
<1>4. LapInv' /\ OrderInv'
  <2>1. next_ptr(enque) # deque /\ head \in Slots
    BY DEF Accept, is_full, head
  <2>2. OrderInv'
    <3>1. ahead(deque, enque)' = ahead(deque, enque) + 1
      BY <1>0, <1>1, <2>1, AheadNext, Zenon DEF ahead
    <3>2. ahead(deque, head)' = ahead(deque, head)
      BY <1>0, <1>1, Zenon DEF ahead
    <3>3. ahead(deque, enque) \in Nat /\ ahead(deque, head) \in Nat
      BY <2>1, AheadRange, Zenon
    <3>. QED  BY <3>1, <3>2, <3>3 DEF OrderInv
  <2>3. LapInv'
    <3>1. CASE enque + 1 # Last
      <4>1. enque' = enque + 1 /\ cycle_state' = cycle_state
        BY <3>1, Zenon DEF Accept, advance_enque_ptr
      <4>. QED  BY <1>0, <3>1, <4>1 DEF LapInv
    <3>2. CASE enque + 1 = Last
      <4>1. enque' = 0 /\ cycle_state' = 1 - cycle_state
        BY <3>2, Zenon DEF Accept, advance_enque_ptr
      \* Were the controller still at the start of the lap, the ring would be full.
      <4>2. at # Last /\ at # 0
        BY <2>1, <3>2 DEF next_ptr, OrderInv, ahead, head
      <4>. QED  BY <1>0, <3>2, <4>1, <4>2 DEF LapInv
    <3>. QED  BY <3>1, <3>2, Zenon
  <2>. QED  BY <2>2, <2>3, Zenon
<1>5. ReportInv'
  BY <1>0, <1>1, Zenon DEF ReportInv, ahead
<1>. QED  BY <1>1, <1>2, <1>3, <1>4, <1>5, Zenon

LEMMA AckStep ==
  ASSUME IInv, set_deque_ptr
  PROVE  /\ IInv'
         /\ ahead(deque, head)' \in 0 .. ahead(deque, head) - 1
<1>. USE SizeAssumption DEF IInv, TypeOK
<1>0. UNCHANGED <<data, cycle, cycle_state, enque, ret, at, ccs, exec, head>>
  BY Zenon DEF set_deque_ptr, handled, head
<1>. DEFINE h == reports[1]
            n == Len(reports)
<1>1. /\ n \in Nat \ {0} /\ h \in Slots /\ deque' = next_ptr(h)
      /\ reports' \in Seq(Slots) /\ Len(reports') = n - 1
      /\ \A i \in 1 .. n - 1 : reports'[i] = reports[i + 1]
  BY HeadTailProperties DEF set_deque_ptr, handled
<1>2. /\ \A i \in 1 .. n : reports[i] \in Slots
      /\ \A i \in 1 .. n : ahead(deque, reports[i]) < ahead(deque, head)
      /\ \A i, j \in 1 .. n : i < j => ahead(deque, reports[i]) < ahead(deque, reports[j])
  BY DEF ReportInv
<1>. HIDE DEF n
<1>3. /\ ahead(deque, h) < ahead(deque, head)
      /\ head \in Slots /\ deque' \in Slots
  <2>1. 1 \in 1 .. n
    BY <1>1
  <2>2. head \in Slots
    BY DEF head, Slots, Last
  <2>3. \A p \in Slots : next_ptr(p) \in Slots
    BY ONLY SizeAssumption DEF next_ptr, Slots, Last
  <2>. QED  BY <1>1, <1>2, <2>1, <2>2, <2>3, Zenon
<1>4. ASSUME NEW i \in 2 .. n PROVE ahead(deque, h) < ahead(deque, reports[i])
  <2>1. 1 \in 1 .. n /\ i \in 1 .. n /\ 1 < i
    BY <1>1
  <2>. QED  BY <1>2, <2>1, Zenon
<1>. HIDE DEF h
<1>5. /\ ahead(deque', head) = ahead(deque, head) - ahead(deque, h) - 1
      /\ ahead(deque, head) \in Nat /\ ahead(deque, h) \in Nat
  BY <1>1, <1>3, AheadShift, AheadRange, Zenon
<1>6. TypeOK'
  BY <1>0, <1>1, <1>3, Zenon
<1>7. CycleInv' /\ LapInv'
  BY <1>0, Zenon DEF CycleInv, LapInv
<1>8. OrderInv'
  <2>1. ahead(deque, h) < ahead(deque, enque) /\ ahead(deque, enque) \in Nat
    <3>1. ahead(deque, enque) \in Nat
      BY AheadRange, Zenon
    <3>. QED  BY <1>3, <1>5, <3>1 DEF OrderInv
  <2>2. ahead(deque', enque) = ahead(deque, enque) - ahead(deque, h) - 1
    BY <1>1, <2>1, AheadShift, Zenon
  <2>. QED  BY <1>0, <1>5, <2>1, <2>2 DEF OrderInv
<1>9. ReportInv'
  <2>1. ASSUME NEW i \in 1 .. n - 1
        PROVE  /\ i + 1 \in 2 .. n /\ i + 1 \in 1 .. n
               /\ reports'[i] = reports[i + 1]
               /\ ahead(deque, reports[i + 1]) \in Nat
               /\ ahead(deque', reports'[i]) = ahead(deque, reports[i + 1]) - ahead(deque, h) - 1
    <3>1. i + 1 \in 2 .. n /\ i + 1 \in 1 .. n
      BY <1>1
    <3>2. reports'[i] = reports[i + 1] /\ reports[i + 1] \in Slots
      BY <1>1, <1>2, <3>1, Zenon
    <3>3. ahead(deque, h) < ahead(deque, reports[i + 1])
      BY <1>4, <3>1, Zenon
    <3>4. ahead(deque, reports[i + 1]) \in Nat
      BY <3>2, AheadRange, Zenon
    <3>5. ahead(deque', reports'[i]) = ahead(deque, reports[i + 1]) - ahead(deque, h) - 1
      BY <1>1, <3>2, <3>3, AheadShift
    <3>. QED  BY <3>1, <3>2, <3>4, <3>5, Zenon
  <2>2. ASSUME NEW i \in 1 .. n - 1
        PROVE  ahead(deque', reports'[i]) < ahead(deque', head')
    BY <1>0, <1>2, <1>5, <2>1
  <2>3. ASSUME NEW i \in 1 .. n - 1, NEW j \in 1 .. n - 1, i < j
        PROVE  ahead(deque', reports'[i]) < ahead(deque', reports'[j])
    <3>1. ahead(deque, reports[i + 1]) < ahead(deque, reports[j + 1])
      BY <1>1, <1>2, <2>1, <2>3
    <3>2. /\ ahead(deque, reports[i + 1]) \in Nat
          /\ ahead(deque', reports'[i]) = ahead(deque, reports[i + 1]) - ahead(deque, h) - 1
      BY <2>1, Zenon
    <3>3. /\ ahead(deque, reports[j + 1]) \in Nat
          /\ ahead(deque', reports'[j]) = ahead(deque, reports[j + 1]) - ahead(deque, h) - 1
      BY <2>1, Zenon
    <3>. QED  BY <1>5, <3>1, <3>2, <3>3
  <2>. QED  BY <1>1, <2>2, <2>3, Zenon DEF ReportInv
<1>10. ahead(deque, head)' \in 0 .. ahead(deque, head) - 1
  <2>1. ahead(deque', head) \in Nat
    BY <1>3, AheadRange, Zenon
  <2>. QED  BY <1>0, <1>5, <2>1
<1>. QED  BY <1>6, <1>7, <1>8, <1>9, <1>10, Zenon

LEMMA ExecuteStep ==
  ASSUME IInv, Execute
  PROVE  /\ IInv'
         /\ head = at /\ head' = next_ptr(at) /\ at # enque
         /\ ahead(deque, head)' = ahead(deque, head) + 1
<1>. USE SizeAssumption DEF IInv, TypeOK, Slots, Last, Bit
<1>0. UNCHANGED <<data, cycle, cycle_state, enque, deque, ret, ccs>> /\ at \in Slots
  BY DEF Execute, driver
<1>1. head = at /\ head' = next_ptr(at) /\ at # enque
  <2>1. at # enque
    BY DEF Execute, CycleInv, LapInv
  <2>. QED  BY <2>1, Zenon DEF Execute, head, next_ptr
<1>2. ahead(deque, head)' = ahead(deque, head) + 1 /\ OrderInv'
  BY <1>0, <1>1 DEF OrderInv, ahead, next_ptr
<1>3. TypeOK'
  <2>1. reports' \in Seq(Slots)
    <3>. HIDE DEF Slots, Last
    <3>1. Append(reports, at) \in Seq(Slots)
      BY <1>0
    <3>. QED  BY <3>1, Zenon DEF Execute
  <2>2. exec' \in TRB \cup {NoTrb} /\ at' \in 0 .. Last
    BY <1>0 DEF Execute
  <2>. QED  BY <1>0, <2>1, <2>2, Zenon
<1>4. CycleInv' /\ LapInv'
  <2>1. LapInv'
    BY <1>0, <1>1 DEF Execute, LapInv
  <2>. QED  BY <1>0, <2>1, Zenon DEF CycleInv
<1>5. ReportInv'
  <2>. DEFINE n == Len(reports)
  <2>. HIDE DEF Slots, Last
  <2>0. /\ n \in Nat
        /\ \A i \in 1 .. n : reports[i] \in Slots /\ ahead(deque, reports[i]) < ahead(deque, at)
        /\ \A i, j \in 1 .. n : i < j => ahead(deque, reports[i]) < ahead(deque, reports[j])
    BY <1>1 DEF ReportInv
  <2>. HIDE DEF n
  <2>1. /\ \A i \in 1 .. n : ahead(deque, reports[i]) \in Int
        /\ ahead(deque, at) \in Int /\ ahead(deque', head') = ahead(deque, at) + 1
    <3>1. \A i \in 1 .. n : ahead(deque, reports[i]) \in Int
      BY <2>0, AheadRange
    <3>2. ahead(deque, at) \in Int
      BY <1>0, AheadRange
    <3>. QED  BY <1>0, <1>1, <1>2, <3>1, <3>2, Zenon
  <2>2. CASE reports' = reports
    BY <1>0, <2>0, <2>1, <2>2 DEF ReportInv, n
  <2>3. CASE reports' = Append(reports, at)
    <3>1. /\ Len(reports') = n + 1 /\ reports'[n + 1] = at
          /\ \A i \in 1 .. n : reports'[i] = reports[i]
      BY <1>0, <2>3, AppendProperties DEF n
    <3>2. ASSUME NEW i \in 1 .. n + 1
          PROVE  ahead(deque', reports'[i]) < ahead(deque', head')
      BY <1>0, <2>0, <2>1, <3>1
    <3>3. ASSUME NEW i \in 1 .. n + 1, NEW j \in 1 .. n + 1, i < j
          PROVE  ahead(deque', reports'[i]) < ahead(deque', reports'[j])
      <4>1. i \in 1 .. n
        BY <2>0, <3>3
      <4>. QED  BY <1>0, <2>0, <3>1, <3>3, <4>1
    <3>. QED  BY <3>1, <3>2, <3>3, Zenon DEF ReportInv
  <2>. QED  BY <2>2, <2>3, Zenon DEF Execute
<1>. QED  BY <1>1, <1>2, <1>3, <1>4, <1>5, Zenon

LEMMA LinkStep ==
  ASSUME IInv, FollowLink
  PROVE  IInv' /\ UNCHANGED head
<1>. USE SizeAssumption DEF IInv, TypeOK, Slots, Last, Bit
<1>0. UNCHANGED <<data, cycle, cycle_state, enque, deque, ret, exec, reports>>
  BY Zenon DEF FollowLink, driver
<1>1. UNCHANGED head
  BY Zenon DEF FollowLink, head
<1>2. TypeOK' /\ CycleInv' /\ LapInv'
  BY <1>0 DEF FollowLink, CycleInv, LapInv
<1>3. OrderInv' /\ ReportInv'
  BY <1>0, <1>1, Zenon DEF OrderInv, ReportInv, ahead
<1>. QED  BY <1>1, <1>2, <1>3, Zenon

\* A refused push.
Refuse ==
  /\ is_full
  /\ ret' = "RingIsFull"
  /\ UNCHANGED <<data, cycle, cycle_state, enque, deque, controller>>

LEMMA RefuseStep ==
  ASSUME IInv, Refuse
  PROVE  IInv'
BY Zenon DEF Refuse, controller, IInv, TypeOK, CycleInv, LapInv, OrderInv, ReportInv, head, Slots, Last

LEMMA StepIInv == IInv /\ [Next]_vars => IInv'
<1>. SUFFICES ASSUME IInv, [Next]_vars PROVE IInv'
  BY Zenon
<1>1. ASSUME NEW trb \in TRB, push(trb) PROVE IInv'
  BY <1>1, PushStep, RefuseStep, Zenon DEF push, Accept, Refuse
<1>2. CASE set_deque_ptr
  BY <1>2, AckStep, Zenon
<1>3. CASE Execute
  BY <1>3, ExecuteStep, Zenon
<1>4. CASE FollowLink
  BY <1>4, LinkStep, Zenon
<1>5. CASE UNCHANGED vars
  BY <1>5, Zenon DEF vars, driver, controller, IInv, TypeOK, CycleInv, LapInv, OrderInv, ReportInv,
              head, Slots, Last
<1>. QED  BY <1>1, <1>2, <1>3, <1>4, <1>5, Zenon DEF Next

LEMMA Invariance == Spec => []IInv
BY InitIInv, StepIInv, PTL DEF Spec

(* The fields of the ring stay in range, in particular next_ptr is only    *)
(* called on slots before the Link TRB.                                    *)
THEOREM Typing == Spec => []TypeOK
BY Invariance, PTL DEF IInv

(* The controller always finds the cycle bit it expects while it has TRBs  *)
(* to execute.                                                             *)
THEOREM NoStall == Spec => []NeverStalls
<1>1. IInv => NeverStalls
  BY SizeAssumption DEF IInv, TypeOK, CycleInv, LapInv, NeverStalls, head, Slots, Last, Bit
<1>. QED  BY <1>1, Invariance, PTL

(* push never writes a slot whose event is still to be handled.            *)
THEOREM SlotsKept == Spec => ReportedSlotsKept
<1>1. IInv /\ [Next]_vars =>
        [\A i \in 1 .. Len(reports) : data'[reports[i]] = data[reports[i]]]_vars
  <2>. SUFFICES ASSUME IInv, Next, NEW i \in 1 .. Len(reports)
                PROVE  data'[reports[i]] = data[reports[i]]
    BY Zenon DEF vars
  <2>1. ASSUME NEW trb \in TRB, push(trb) PROVE data'[reports[i]] = data[reports[i]]
    <3>1. CASE UNCHANGED data
      BY <3>1, Zenon
    <3>2. CASE data' = [data EXCEPT ![enque] = trb]
      <4>1. reports[i] \in Slots /\ head \in Slots /\ enque \in Slots /\ deque \in Slots
        BY SizeAssumption DEF IInv, TypeOK, head, Slots, Last
      <4>2. ahead(deque, reports[i]) < ahead(deque, head)
        BY Zenon DEF IInv, ReportInv
      <4>3. reports[i] # enque
        BY <4>1, <4>2, AheadRange DEF IInv, OrderInv
      <4>. QED  BY <3>2, <4>1, <4>3, Zenon DEF IInv, TypeOK
    <3>. QED  BY <2>1, <3>1, <3>2, Zenon DEF push
  <2>2. CASE set_deque_ptr \/ Execute \/ FollowLink
    BY <2>2, Zenon DEF set_deque_ptr, handled, Execute, FollowLink
  <2>. QED  BY <2>1, <2>2, Zenon DEF Next
<1>. QED  BY <1>1, Invariance, PTL DEF Spec, ReportedSlotsKept

-----------------------------------------------------------------------------
(* What the abstraction reads off the ring: c TRBs, the i-th of them i - 1 *)
(* slots past the controller's.                                            *)
LEMMA HeldTrbs ==
  ASSUME NEW d \in [Slots -> TRB \cup {NoTrb}], NEW h \in Slots, NEW e \in Slots
  PROVE  LET c == ahead(h, e)
             s == [i \in 1 .. c |-> d[slot(h, i - 1)]]
         IN  /\ s \in Seq(TRB \cup {NoTrb})
             /\ Len(s) = c
             /\ \A i \in 1 .. c : s[i] = d[slot(h, i - 1)] /\ slot(h, i - 1) \in Slots
<1>. DEFINE c == ahead(h, e)
<1>1. \A i \in 1 .. c : slot(h, i - 1) \in Slots
  BY SizeAssumption DEF slot, Slots, Last, ahead
<1>2. c \in Nat
  BY AheadRange, Zenon
<1>. HIDE DEF c
<1>3. LET s == [i \in 1 .. c |-> d[slot(h, i - 1)]]
      IN  /\ s \in Seq(TRB \cup {NoTrb})
          /\ Len(s) = c
          /\ \A i \in 1 .. c : s[i] = d[slot(h, i - 1)] /\ slot(h, i - 1) \in Slots
  BY <1>1, <1>2
<1>. QED  BY <1>3, Zenon DEF c

LEMMA InitQueue == Init => Queue!Init
BY SizeAssumption DEF Init, new, Queue!Init, Pending, ahead, head, Last

\* The positions a refinement step starts from.
LEMMA Positions ==
  ASSUME IInv
  PROVE  /\ head \in Slots /\ enque \in Slots /\ deque \in Slots
         /\ ahead(head, enque) + ahead(deque, head) = ahead(deque, enque)
         /\ is_full <=> ahead(deque, enque) = Last - 1
<1>1. head \in Slots /\ enque \in Slots /\ deque \in Slots
  BY SizeAssumption DEF IInv, TypeOK, head, Slots, Last
<1>2. ahead(head, enque) + ahead(deque, head) = ahead(deque, enque)
  BY <1>1, SizeAssumption DEF IInv, OrderInv, ahead, Slots, Last
<1>3. is_full <=> ahead(deque, enque) = Last - 1
  BY <1>1, SizeAssumption DEF is_full, next_ptr, ahead, Slots, Last
<1>. QED  BY <1>1, <1>2, <1>3, Zenon

LEMMA PushQueue ==
  ASSUME IInv, NEW trb \in TRB, push(trb)
  PROVE  Queue!Push(trb)
<1>1. /\ Pending \in Seq(TRB \cup {NoTrb}) /\ Len(Pending) = ahead(head, enque)
      /\ \A i \in 1 .. ahead(head, enque) :
           Pending[i] = data[slot(head, i - 1)] /\ slot(head, i - 1) \in Slots
  BY Positions, HeldTrbs, Zenon DEF Pending, IInv, TypeOK
<1>2. CASE Refuse
  <2>1. UNCHANGED <<Pending, head, deque, exec>> /\ ret' = "RingIsFull"
    BY <1>2, Zenon DEF Refuse, Pending, head, controller
  <2>2. Len(Pending) + ahead(deque, head) = Last - 1
    BY <1>1, <1>2, Positions, Zenon DEF Refuse
  <2>. QED  BY <2>1, <2>2, Zenon DEF Queue!Push
<1>3. CASE Accept(trb)
  <2>1. /\ IInv' /\ enque' = next_ptr(enque) /\ UNCHANGED <<head, deque, exec>> /\ ret' = "Ok"
        /\ data' = [data EXCEPT ![enque] = trb]
    BY <1>3, PushStep, Zenon DEF Accept, controller
  <2>. DEFINE c == ahead(head, enque)
  <2>2. ~is_full /\ c \in Nat /\ head \in Slots /\ enque \in Slots /\ deque \in Slots
    BY <1>3, Positions, AheadRange, Zenon DEF Accept
  <2>3. c < Last - 1 /\ c + ahead(deque, head) < Last - 1
    BY <2>2, Positions, AheadRange, SizeAssumption DEF Last
  <2>4. ahead(head, enque') = c + 1 /\ slot(head, c) = enque /\ enque' \in Slots
    BY <2>1, <2>2, <2>3, SizeAssumption DEF ahead, slot, next_ptr, Slots, Last
  <2>5. /\ Pending' \in Seq(TRB \cup {NoTrb}) /\ Len(Pending') = c + 1
        /\ \A i \in 1 .. c + 1 : Pending'[i] = data'[slot(head, i - 1)]
    <3>1. data' \in [Slots -> TRB \cup {NoTrb}]
      BY <2>1, Zenon DEF IInv, TypeOK
    <3>2. Pending' = [i \in 1 .. ahead(head, enque') |-> data'[slot(head, i - 1)]]
      BY <2>1 DEF Pending, ahead, slot
    <3>3. /\ Pending' \in Seq(TRB \cup {NoTrb}) /\ Len(Pending') = ahead(head, enque')
          /\ \A i \in 1 .. ahead(head, enque') : Pending'[i] = data'[slot(head, i - 1)]
      <4>. HIDE DEF c
      <4>. QED  BY <2>2, <2>4, <3>1, <3>2, HeldTrbs, Zenon
    <3>. QED  BY <2>4, <3>3, Zenon
  <2>6. Pending'[c + 1] = trb
    <3>1. c + 1 \in 1 .. c + 1 /\ (c + 1) - 1 = c
      BY <2>2
    <3>2. Pending'[c + 1] = data'[enque]
      BY <2>4, <2>5, <3>1, Zenon
    <3>. QED  BY <2>1, <2>2, <3>2, Zenon DEF IInv, TypeOK
  <2>7. ASSUME NEW i \in 1 .. c PROVE Pending'[i] = Pending[i]
    <3>1. slot(head, i - 1) # enque
      BY <2>2, <2>3, SizeAssumption DEF ahead, slot, Slots, Last
    <3>2. i \in 1 .. c + 1
      BY <2>2
    <3>. QED  BY <1>1, <2>1, <2>5, <3>1, <3>2, Zenon DEF IInv, TypeOK
  <2>. HIDE DEF c
  <2>8. Pending' = Append(Pending, trb)
    <3>1. Len(Pending) = c
      BY <1>1, Zenon DEF c
    <3>2. /\ Append(Pending, trb) \in Seq(TRB \cup {NoTrb}) /\ Len(Append(Pending, trb)) = c + 1
          /\ \A i \in 1 .. c : Append(Pending, trb)[i] = Pending[i]
          /\ Append(Pending, trb)[c + 1] = trb
      BY <1>1, <2>2, <3>1, AppendProperties
    <3>3. \A i \in 1 .. c + 1 : Pending'[i] = Append(Pending, trb)[i]
      BY <2>2, <2>6, <2>7, <3>2
    <3>. QED  BY <2>5, <3>2, <3>3, SeqEqual, Zenon
  <2>. QED  BY <1>1, <2>1, <2>3, <2>8, Zenon DEF Queue!Push, c
<1>. QED  BY <1>2, <1>3, Zenon DEF push, Accept, Refuse

LEMMA ExecuteQueue ==
  ASSUME IInv, Execute
  PROVE  Queue!Execute
<1>. DEFINE c == ahead(head, enque)
<1>1. /\ Pending \in Seq(TRB \cup {NoTrb}) /\ Len(Pending) = c
      /\ \A i \in 1 .. c : Pending[i] = data[slot(head, i - 1)] /\ slot(head, i - 1) \in Slots
  BY Positions, HeldTrbs, Zenon DEF Pending, IInv, TypeOK
<1>2. /\ IInv' /\ head = at /\ head' = next_ptr(at) /\ at # enque
      /\ ahead(deque, head)' = ahead(deque, head) + 1
      /\ UNCHANGED <<data, enque, deque, ret>> /\ exec' = data[at]
  BY ExecuteStep, Zenon DEF Execute, driver
<1>3. head \in Slots /\ head' \in Slots /\ enque \in Slots
  <2>1. head \in Slots /\ enque \in Slots
    BY Positions, Zenon
  <2>. QED  BY <1>2, <2>1, SizeAssumption DEF next_ptr, Slots, Last
<1>4. c \in Nat /\ c # 0 /\ ahead(head', enque) = c - 1
  <2>. DEFINE p == head
              q == enque
  <2>1. p \in Slots /\ q \in Slots /\ p # q /\ head' = next_ptr(p)
    BY <1>2, <1>3, Zenon
  <2>. HIDE DEF p, q
  <2>2. ahead(p, q) \in Nat /\ ahead(p, q) # 0 /\ ahead(next_ptr(p), q) = ahead(p, q) - 1
    BY <2>1, SizeAssumption DEF ahead, next_ptr, Slots, Last
  <2>. QED  BY <2>1, <2>2, Zenon DEF p, q
<1>5. /\ Pending' \in Seq(TRB \cup {NoTrb}) /\ Len(Pending') = c - 1
      /\ \A i \in 1 .. c - 1 : Pending'[i] = data[slot(head', i - 1)]
  <2>1. Pending' = [i \in 1 .. ahead(head', enque) |-> data[slot(head', i - 1)]]
    BY <1>2, Zenon DEF Pending
  <2>2. data \in [Slots -> TRB \cup {NoTrb}]
    BY Zenon DEF IInv, TypeOK
  <2>. QED  BY <1>3, <1>4, <2>1, <2>2, HeldTrbs, Zenon
<1>6. ASSUME NEW i \in 1 .. c - 1 PROVE Pending'[i] = Pending[i + 1]
  <2>1. i + 1 \in 1 .. c
    BY <1>4, SMTT(30)
  <2>2. slot(head', i - 1) = slot(head, (i + 1) - 1)
    BY <1>2, <1>3, <1>4, SizeAssumption DEF slot, next_ptr, ahead, Slots, Last
  <2>. QED  BY <1>1, <1>5, <2>1, <2>2, Zenon
<1>7. Pending # <<>> /\ Head(Pending) = data[at]
  <2>1. slot(head, 1 - 1) = at
    BY <1>2, <1>3, SizeAssumption DEF slot, Slots, Last
  <2>2. 1 \in 1 .. c
    BY <1>4
  <2>3. Pending[1] = data[at]
    BY <1>1, <2>1, <2>2, Zenon
  <2>. QED  BY <1>1, <1>4, <2>3
<1>. HIDE DEF c
<1>8. Pending' = Tail(Pending)
  <2>1. /\ Tail(Pending) \in Seq(TRB \cup {NoTrb}) /\ Len(Tail(Pending)) = c - 1
        /\ \A i \in 1 .. c - 1 : Tail(Pending)[i] = Pending[i + 1]
    BY <1>1, <1>7, HeadTailProperties, Zenon
  <2>. QED  BY <1>5, <1>6, <2>1, SeqEqual, Zenon
<1>. QED  BY <1>2, <1>7, <1>8, Zenon DEF Queue!Execute

(* The ring of TRBs implements the queue of TrbQueue with capacity N - 2:  *)
(* the cycle bits and the Link TRB make the controller execute what the    *)
(* driver pushed, once and in order, for a ring of any size.               *)
THEOREM RingRefinement == Spec => ImplementsTrbQueue
<1>1. IInv /\ [Next]_vars => [Queue!Next]_(Queue!vars)
  <2>. SUFFICES ASSUME IInv, [Next]_vars PROVE [Queue!Next]_(Queue!vars)
    BY Zenon
  <2>1. ASSUME NEW trb \in TRB, push(trb) PROVE Queue!Next
    BY <2>1, PushQueue, Zenon DEF Queue!Next
  <2>2. CASE set_deque_ptr
    <3>1. UNCHANGED <<Pending, exec, ret, head>>
      BY <2>2, Zenon DEF set_deque_ptr, handled, Pending, head
    <3>2. /\ ahead(deque, head)' \in 0 .. ahead(deque, head) - 1
          /\ ahead(deque, head) \in Nat
      BY <2>2, AckStep, Positions, AheadRange, Zenon
    <3>. DEFINE n == ahead(deque, head) - ahead(deque, head)'
    <3>3. n \in 1 .. ahead(deque, head) /\ ahead(deque, head)' = ahead(deque, head) - n
      BY <3>2
    <3>4. Queue!Acknowledge(n)
      BY <3>1, <3>3, Zenon DEF Queue!Acknowledge
    <3>. QED  BY <3>3, <3>4, Zenon DEF Queue!Next
  <2>3. CASE Execute
    BY <2>3, ExecuteQueue, Zenon DEF Queue!Next
  <2>4. CASE FollowLink
    <3>1. UNCHANGED <<head, data, enque, deque, exec, ret>>
      BY <2>4, LinkStep, Zenon DEF FollowLink, driver
    <3>. QED  BY <3>1, Zenon DEF Queue!vars, Pending, ahead
  <2>5. CASE UNCHANGED vars
    BY <2>5, Zenon DEF vars, driver, controller, Queue!vars, Pending, head, ahead
  <2>. QED  BY <2>1, <2>2, <2>3, <2>4, <2>5, Zenon DEF Next
<1>. QED  BY <1>1, InitQueue, Invariance, PTL DEF Spec, ImplementsTrbQueue, Queue!Spec
=============================================================================
