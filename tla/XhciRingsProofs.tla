--------------------------- MODULE XhciRingsProofs ---------------------------
(***************************************************************************)
(* For rings of any size of at least three slots. The event ring: its      *)
(* cycle bits tell main exactly the events it has not read, and every      *)
(* event reaches its listener once and in order. The event ring with a     *)
(* ring of requests: each still does what it does alone, the events name   *)
(* the TRBs to be freed, and they find room.                               *)
(***************************************************************************)
EXTENDS XhciRings, ProducerRingProofs, FiniteSetTheorems

RangeInv ==
  /\ er_data \in [EventSlots -> Events \union {NoEvent}]
  /\ er_cycle \in [EventSlots -> {0, 1}]
  /\ er_cycle_state \in {0, 1} /\ er_pcs \in {0, 1}
  /\ er_deque \in EventSlots /\ er_enque \in EventSlots /\ erdp \in EventSlots

\* The cycle bits say which slots the xHC has written on its current lap.
EventCycleInv ==
  \A i \in EventSlots : er_cycle[i] = IF i < er_enque THEN er_pcs ELSE 1 - er_pcs

\* Main is on the xHC's lap and not past it, or one lap behind.
EventLapInv ==
  \/ er_cycle_state = er_pcs /\ er_deque <= er_enque
  \/ er_cycle_state = 1 - er_pcs /\ er_enque < er_deque

\* Main is between the ERDP it wrote last and what the xHC has posted.
EventOrderInv == distance(erdp, er_deque) <= distance(erdp, er_enque)

RingInv == RangeInv /\ EventCycleInv /\ EventLapInv /\ EventOrderInv

(* The distance between two slots is less than the number of slots.        *)
LEMMA DistanceRange ==
  ASSUME NEW a \in EventSlots, NEW b \in EventSlots
  PROVE  distance(a, b) \in Nat /\ distance(a, b) < M
BY EventRingAssumption DEF distance, EventSlots

LEMMA InitRing == EventRingInit => RingInv
BY EventRingAssumption
DEF EventRingInit, RingInv, RangeInv, EventCycleInv, EventLapInv, EventOrderInv, EventSlots, distance

(* Posting moves the xHC one slot on and disturbs nothing main has not read. *)
LEMMA PostRing ==
  ASSUME RingInv, NEW e \in Events, Post(e)
  PROVE  /\ RingInv'
         /\ er_enque' = following(er_enque) /\ er_deque' = er_deque
         /\ er_data' = [er_data EXCEPT ![er_enque] = e]
         /\ distance(er_deque, er_enque) < M - 1
<1>. USE EventRingAssumption DEF RingInv, RangeInv, EventSlots
<1>0. UNCHANGED <<er_cycle_state, er_deque, erdp>> /\ following(er_enque) # erdp
  BY Zenon DEF Post, WriteEvent, reader, Room
<1>1. /\ er_enque' = following(er_enque)
      /\ er_data' = [er_data EXCEPT ![er_enque] = e]
      /\ er_cycle' = [er_cycle EXCEPT ![er_enque] = er_pcs]
      /\ er_pcs' = IF er_enque' = 0 THEN 1 - er_pcs ELSE er_pcs
  BY Zenon DEF Post, WriteEvent
<1>2. RangeInv'
  BY <1>0, <1>1 DEF following
<1>3. EventCycleInv'
  <2>1. CASE er_enque + 1 = M
    BY <1>1, <2>1 DEF following, EventCycleInv
  <2>2. CASE er_enque + 1 # M
    BY <1>1, <2>2 DEF following, EventCycleInv
  <2>. QED  BY <2>1, <2>2, Zenon
<1>4. EventOrderInv'
  BY <1>0, <1>1 DEF EventOrderInv, distance, following
<1>5. EventLapInv'
  <2>1. CASE er_enque + 1 = M
    \* Were main still at the start of the lap, the ring would be full.
    <3>1. er_deque # 0
      BY <1>0, <2>1 DEF following, EventOrderInv, distance
    <3>. QED  BY <1>0, <1>1, <2>1, <3>1 DEF EventLapInv, following
  <2>2. CASE er_enque + 1 # M
    <3>1. er_enque + 1 # er_deque
      BY <1>0, <2>2 DEF following, EventOrderInv, distance
    <3>. QED  BY <1>0, <1>1, <2>2, <3>1 DEF EventLapInv, following
  <2>. QED  BY <2>1, <2>2, Zenon
<1>6. distance(er_deque, er_enque) < M - 1
  BY <1>0 DEF EventOrderInv, distance, following
<1>. QED  BY <1>0, <1>1, <1>2, <1>3, <1>4, <1>5, <1>6, Zenon

(* A pop takes a slot that the xHC has written and main has not read.       *)
LEMMA PopRing ==
  ASSUME RingInv, pop
  PROVE  /\ RingInv'
         /\ er_deque # er_enque /\ er_deque' = following(er_deque)
<1>. USE EventRingAssumption DEF RingInv, RangeInv, EventSlots
<1>0. UNCHANGED <<er_data, er_cycle, er_enque, er_pcs, erdp>>
  BY Zenon DEF pop
<1>1. /\ er_deque' = following(er_deque)
      /\ er_cycle_state' = IF er_deque + 1 = M THEN 1 - er_cycle_state ELSE er_cycle_state
      /\ er_cycle[er_deque] = er_cycle_state
  BY Zenon DEF pop, advance
<1>2. er_deque # er_enque
  BY <1>1 DEF EventCycleInv, EventLapInv
<1>3. RangeInv' /\ EventCycleInv'
  <2>1. RangeInv'
    BY <1>0, <1>1 DEF following
  <2>. QED  BY <1>0, <2>1, Zenon DEF EventCycleInv
<1>4. EventLapInv'
  BY <1>0, <1>1, <1>2 DEF EventLapInv, following
<1>5. EventOrderInv'
  BY <1>0, <1>1, <1>2 DEF EventOrderInv, distance, following
<1>. QED  BY <1>1, <1>2, <1>3, <1>4, <1>5, Zenon

\* The steps of main and of the tasks that leave the ring as it is.
LEMMA OtherRing ==
  ASSUME RingInv,
         enter \/ pop_none \/ write_erdp \/ (\E k \in Kinds : receive(k))
         \/ UNCHANGED event_ring
  PROVE  RingInv' /\ UNCHANGED <<er_data, er_deque, er_enque>>
<1>. USE EventRingAssumption DEF RingInv, RangeInv, EventSlots
<1>1. CASE write_erdp
  <2>1. UNCHANGED <<er_data, er_cycle, er_cycle_state, er_deque, er_enque, er_pcs>>
        /\ erdp' = er_deque
    BY <1>1, Zenon DEF write_erdp
  <2>2. RangeInv' /\ EventCycleInv' /\ EventLapInv'
    BY <2>1, Zenon DEF EventCycleInv, EventLapInv
  <2>. QED  BY <2>1, <2>2 DEF EventOrderInv, distance
<1>2. CASE enter \/ pop_none \/ (\E k \in Kinds : receive(k)) \/ UNCHANGED event_ring
  <2>1. UNCHANGED <<er_data, er_cycle, er_cycle_state, er_deque, er_enque, er_pcs, erdp>>
    BY <1>2, Zenon DEF enter, pop_none, receive, event_ring
  <2>. QED  BY <2>1, Zenon DEF EventCycleInv, EventLapInv, EventOrderInv
<1>. QED  BY <1>1, <1>2, Zenon

LEMMA StepRing == RingInv /\ [EventRingNext]_event_ring => RingInv'
<1>. SUFFICES ASSUME RingInv, [EventRingNext]_event_ring PROVE RingInv'
  BY Zenon
<1>. QED  BY PostRing, PopRing, OtherRing, Zenon DEF EventRingNext, on_xhc_interrupt

LEMMA RingInvariance == EventRingSpec => []RingInv
BY InitRing, StepRing, PTL DEF EventRingSpec

-----------------------------------------------------------------------------
(* What the abstraction reads off the ring: as many events as there are     *)
(* slots from er_deque to er_enque, in their order.                         *)
LEMMA UnreadEvents ==
  ASSUME NEW d \in [EventSlots -> Events \union {NoEvent}],
         NEW h \in EventSlots, NEW t \in EventSlots
  PROVE  LET c == distance(h, t)
             s == [i \in 1 .. c |-> d[place(h, i - 1)]]
         IN  /\ c \in Nat /\ c < M
             /\ s \in Seq(Events \union {NoEvent})
             /\ Len(s) = c
             /\ \A i \in 1 .. c : s[i] = d[place(h, i - 1)] /\ place(h, i - 1) \in EventSlots
<1>. DEFINE c == distance(h, t)
<1>1. \A i \in 1 .. c : place(h, i - 1) \in EventSlots
  BY EventRingAssumption DEF place, EventSlots, distance
<1>2. c \in Nat /\ c < M
  BY EventRingAssumption DEF EventSlots, distance
<1>. HIDE DEF c
<1>3. LET s == [i \in 1 .. c |-> d[place(h, i - 1)]]
      IN  /\ s \in Seq(Events \union {NoEvent})
          /\ Len(s) = c
          /\ \A i \in 1 .. c : s[i] = d[place(h, i - 1)] /\ place(h, i - 1) \in EventSlots
  BY <1>1, <1>2
<1>. QED  BY <1>2, <1>3, Zenon DEF c

LEMMA PostFifo ==
  ASSUME RingInv, NEW e \in Events, Post(e)
  PROVE  Fifo!Post(e)
<1>. DEFINE c == distance(er_deque, er_enque)
<1>1. /\ RingInv' /\ er_enque' = following(er_enque) /\ er_deque' = er_deque
      /\ er_data' = [er_data EXCEPT ![er_enque] = e] /\ c < M - 1
      /\ UNCHANGED listener
  BY PostRing, Zenon DEF Post, WriteEvent, reader
<1>2. er_deque \in EventSlots /\ er_enque \in EventSlots /\ er_enque' \in EventSlots
  BY <1>1, Zenon DEF RingInv, RangeInv
<1>3. /\ Unread \in Seq(Events \union {NoEvent}) /\ Len(Unread) = c /\ c \in Nat
      /\ \A i \in 1 .. c : Unread[i] = er_data[place(er_deque, i - 1)]
                           /\ place(er_deque, i - 1) \in EventSlots
  BY <1>2, UnreadEvents, Zenon DEF Unread, RingInv, RangeInv
<1>4. distance(er_deque, er_enque') = c + 1 /\ place(er_deque, c) = er_enque
  BY <1>1, <1>2, EventRingAssumption DEF distance, place, following, EventSlots
<1>5. /\ Unread' \in Seq(Events \union {NoEvent}) /\ Len(Unread') = c + 1
      /\ \A i \in 1 .. c + 1 : Unread'[i] = er_data'[place(er_deque, i - 1)]
  <2>1. Unread' = [i \in 1 .. distance(er_deque, er_enque') |-> er_data'[place(er_deque, i - 1)]]
    BY <1>1 DEF Unread, distance, place
  <2>2. er_data' \in [EventSlots -> Events \union {NoEvent}]
    BY <1>1, Zenon DEF RingInv, RangeInv
  <2>. HIDE DEF c
  <2>3. /\ Unread' \in Seq(Events \union {NoEvent}) /\ Len(Unread') = distance(er_deque, er_enque')
        /\ \A i \in 1 .. distance(er_deque, er_enque') : Unread'[i] = er_data'[place(er_deque, i - 1)]
    BY <1>2, <2>1, <2>2, UnreadEvents, Zenon
  <2>. QED  BY <1>4, <2>3, Zenon
<1>6. Unread'[c + 1] = e
  <2>1. c + 1 \in 1 .. c + 1 /\ (c + 1) - 1 = c
    BY <1>3
  <2>2. Unread'[c + 1] = er_data'[er_enque]
    BY <1>4, <1>5, <2>1, Zenon
  <2>. QED  BY <1>1, <1>2, <2>2, Zenon DEF RingInv, RangeInv
<1>7. ASSUME NEW i \in 1 .. c PROVE Unread'[i] = Unread[i]
  <2>1. place(er_deque, i - 1) # er_enque
    BY <1>1, <1>2, <1>3, EventRingAssumption DEF distance, place, EventSlots
  <2>2. i \in 1 .. c + 1
    BY <1>3
  <2>. QED  BY <1>1, <1>3, <1>5, <2>1, <2>2, Zenon DEF RingInv, RangeInv
<1>. HIDE DEF c
<1>8. Unread' = Append(Unread, e)
  <2>1. /\ Append(Unread, e) \in Seq(Events \union {NoEvent}) /\ Len(Append(Unread, e)) = c + 1
        /\ \A i \in 1 .. c : Append(Unread, e)[i] = Unread[i]
        /\ Append(Unread, e)[c + 1] = e
    BY <1>3, AppendProperties
  <2>2. \A i \in 1 .. c + 1 : Unread'[i] = Append(Unread, e)[i]
    BY <1>3, <1>6, <1>7, <2>1
  <2>. QED  BY <1>5, <2>1, <2>2, SeqEqual, Zenon
<1>. QED  BY <1>1, <1>8, Zenon DEF Fifo!Post

LEMMA PopFifo ==
  ASSUME RingInv, pop
  PROVE  Fifo!Notify
<1>. DEFINE c == distance(er_deque, er_enque)
<1>1. /\ RingInv' /\ er_deque # er_enque /\ er_deque' = following(er_deque)
      /\ UNCHANGED <<er_data, er_enque>>
      /\ listener' = [listener EXCEPT ![er_data[er_deque].kind] = Append(@, er_data[er_deque])]
  BY PopRing, Zenon DEF pop, process_event
<1>2. er_deque \in EventSlots /\ er_enque \in EventSlots /\ er_deque' \in EventSlots
  BY <1>1, Zenon DEF RingInv, RangeInv
<1>3. /\ Unread \in Seq(Events \union {NoEvent}) /\ Len(Unread) = c /\ c \in Nat
      /\ \A i \in 1 .. c : Unread[i] = er_data[place(er_deque, i - 1)]
  BY <1>2, UnreadEvents, Zenon DEF Unread, RingInv, RangeInv
<1>4. c # 0 /\ distance(er_deque', er_enque) = c - 1
  BY <1>1, <1>2, EventRingAssumption DEF distance, following, EventSlots
<1>5. /\ Unread' \in Seq(Events \union {NoEvent}) /\ Len(Unread') = c - 1
      /\ \A i \in 1 .. c - 1 : Unread'[i] = er_data[place(er_deque', i - 1)]
  BY <1>1, <1>2, <1>4, UnreadEvents, Zenon DEF Unread, RingInv, RangeInv
<1>6. ASSUME NEW i \in 1 .. c - 1 PROVE Unread'[i] = Unread[i + 1]
  <2>1. i + 1 \in 1 .. c
    BY <1>3
  <2>2. place(er_deque', i - 1) = place(er_deque, (i + 1) - 1)
    BY <1>1, <1>2, <1>4, EventRingAssumption DEF place, following, distance, EventSlots
  <2>. QED  BY <1>3, <1>5, <2>1, <2>2, Zenon
<1>7. Unread # <<>> /\ Head(Unread) = er_data[er_deque]
  <2>1. place(er_deque, 1 - 1) = er_deque
    BY <1>2, EventRingAssumption DEF place, EventSlots
  <2>2. 1 \in 1 .. c
    BY <1>3, <1>4
  <2>3. Unread[1] = er_data[er_deque]
    BY <1>3, <2>1, <2>2, Zenon
  <2>. QED  BY <1>3, <1>4, <2>3
<1>. HIDE DEF c
<1>8. Unread' = Tail(Unread)
  <2>1. /\ Tail(Unread) \in Seq(Events \union {NoEvent}) /\ Len(Tail(Unread)) = c - 1
        /\ \A i \in 1 .. c - 1 : Tail(Unread)[i] = Unread[i + 1]
    BY <1>3, <1>7, HeadTailProperties, Zenon
  <2>. QED  BY <1>5, <1>6, <2>1, SeqEqual, Zenon
<1>. QED  BY <1>1, <1>7, <1>8, Zenon DEF Fifo!Notify

LEMMA OtherFifo ==
  ASSUME RingInv, enter \/ pop_none \/ write_erdp \/ UNCHANGED event_ring
  PROVE  UNCHANGED Fifo!vars
<1>1. UNCHANGED <<er_data, er_deque, er_enque>>
  BY OtherRing, Zenon
<1>2. UNCHANGED listener
  BY Zenon DEF enter, pop_none, write_erdp, event_ring
<1>3. UNCHANGED Unread
  BY <1>1, Zenon DEF Unread, distance, place
<1>. QED  BY <1>2, <1>3, Zenon DEF Fifo!vars

LEMMA ReceiveFifo ==
  ASSUME RingInv, NEW k \in Kinds, receive(k)
  PROVE  Fifo!Receive(k)
<1>1. UNCHANGED <<er_data, er_deque, er_enque>>
  BY Zenon DEF receive
<1>2. UNCHANGED Unread
  BY <1>1, Zenon DEF Unread, distance, place
<1>. QED  BY <1>2, Zenon DEF receive, Fifo!Receive

(* on_xhc_interrupt passes every event the controller posts to the listener *)
(* of its kind, once and in the order of posting, for a ring of any size.   *)
THEOREM EventRingRefinement == EventRingSpec => ImplementsEventFifo
<1>1. EventRingInit => Fifo!Init
  <2>. SUFFICES ASSUME EventRingInit PROVE Fifo!Init
    BY Zenon
  <2>1. distance(er_deque, er_enque) = 0
    BY DEF EventRingInit, distance
  <2>2. Unread = <<>>
    BY <2>1 DEF Unread
  <2>. QED  BY <2>2, Zenon DEF EventRingInit, Fifo!Init
<1>2. RingInv /\ [EventRingNext]_event_ring => [Fifo!Next]_(Fifo!vars)
  <2>. SUFFICES ASSUME RingInv, [EventRingNext]_event_ring PROVE [Fifo!Next]_(Fifo!vars)
    BY Zenon
  <2>. QED  BY PostFifo, PopFifo, OtherFifo, ReceiveFifo
           , Zenon DEF EventRingNext, on_xhc_interrupt, Fifo!Next
<1>. QED  BY <1>1, <1>2, RingInvariance, PTL
          DEF EventRingSpec, ImplementsEventFifo, Fifo!Spec

-----------------------------------------------------------------------------
(* The two rings together. The reports r are what the transfer events say   *)
(* that wait in the channel, l, and in the ring, u, with the event of the   *)
(* port at place k of u, or not in u if k = 0.                              *)
Match(r, l, u, k) ==
  /\ k \in 0 .. Len(u)
  /\ Len(r) = Len(l) + Len(u) - (IF k = 0 THEN 0 ELSE 1)
  /\ \A i \in 1 .. Len(l) : l[i] = Report(r[i])
  /\ \A i \in 1 .. Len(u) :
       u[i] = IF i = k THEN PortEvent
              ELSE Report(r[Len(l) + (IF k # 0 /\ k < i THEN i - 1 ELSE i)])

Entries == Events \union {NoEvent}

LEMMA MatchReport ==
  ASSUME NEW r \in Seq(Slots), NEW l \in Seq(Entries), NEW u \in Seq(Entries), NEW k,
         Match(r, l, u, k), NEW a \in Slots
  PROVE  Match(Append(r, a), l, Append(u, Report(a)), k)
<1>. DEFINE R == Append(r, a)
            U == Append(u, Report(a))
<1>0. Report(a) \in Entries
  BY PointerAssumption, Zenon DEF Report, Entries, Events, Kinds
<1>1. /\ Len(r) \in Nat /\ Len(l) \in Nat /\ Len(u) \in Nat
      /\ Len(R) = Len(r) + 1 /\ R[Len(r) + 1] = a /\ \A i \in 1 .. Len(r) : R[i] = r[i]
      /\ Len(U) = Len(u) + 1 /\ U[Len(u) + 1] = Report(a) /\ \A i \in 1 .. Len(u) : U[i] = u[i]
  BY <1>0, AppendProperties, LenProperties
<1>. HIDE DEF R, U
<1>2. k \in 0 .. Len(U) /\ Len(R) = Len(l) + Len(U) - (IF k = 0 THEN 0 ELSE 1)
  BY <1>1 DEF Match
<1>3. ASSUME NEW i \in 1 .. Len(l) PROVE l[i] = Report(R[i])
  <2>1. k \in 0 .. Len(u) /\ Len(r) = Len(l) + Len(u) - (IF k = 0 THEN 0 ELSE 1)
    BY Zenon DEF Match
  <2>2. i \in 1 .. Len(r) /\ l[i] = Report(r[i])
    BY <1>1, <2>1 DEF Match
  <2>. QED  BY <1>1, <2>2, Zenon
<1>4. ASSUME NEW i \in 1 .. Len(U)
      PROVE  U[i] = IF i = k THEN PortEvent
                    ELSE Report(R[Len(l) + (IF k # 0 /\ k < i THEN i - 1 ELSE i)])
  <2>. DEFINE n == Len(l) + (IF k # 0 /\ k < i THEN i - 1 ELSE i)
  <2>1. CASE i \in 1 .. Len(u)
    <3>1. U[i] = u[i] /\ u[i] = IF i = k THEN PortEvent ELSE Report(r[n])
      BY <1>1, <2>1, Zenon DEF Match
    <3>2. i # k => n \in 1 .. Len(r)
      <4>1. k \in 0 .. Len(u) /\ Len(r) = Len(l) + Len(u) - (IF k = 0 THEN 0 ELSE 1)
        BY Zenon DEF Match
      <4>2. k \in Nat /\ i \in Nat /\ Len(l) \in Nat /\ Len(u) \in Nat /\ i >= 1 /\ i <= Len(u)
        BY <1>1, <2>1, <4>1
      <4>3. CASE k = 0
        BY <4>1, <4>2, <4>3
      <4>4. CASE k # 0 /\ k < i
        BY <4>1, <4>2, <4>4
      <4>5. CASE k # 0 /\ ~(k < i)
        BY <4>1, <4>2, <4>5
      <4>. QED  BY <4>3, <4>4, <4>5, Zenon
    <3>. QED  BY <1>1, <3>1, <3>2, Zenon
  <2>2. CASE i = Len(u) + 1
    BY <1>1, <2>2 DEF Match
  <2>3. i \in 1 .. Len(u) \/ i = Len(u) + 1
    BY <1>1
  <2>. QED  BY <2>1, <2>2, <2>3, Zenon
<1>. QED  BY <1>2, <1>3, <1>4, Zenon DEF Match, R, U

LEMMA MatchPort ==
  ASSUME NEW r \in Seq(Slots), NEW l \in Seq(Entries), NEW u \in Seq(Entries),
         Match(r, l, u, 0)
  PROVE  Match(r, l, Append(u, PortEvent), Len(u) + 1)
<1>. DEFINE U == Append(u, PortEvent)
<1>0. PortEvent \in Entries
  BY Zenon DEF PortEvent, Entries, Events, Kinds
<1>1. /\ Len(r) \in Nat /\ Len(l) \in Nat /\ Len(u) \in Nat
      /\ Len(U) = Len(u) + 1 /\ U[Len(u) + 1] = PortEvent /\ \A i \in 1 .. Len(u) : U[i] = u[i]
  BY <1>0, AppendProperties, LenProperties
<1>. HIDE DEF U
<1>. QED  BY <1>1 DEF Match, U

\* A pop moves a transfer event from the ring to the channel.
LEMMA MatchPop ==
  ASSUME NEW r \in Seq(Slots), NEW l \in Seq(Entries), NEW u \in Seq(Entries), NEW k,
         Match(r, l, u, k), u # <<>>, k # 1
  PROVE  /\ Head(u).kind = "TransferEvent"
         /\ Match(r, Append(l, Head(u)), Tail(u), IF k = 0 THEN 0 ELSE k - 1)
<1>. DEFINE L == Append(l, Head(u))
            U == Tail(u)
            K == IF k = 0 THEN 0 ELSE k - 1
<1>1. /\ Len(r) \in Nat /\ Len(l) \in Nat /\ Len(u) \in Nat \ {0} /\ Head(u) = u[1]
      /\ Len(L) = Len(l) + 1 /\ L[Len(l) + 1] = u[1] /\ \A i \in 1 .. Len(l) : L[i] = l[i]
      /\ Len(U) = Len(u) - 1 /\ \A i \in 1 .. Len(u) - 1 : U[i] = u[i + 1]
  BY AppendProperties, HeadTailProperties, LenProperties
<1>2. u[1] = Report(r[Len(l) + 1])
  BY <1>1 DEF Match
<1>. HIDE DEF L, U
<1>3. K \in 0 .. Len(U) /\ Len(r) = Len(L) + Len(U) - (IF K = 0 THEN 0 ELSE 1)
  BY <1>1 DEF Match
<1>4. \A i \in 1 .. Len(L) : L[i] = Report(r[i])
  BY <1>1, <1>2 DEF Match
<1>5. ASSUME NEW i \in 1 .. Len(U)
      PROVE  U[i] = IF i = K THEN PortEvent
                    ELSE Report(r[Len(L) + (IF K # 0 /\ K < i THEN i - 1 ELSE i)])
  <2>1. i + 1 \in 1 .. Len(u) /\ U[i] = u[i + 1]
    BY <1>1
  <2>2. u[i + 1] = IF i + 1 = k THEN PortEvent
                   ELSE Report(r[Len(l) + (IF k # 0 /\ k < i + 1 THEN i ELSE i + 1)])
    BY <2>1 DEF Match
  <2>. QED  BY <1>1, <2>1, <2>2 DEF Match
<1>. QED  BY <1>1, <1>2, <1>3, <1>4, <1>5 DEF Match, Report, L, U

\* A pop of the port's event.
LEMMA MatchPopPort ==
  ASSUME NEW r \in Seq(Slots), NEW l \in Seq(Entries), NEW u \in Seq(Entries),
         Match(r, l, u, 1)
  PROVE  u # <<>> /\ Head(u) = PortEvent /\ Match(r, l, Tail(u), 0)
<1>0. u # <<>>
  BY DEF Match
<1>. DEFINE U == Tail(u)
<1>1. /\ Len(r) \in Nat /\ Len(l) \in Nat /\ Len(u) \in Nat \ {0} /\ Head(u) = u[1]
      /\ Len(U) = Len(u) - 1 /\ \A i \in 1 .. Len(u) - 1 : U[i] = u[i + 1]
  BY <1>0, HeadTailProperties, LenProperties
<1>. HIDE DEF U
<1>2. ASSUME NEW i \in 1 .. Len(U) PROVE U[i] = Report(r[Len(l) + i])
  <2>1. i + 1 \in 1 .. Len(u) /\ U[i] = u[i + 1]
    BY <1>1
  <2>. QED  BY <1>1, <2>1 DEF Match
<1>. QED  BY <1>0, <1>1, <1>2 DEF Match, U

\* A task takes the oldest event of the channel.
LEMMA MatchReceive ==
  ASSUME NEW r \in Seq(Slots), NEW l \in Seq(Entries), NEW u \in Seq(Entries), NEW k,
         Match(r, l, u, k), l # <<>>
  PROVE  r # <<>> /\ Head(l) = Report(Head(r)) /\ Match(Tail(r), Tail(l), u, k)
<1>0. Len(l) \in Nat \ {0} /\ Len(u) \in Nat
  BY LenProperties
<1>1. r # <<>> /\ Len(r) \in Nat
  BY <1>0 DEF Match
<1>. DEFINE R == Tail(r)
            L == Tail(l)
<1>2. /\ Head(l) = l[1] /\ Head(r) = r[1]
      /\ Len(R) = Len(r) - 1 /\ \A i \in 1 .. Len(r) - 1 : R[i] = r[i + 1]
      /\ Len(L) = Len(l) - 1 /\ \A i \in 1 .. Len(l) - 1 : L[i] = l[i + 1]
  BY <1>0, <1>1, HeadTailProperties
<1>. HIDE DEF R, L
<1>3. k \in 0 .. Len(u) /\ Len(R) = Len(L) + Len(u) - (IF k = 0 THEN 0 ELSE 1)
  BY <1>0, <1>1, <1>2 DEF Match
<1>4. ASSUME NEW i \in 1 .. Len(L) PROVE L[i] = Report(R[i])
  <2>1. i + 1 \in 1 .. Len(l) /\ i \in 1 .. Len(l) - 1 /\ i \in 1 .. Len(r) - 1
    BY <1>0, <1>1, <1>2, <1>3
  <2>. QED  BY <1>2, <2>1, Zenon DEF Match
<1>5. ASSUME NEW i \in 1 .. Len(u)
      PROVE  u[i] = IF i = k THEN PortEvent
                    ELSE Report(R[Len(L) + (IF k # 0 /\ k < i THEN i - 1 ELSE i)])
  <2>. DEFINE n == IF k # 0 /\ k < i THEN i - 1 ELSE i
  <2>1. CASE i # k
    <3>1. Len(L) + n \in 1 .. Len(r) - 1 /\ (Len(L) + n) + 1 = Len(l) + n
      BY <1>0, <1>1, <1>2, <1>3, <2>1
    <3>. QED  BY <1>2, <2>1, <3>1, Zenon DEF Match
  <2>2. CASE i = k
    BY <2>2, Zenon DEF Match
  <2>. QED  BY <2>1, <2>2, Zenon
<1>. QED  BY <1>0, <1>1, <1>2, <1>3, <1>4, <1>5 DEF Match, R, L

-----------------------------------------------------------------------------
\* The port's event is in the ring, in its channel, or there is none.
CarryInv ==
  \E k \in Nat :
    /\ Match(reports, listener["TransferEvent"], Unread, k)
    /\ listener["PortStatusChange"] = IF k = 0 /\ port_change THEN <<PortEvent>> ELSE <<>>
    /\ k # 0 => port_change

Queued == Len(listener["TransferEvent"]) + Len(listener["PortStatusChange"])

\* What main has popped since it wrote ERDP is in the channels still.
ErdpInv ==
  /\ er_pc = "idle" => erdp = er_deque
  /\ distance(erdp, er_deque) <= Queued

ChannelType == listener \in [Kinds -> Seq(Entries)] /\ port_change \in BOOLEAN

SystemInv == IInv /\ RingInv /\ ChannelType /\ CarryInv /\ ErdpInv

LEMMA UnreadType ==
  ASSUME RingInv
  PROVE  Unread \in Seq(Entries) /\ Len(Unread) = distance(er_deque, er_enque)
BY UnreadEvents, Zenon DEF Unread, RingInv, RangeInv, Entries

LEMMA InitSystem == SystemInit => SystemInv
<1>. SUFFICES ASSUME SystemInit PROVE SystemInv
  BY Zenon
<1>1. IInv /\ RingInv
  BY InitIInv, InitRing, Zenon DEF SystemInit
<1>2. /\ reports = <<>> /\ listener = [k \in Kinds |-> <<>>] /\ port_change = FALSE
      /\ er_deque = 0 /\ er_enque = 0 /\ erdp = 0
  BY Zenon DEF SystemInit, Init, EventRingInit
<1>3. Unread \in Seq(Entries) /\ Len(Unread) = 0 /\ distance(erdp, er_deque) = 0
  BY <1>1, <1>2, UnreadType DEF distance
<1>4. /\ listener \in [Kinds -> Seq(Entries)] 
      /\ listener["TransferEvent"] = <<>> /\ listener["PortStatusChange"] = <<>>
  BY <1>2 DEF Kinds
<1>5. Match(<<>>, <<>>, Unread, 0)
  BY <1>3 DEF Match
<1>6. CarryInv
  BY <1>2, <1>4, <1>5, Zenon DEF CarryInv
<1>7. ChannelType /\ ErdpInv
  <2>1. Len(<<>>) = 0
    BY Zenon
  <2>2. ErdpInv
    <3>1. Queued = 0
      BY <1>4, <2>1 DEF Queued
    <3>. QED  BY <1>2, <1>3, <3>1 DEF ErdpInv
  <2>3. ChannelType
    BY <1>2, <1>4, Zenon DEF ChannelType
  <2>. QED  BY <2>2, <2>3, Zenon
<1>. QED  BY <1>1, <1>6, <1>7, Zenon DEF SystemInv

\* What every step of the proofs below starts from.
LEMMA Channels ==
  ASSUME SystemInv
  PROVE  /\ reports \in Seq(Slots) /\ Unread \in Seq(Entries)
         /\ listener["TransferEvent"] \in Seq(Entries)
         /\ listener["PortStatusChange"] \in Seq(Entries)
         /\ Queued \in Nat
<1>1. /\ reports \in Seq(Slots) /\ Unread \in Seq(Entries)
      /\ listener["TransferEvent"] \in Seq(Entries)
      /\ listener["PortStatusChange"] \in Seq(Entries)
  BY UnreadType, Zenon DEF SystemInv, IInv, TypeOK, ChannelType, Kinds
<1>. DEFINE m == Len(listener["TransferEvent"])
            n == Len(listener["PortStatusChange"])
<1>2. m \in Nat /\ n \in Nat
  BY <1>1, LenProperties, Zenon
<1>3. Queued = m + n
  BY Zenon DEF Queued
<1>. HIDE DEF m, n
<1>4. Queued \in Nat
  BY <1>2, <1>3
<1>. QED  BY <1>1, <1>4, Zenon

LEMMA PushSystem ==
  ASSUME SystemInv, Push
  PROVE  SystemInv' /\ [Next]_vars /\ [EventRingNext]_event_ring
<1>1. PICK trb \in TRB : push(trb)
  BY Zenon DEF Push
<1>2. UNCHANGED <<reports, event_ring, port_change, Unread>>
  BY <1>1, Zenon DEF Push, push, controller, event_ring, Unread, distance, place
<1>3. IInv'
  BY <1>1, StepIInv, Zenon DEF Next, SystemInv
<1>4. RingInv'
  BY <1>2, OtherRing, Zenon DEF SystemInv
<1>5. ChannelType' /\ CarryInv' /\ ErdpInv'
  BY <1>2, Zenon DEF SystemInv, ChannelType, CarryInv, ErdpInv, Queued, event_ring, distance
<1>. QED  BY <1>1, <1>2, <1>3, <1>4, <1>5, Zenon DEF SystemInv, Next

LEMMA LinkSystem ==
  ASSUME SystemInv, XhcFollowLink
  PROVE  SystemInv' /\ [Next]_vars /\ [EventRingNext]_event_ring
<1>2. UNCHANGED <<reports, event_ring, port_change, Unread>> /\ FollowLink
  BY Zenon DEF XhcFollowLink, FollowLink, event_ring, Unread, distance, place
<1>3. IInv'
  BY <1>2, LinkStep, Zenon DEF SystemInv
<1>4. RingInv'
  BY <1>2, OtherRing, Zenon DEF SystemInv
<1>5. ChannelType' /\ CarryInv' /\ ErdpInv'
  BY <1>2, Zenon DEF SystemInv, ChannelType, CarryInv, ErdpInv, Queued, event_ring, distance
<1>. QED  BY <1>2, <1>3, <1>4, <1>5, Zenon DEF SystemInv, Next

LEMMA ExecuteSystem ==
  ASSUME SystemInv, XhcExecute
  PROVE  SystemInv' /\ [Next]_vars /\ [EventRingNext]_event_ring
<1>. DEFINE e == Report(at)
            l == listener["TransferEvent"]
<1>1. /\ Execute /\ reports' = Append(reports, at) /\ Post(e) /\ UNCHANGED port_change
      /\ IInv /\ RingInv
  BY Zenon DEF XhcExecute, SystemInv
<1>2. at \in Slots
  BY <1>1, SizeAssumption DEF Execute, IInv, TypeOK, Slots, Last
<1>3. e \in Events
  BY <1>2, PointerAssumption, Zenon DEF Report, Events, Kinds
<1>. HIDE DEF e
<1>4. IInv' /\ RingInv'
  BY <1>1, <1>3, ExecuteStep, PostRing, Zenon
<1>5. Unread' = Append(Unread, e) /\ UNCHANGED <<listener, erdp, er_deque, er_pc>>
  BY <1>1, <1>3, PostFifo, Zenon DEF Fifo!Post, Post, WriteEvent, reader
<1>6. CarryInv'
  <2>1. PICK k \in Nat :
          /\ Match(reports, l, Unread, k)
          /\ listener["PortStatusChange"] = IF k = 0 /\ port_change THEN <<PortEvent>> ELSE <<>>
          /\ k # 0 => port_change
    BY Zenon DEF SystemInv, CarryInv
  <2>2. Match(reports', l, Unread', k)
    BY <1>1, <1>2, <1>5, <2>1, Channels, MatchReport, Zenon DEF e
  <2>. QED  BY <1>1, <1>5, <2>1, <2>2, Zenon DEF CarryInv
<1>7. ChannelType' /\ ErdpInv'
  BY <1>1, <1>5, Zenon DEF SystemInv, ChannelType, ErdpInv, Queued, distance
<1>. QED  BY <1>1, <1>3, <1>4, <1>6, <1>7, Zenon DEF SystemInv, Next, EventRingNext

LEMMA PortSystem ==
  ASSUME SystemInv, XhcPort
  PROVE  SystemInv' /\ [Next]_vars /\ [EventRingNext]_event_ring
<1>. DEFINE l == listener["TransferEvent"]
<1>1. ~port_change /\ Post(PortEvent) /\ port_change' = TRUE /\ UNCHANGED vars /\ RingInv
  BY Zenon DEF XhcPort, SystemInv
<1>2. PortEvent \in Events
  BY Zenon DEF PortEvent, Events, Kinds
<1>3. IInv' /\ RingInv' /\ UNCHANGED reports
  BY <1>1, <1>2, StepIInv, PostRing, Zenon DEF SystemInv, vars, controller
<1>4. Unread' = Append(Unread, PortEvent) /\ UNCHANGED <<listener, erdp, er_deque, er_pc>>
  BY <1>1, <1>2, PostFifo, Zenon DEF Fifo!Post, Post, WriteEvent, reader
<1>5. CarryInv'
  <2>1. Match(reports, l, Unread, 0) /\ listener["PortStatusChange"] = <<>>
    BY <1>1, Zenon DEF SystemInv, CarryInv
  <2>2. Match(reports', l, Unread', Len(Unread) + 1)
    BY <1>3, <1>4, <2>1, Channels, MatchPort, Zenon
  <2>3. Len(Unread) + 1 \in Nat /\ Len(Unread) + 1 # 0
    BY Channels, LenProperties
  <2>. QED  BY <1>1, <1>4, <2>1, <2>2, <2>3, Zenon DEF CarryInv
<1>6. ChannelType' /\ ErdpInv'
  BY <1>1, <1>4, Zenon DEF SystemInv, ChannelType, ErdpInv, Queued, distance
<1>. QED  BY <1>1, <1>2, <1>3, <1>5, <1>6, Zenon DEF SystemInv, EventRingNext

LEMMA PopSystem ==
  ASSUME SystemInv, pop, UNCHANGED <<vars, port_change>>
  PROVE  SystemInv'
<1>. DEFINE l == listener["TransferEvent"]
            p == listener["PortStatusChange"]
            e == Head(Unread)
<1>1. IInv' /\ RingInv' /\ UNCHANGED <<reports, port_change, erdp, er_pc>>
  BY StepIInv, PopRing, Zenon DEF SystemInv, vars, controller, pop
<1>2. /\ Unread # <<>> /\ Unread' = Tail(Unread)
      /\ listener' = [listener EXCEPT ![e.kind] = Append(@, e)]
  BY PopFifo, Zenon DEF Fifo!Notify, SystemInv
<1>3. /\ reports \in Seq(Slots) /\ Unread \in Seq(Entries)
      /\ l \in Seq(Entries) /\ p \in Seq(Entries) /\ e \in Entries
      /\ listener \in [Kinds -> Seq(Entries)]
  BY <1>2, Channels, HeadTailProperties, Zenon DEF SystemInv, ChannelType
<1>4. PICK k \in Nat :
        /\ Match(reports, l, Unread, k)
        /\ p = IF k = 0 /\ port_change THEN <<PortEvent>> ELSE <<>>
        /\ k # 0 => port_change
  BY Zenon DEF SystemInv, CarryInv
<1>5. distance(erdp, er_deque)' <= distance(erdp, er_deque) + 1
  <2>1. er_deque' = following(er_deque) /\ er_deque \in EventSlots /\ erdp \in EventSlots
    BY PopRing, Zenon DEF SystemInv, RingInv, RangeInv
  <2>. QED  BY <1>1, <2>1, EventRingAssumption DEF distance, following, EventSlots
<1>6. distance(erdp, er_deque) \in Nat /\ distance(erdp, er_deque)' \in Nat
  <2>1. /\ er_deque \in EventSlots /\ erdp \in EventSlots
        /\ er_deque' \in EventSlots /\ erdp' \in EventSlots
    BY <1>1, Zenon DEF SystemInv, RingInv, RangeInv
  <2>. QED  BY <2>1, DistanceRange, Zenon
<1>7. distance(erdp, er_deque) <= Queued /\ Queued \in Nat /\ er_pc = "pop"
  BY Channels, Zenon DEF SystemInv, ErdpInv, pop
<1>8. CASE k # 1
  <2>1. /\ e.kind = "TransferEvent"
        /\ Match(reports, Append(l, e), Tail(Unread), IF k = 0 THEN 0 ELSE k - 1)
    BY <1>2, <1>3, <1>4, <1>8, MatchPop, Zenon
  <2>2. l' = Append(l, e) /\ p' = p /\ listener' \in [Kinds -> Seq(Entries)]
    <3>1. Append(l, e) \in Seq(Entries)
      BY <1>3, AppendProperties, Zenon
    <3>2. listener' = [listener EXCEPT !["TransferEvent"] = Append(l, e)]
      BY <1>2, <1>3, <2>1, Zenon
    <3>. HIDE DEF e
    <3>. QED  BY <1>3, <3>1, <3>2, Zenon DEF Kinds
  <2>3. Len(l') = Len(l) + 1 /\ Len(l) \in Nat /\ Len(p) \in Nat
    BY <1>3, <2>2, AppendProperties, LenProperties
  <2>4. Queued' = Queued + 1
    <3>. DEFINE a == Len(l)
                b == Len(p)
                c == Len(l')
                d == Len(p')
    <3>1. Queued = a + b /\ Queued' = c + d
      BY Zenon DEF Queued
    <3>2. a \in Nat /\ b \in Nat /\ c + d = a + b + 1
      <4>1. c = a + 1 /\ d = b
        BY <2>1, <2>2, <2>3, Zenon
      <4>2. a \in Nat /\ b \in Nat
        BY <2>3, Zenon
      <4>. HIDE DEF a, b, c, d
      <4>. QED  BY <4>1, <4>2
    <3>. HIDE DEF a, b, c, d
    <3>. QED  BY <3>1, <3>2, Zenon
  <2>. DEFINE m == IF k = 0 THEN 0 ELSE k - 1
  <2>5. m \in Nat /\ (m = 0 <=> k = 0)
    BY <1>8
  <2>. HIDE DEF m
  <2>6. CarryInv'
    <3>1. Match(reports', l', Unread', m)
      BY <1>1, <1>2, <2>1, <2>2, Zenon DEF m
    <3>. QED  BY <1>1, <1>4, <2>2, <2>5, <3>1 DEF CarryInv
  <2>7. ErdpInv'
    <3>1. distance(erdp, er_deque)' <= Queued'
      BY <1>5, <1>6, <1>7, <2>4
    <3>. QED  BY <1>1, <1>7, <3>1, Zenon DEF ErdpInv
  <2>. QED  BY <1>1, <2>2, <2>6, <2>7, Zenon DEF SystemInv, ChannelType
<1>9. CASE k = 1
  <2>1. e = PortEvent /\ Match(reports, l, Tail(Unread), 0) /\ p = <<>> /\ port_change
    BY <1>2, <1>3, <1>4, <1>9, MatchPopPort
  <2>2. l' = l /\ p' = <<PortEvent>> /\ listener' \in [Kinds -> Seq(Entries)]
    <3>1. e.kind = "PortStatusChange"
      BY <2>1 DEF PortEvent
    <3>2. p' = <<PortEvent>>
      <4>1. p' = Append(p, e)
        BY <1>2, <1>3, <3>1, Zenon DEF Kinds
      <4>2. Append(<<>>, PortEvent) = <<PortEvent>>
        OBVIOUS
      <4>. QED  BY <2>1, <4>1, <4>2, Zenon
    <3>3. l' = l /\ listener' \in [Kinds -> Seq(Entries)]
      BY <1>2, <1>3, <3>1 DEF Kinds
    <3>. QED  BY <3>2, <3>3, Zenon
  <2>3. Len(p') = Len(p) + 1 /\ Len(l) \in Nat /\ Len(p) \in Nat
    BY <1>3, <2>1, <2>2, LenProperties
  <2>4. Queued' = Queued + 1
    <3>. DEFINE a == Len(l)
                b == Len(p)
                c == Len(l')
                d == Len(p')
    <3>1. Queued = a + b /\ Queued' = c + d
      BY Zenon DEF Queued
    <3>2. a \in Nat /\ b \in Nat /\ c + d = a + b + 1
      <4>1. c = a /\ d = b + 1
        BY <2>1, <2>2, <2>3, Zenon
      <4>2. a \in Nat /\ b \in Nat
        BY <2>3, Zenon
      <4>. HIDE DEF a, b, c, d
      <4>. QED  BY <4>1, <4>2
    <3>. HIDE DEF a, b, c, d
    <3>. QED  BY <3>1, <3>2, Zenon
  <2>5. CarryInv'
    <3>1. Match(reports', l', Unread', 0)
      BY <1>1, <1>2, <2>1, <2>2, Zenon
    <3>. QED  BY <1>1, <2>1, <2>2, <3>1 DEF CarryInv
  <2>6. ErdpInv'
    <3>1. distance(erdp, er_deque)' <= Queued'
      BY <1>5, <1>6, <1>7, <2>4
    <3>. QED  BY <1>1, <1>7, <3>1, Zenon DEF ErdpInv
  <2>. QED  BY <1>1, <2>2, <2>5, <2>6, Zenon DEF SystemInv, ChannelType
<1>. QED  BY <1>8, <1>9, Zenon

LEMMA MainSystem ==
  ASSUME SystemInv, Main
  PROVE  SystemInv' /\ [Next]_vars /\ [EventRingNext]_event_ring
<1>0. UNCHANGED <<vars, port_change>> /\ UNCHANGED reports
  BY Zenon DEF Main, vars, controller
<1>1. CASE pop
  BY <1>0, <1>1, PopSystem, Zenon DEF EventRingNext, on_xhc_interrupt
<1>2. ASSUME enter \/ pop_none \/ write_erdp
      PROVE  SystemInv'
  <2>1. IInv' /\ RingInv' /\ UNCHANGED <<er_data, er_deque, er_enque>>
    BY <1>0, <1>2, StepIInv, OtherRing, Zenon DEF SystemInv
  <2>2. UNCHANGED <<listener, Unread>>
    BY <1>2, <2>1, Zenon DEF enter, pop_none, write_erdp, Unread, distance, place
  <2>3. ChannelType' /\ CarryInv'
    BY <1>0, <2>2, Zenon DEF SystemInv, ChannelType, CarryInv
  <2>4. ErdpInv'
    <3>1. CASE enter \/ pop_none
      BY <2>1, <2>2, <3>1, Zenon DEF enter, pop_none, SystemInv, ErdpInv, Queued, distance
    <3>2. CASE write_erdp
      <4>1. distance(erdp, er_deque)' = 0 /\ erdp' = er_deque'
        BY <3>2, EventRingAssumption
           DEF write_erdp, distance, SystemInv, RingInv, RangeInv, EventSlots
      <4>2. UNCHANGED Queued
        BY <2>2, Zenon DEF Queued
      <4>3. 0 <= Queued
        BY Channels
      <4>. QED  BY <4>1, <4>2, <4>3, Zenon DEF ErdpInv
    <3>. QED  BY <1>2, <3>1, <3>2, Zenon
  <2>. QED  BY <2>1, <2>3, <2>4, Zenon DEF SystemInv
<1>. QED  BY <1>0, <1>1, <1>2, Zenon DEF Main, on_xhc_interrupt, EventRingNext

LEMMA TrfSystem ==
  ASSUME SystemInv, on_trf_event
  PROVE  SystemInv' /\ [Next]_vars /\ [EventRingNext]_event_ring
<1>. DEFINE l == listener["TransferEvent"]
            p == listener["PortStatusChange"]
<1>1. /\ receive("TransferEvent") /\ set_deque_ptr /\ UNCHANGED port_change
      /\ reports' = Tail(reports) /\ "TransferEvent" \in Kinds
      /\ UNCHANGED <<er_pc, erdp, er_deque>> /\ er_pc = "idle"
  BY Zenon DEF on_trf_event, receive, set_deque_ptr, Kinds
<1>2. l # <<>> /\ listener' = [listener EXCEPT !["TransferEvent"] = Tail(@)] /\ UNCHANGED Unread
  BY <1>1, ReceiveFifo, Zenon DEF SystemInv, Fifo!Receive
<1>3. IInv' /\ RingInv'
  BY <1>1, AckStep, OtherRing, Zenon DEF SystemInv
<1>4. l' = Tail(l) /\ p' = p /\ listener' \in [Kinds -> Seq(Entries)]
  <2>1. Tail(l) \in Seq(Entries)
    BY <1>2, Channels, HeadTailProperties, Zenon
  <2>2. listener \in [Kinds -> Seq(Entries)]
    BY Zenon DEF SystemInv, ChannelType
  <2>. QED  BY <1>2, <2>1, <2>2, Zenon DEF Kinds
<1>5. CarryInv'
  <2>1. PICK k \in Nat :
          /\ Match(reports, l, Unread, k)
          /\ p = IF k = 0 /\ port_change THEN <<PortEvent>> ELSE <<>>
          /\ k # 0 => port_change
    BY Zenon DEF SystemInv, CarryInv
  <2>2. Match(reports', l', Unread', k)
    BY <1>1, <1>2, <1>4, <2>1, Channels, MatchReceive, Zenon
  <2>. QED  BY <1>1, <1>4, <2>1, <2>2, Zenon DEF CarryInv
<1>6. SystemInv'
  <2>1. Queued' \in Nat
    <3>. DEFINE a == Len(l')
                b == Len(p')
    <3>1. a \in Nat /\ b \in Nat /\ Queued' = a + b
      BY <1>4, LenProperties, Zenon DEF Queued, Kinds
    <3>. HIDE DEF a, b
    <3>. QED  BY <3>1
  <2>2. erdp = er_deque /\ er_deque \in EventSlots
    BY <1>1, Zenon DEF SystemInv, ErdpInv, RingInv, RangeInv
  <2>3. distance(erdp, er_deque)' = 0
    BY <1>1, <2>2, EventRingAssumption DEF distance, EventSlots
  <2>4. ErdpInv'
    BY <1>1, <2>1, <2>2, <2>3 DEF ErdpInv
  <2>5. ChannelType'
    BY <1>1, <1>4, Zenon DEF SystemInv, ChannelType
  <2>. QED  BY <1>3, <1>5, <2>4, <2>5, Zenon DEF SystemInv
<1>. QED  BY <1>1, <1>6, Zenon DEF Next, EventRingNext

LEMMA PortEventSystem ==
  ASSUME SystemInv, on_port_event
  PROVE  SystemInv' /\ [Next]_vars /\ [EventRingNext]_event_ring
<1>. DEFINE l == listener["TransferEvent"]
            p == listener["PortStatusChange"]
<1>1. /\ receive("PortStatusChange") /\ port_change' = FALSE /\ UNCHANGED <<vars, reports>>
      /\ "PortStatusChange" \in Kinds
      /\ UNCHANGED <<er_pc, erdp, er_deque>> /\ er_pc = "idle"
  BY Zenon DEF on_port_event, receive, Kinds, vars, controller
<1>2. p # <<>> /\ listener' = [listener EXCEPT !["PortStatusChange"] = Tail(@)] /\ UNCHANGED Unread
  BY <1>1, ReceiveFifo, Zenon DEF SystemInv, Fifo!Receive
<1>3. IInv' /\ RingInv'
  BY <1>1, StepIInv, OtherRing, Zenon DEF SystemInv
<1>4. p = <<PortEvent>> /\ Match(reports, l, Unread, 0)
  BY <1>2, Zenon DEF SystemInv, CarryInv
<1>5. l' = l /\ p' = <<>> /\ listener' \in [Kinds -> Seq(Entries)]
  <2>1. Tail(p) = <<>> /\ <<>> \in Seq(Entries)
    BY <1>4
  <2>2. listener \in [Kinds -> Seq(Entries)]
    BY Zenon DEF SystemInv, ChannelType
  <2>. QED  BY <1>2, <2>1, <2>2, Zenon DEF Kinds
<1>6. CarryInv'
  BY <1>1, <1>2, <1>4, <1>5, Zenon DEF CarryInv
<1>7. SystemInv'
  <2>1. Queued' \in Nat
    <3>. DEFINE a == Len(l')
                b == Len(p')
    <3>1. a \in Nat /\ b \in Nat /\ Queued' = a + b
      BY <1>5, LenProperties, Zenon DEF Queued, Kinds
    <3>. HIDE DEF a, b
    <3>. QED  BY <3>1
  <2>2. erdp = er_deque /\ er_deque \in EventSlots
    BY <1>1, Zenon DEF SystemInv, ErdpInv, RingInv, RangeInv
  <2>3. distance(erdp, er_deque)' = 0
    BY <1>1, <2>2, EventRingAssumption DEF distance, EventSlots
  <2>4. ErdpInv'
    BY <1>1, <2>1, <2>2, <2>3 DEF ErdpInv
  <2>5. ChannelType'
    BY <1>1, <1>5, Zenon DEF ChannelType
  <2>. QED  BY <1>3, <1>6, <2>4, <2>5, Zenon DEF SystemInv
<1>. QED  BY <1>1, <1>7, Zenon DEF EventRingNext

LEMMA StutterSystem ==
  ASSUME SystemInv, UNCHANGED allvars
  PROVE  SystemInv' /\ [Next]_vars /\ [EventRingNext]_event_ring
<1>1. UNCHANGED <<vars, event_ring, port_change, reports, listener, er_pc, erdp, er_deque>>
  BY Zenon DEF allvars, vars, controller, event_ring
<1>2. IInv' /\ RingInv'
  BY <1>1, StepIInv, OtherRing, Zenon DEF SystemInv
<1>3. UNCHANGED Unread
  BY <1>1, Zenon DEF event_ring, Unread, distance, place
<1>4. ChannelType' /\ CarryInv' /\ ErdpInv'
  BY <1>1, <1>3, Zenon DEF SystemInv, ChannelType, CarryInv, ErdpInv, Queued, distance
<1>. QED  BY <1>1, <1>2, <1>4, Zenon DEF SystemInv

LEMMA StepSystem ==
  SystemInv /\ [SystemNext]_allvars
    => SystemInv' /\ [Next]_vars /\ [EventRingNext]_event_ring
BY PushSystem, LinkSystem, ExecuteSystem, PortSystem, MainSystem, TrfSystem,
   PortEventSystem, StutterSystem, Zenon DEF SystemNext

LEMMA SystemInvariance == SystemSpec => []SystemInv
BY InitSystem, StepSystem, PTL DEF SystemSpec

(* Composing the rings takes nothing from either: a behaviour of both, with *)
(* main, the tasks and the xHC in any order, is one of the ring of requests *)
(* and one of the event ring.                                               *)
THEOREM Composition == SystemSpec => Spec /\ EventRingSpec
<1>1. SystemInit => Init /\ EventRingInit
  BY Zenon DEF SystemInit
<1>. QED  BY <1>1, StepSystem, SystemInvariance, PTL DEF SystemSpec, Spec, EventRingSpec

(* Hence what holds of each ring alone holds of the two together, the       *)
(* specification the run of XhciRings checks.                               *)
THEOREM RingsTogether ==
  SystemSpec => /\ []NeverStalls /\ ReportedSlotsKept
                /\ ImplementsTrbQueue /\ ImplementsEventFifo
BY Composition, NoStall, SlotsKept, RingRefinement, EventRingRefinement, PTL

-----------------------------------------------------------------------------
(* The places of the transfer events, and how many there are up to one.     *)
LEMMA MatchPlaces ==
  ASSUME NEW r \in Seq(Slots), NEW l \in Seq(Entries), NEW u \in Seq(Entries), NEW k \in Nat,
         Match(r, l, u, k)
  PROVE  LET c == l \o u
             t == {i \in 1 .. Len(c) : c[i].kind = "TransferEvent"}
         IN  /\ Len(r) = Cardinality(t)
             /\ \A i \in t : c[i].ptr = r[Cardinality({j \in t : j <= i})]
<1>. DEFINE c == l \o u
            t == {i \in 1 .. Len(c) : c[i].kind = "TransferEvent"}
            x == IF k = 0 THEN 0 ELSE Len(l) + k
            q(i) == IF x # 0 /\ x < i THEN i - 1 ELSE i
<1>1. /\ Len(l) \in Nat /\ Len(u) \in Nat /\ Len(c) = Len(l) + Len(u)
      /\ \A i \in 1 .. Len(l) : c[i] = l[i]
      /\ \A i \in 1 .. Len(u) : c[Len(l) + i] = u[i]
  BY ConcatProperties, LenProperties
<1>2. /\ k \in 0 .. Len(u) /\ Len(r) = Len(c) - (IF k = 0 THEN 0 ELSE 1)
      /\ \A i \in 1 .. Len(l) : l[i] = Report(r[i])
      /\ \A i \in 1 .. Len(u) :
           u[i] = IF i = k THEN PortEvent
                  ELSE Report(r[Len(l) + (IF k # 0 /\ k < i THEN i - 1 ELSE i)])
  BY <1>1 DEF Match
<1>. HIDE DEF c
<1>3. ASSUME NEW i \in 1 .. Len(c)
      PROVE  (i = x => c[i] = PortEvent) /\ (i # x => c[i] = Report(r[q(i)]))
  <2>1. CASE i \in 1 .. Len(l)
    <3>1. c[i] = Report(r[i])
      BY <1>1, <1>2, <2>1, Zenon
    <3>2. i # x /\ q(i) = i
      <4>1. Len(l) \in Nat /\ x \in Nat /\ (x = 0 \/ x > Len(l))
        BY <1>1
      <4>2. i \in Nat /\ i # 0 /\ i <= Len(l)
        BY <2>1, <4>1
      <4>. HIDE DEF x
      <4>3. CASE x = 0
        BY <4>2, <4>3, Zenon
      <4>4. CASE x > Len(l)
        BY <4>1, <4>2, <4>4
      <4>. QED  BY <4>1, <4>3, <4>4, Zenon
    <3>. HIDE DEF x, q
    <3>. QED  BY <3>1, <3>2, Zenon
  <2>2. CASE i \in Len(l) + 1 .. Len(c)
    <3>. DEFINE j == i - Len(l)
    <3>1. j \in 1 .. Len(u) /\ i = Len(l) + j
      BY <1>1, <2>2
    <3>2. c[i] = u[j]
      BY <1>1, <3>1, Zenon
    <3>3. u[j] = IF j = k THEN PortEvent
                 ELSE Report(r[Len(l) + (IF k # 0 /\ k < j THEN j - 1 ELSE j)])
      BY <1>2, <3>1, Zenon
    <3>. HIDE DEF j
    <3>4. i = x <=> j = k
      <4>1. CASE k = 0
        BY <3>1, <4>1
      <4>2. CASE k # 0
        <5>1. x = Len(l) + k /\ Len(l) \in Nat /\ j \in Nat
          BY <1>1, <3>1, <4>2
        <5>. HIDE DEF x
        <5>. QED  BY <3>1, <5>1
      <4>. QED  BY <4>1, <4>2, Zenon
    <3>5. q(i) = Len(l) + (IF k # 0 /\ k < j THEN j - 1 ELSE j)
      <4>1. CASE k = 0
        BY <1>1, <3>1, <4>1, Zenon
      <4>2. CASE k # 0
        <5>1. x = Len(l) + k /\ Len(l) \in Nat /\ j \in Nat
          BY <1>1, <3>1, <4>2
        <5>. HIDE DEF x
        <5>2. x # 0 /\ (x < i <=> k < j) /\ i - 1 = Len(l) + (j - 1)
          BY <3>1, <4>2, <5>1
        <5>. QED  BY <3>1, <4>2, <5>2, Zenon
      <4>. QED  BY <4>1, <4>2, Zenon
    <3>. HIDE DEF x, q
    <3>6. CASE j = k
      BY <3>2, <3>3, <3>4, <3>6, Zenon
    <3>7. CASE j # k
      BY <3>2, <3>3, <3>4, <3>5, <3>7, Zenon
    <3>. QED  BY <3>6, <3>7, Zenon
  <2>3. i \in 1 .. Len(l) \/ i \in Len(l) + 1 .. Len(c)
    BY <1>1
  <2>. QED  BY <2>1, <2>2, <2>3, Zenon
<1>4. x \in 0 .. Len(c) /\ Len(c) \in Nat /\ Len(r) = Len(c) - (IF x = 0 THEN 0 ELSE 1)
  <2>1. CASE k = 0
    BY <1>1, <1>2, <2>1
  <2>2. CASE k # 0
    <3>1. x = Len(l) + k /\ Len(r) = Len(c) - 1
      BY <1>2, <2>2, Zenon
    <3>. HIDE DEF x
    <3>2. x \in 0 .. Len(c) /\ x # 0 /\ Len(c) \in Nat
      BY <1>1, <1>2, <2>2, <3>1
    <3>. QED  BY <3>1, <3>2, Zenon
  <2>. QED  BY <2>1, <2>2, Zenon
<1>. HIDE DEF x
<1>5. t = (1 .. Len(c)) \ {x}
  <2>. HIDE DEF q
  <2>1. PortEvent.kind # "TransferEvent" /\ \A y : Report(y).kind = "TransferEvent"
    BY Zenon DEF Report, PortEvent
  <2>. QED  BY <1>3, <2>1, Zenon
<1>. HIDE DEF t
<1>6. ASSUME NEW n \in 0 .. Len(c)
      PROVE  Cardinality((1 .. n) \ {x}) = IF x # 0 /\ x <= n THEN n - 1 ELSE n
  <2>1. IsFiniteSet(1 .. n) /\ Cardinality(1 .. n) = n
    BY <1>4, FS_Interval
  <2>2. Cardinality((1 .. n) \ {x}) = IF x \in 1 .. n THEN Cardinality(1 .. n) - 1
                                       ELSE Cardinality(1 .. n)
    BY <2>1, FS_RemoveElement, Zenon
  <2>. QED  BY <1>4, <2>1, <2>2
<1>7. Len(r) = Cardinality(t)
  <2>1. Len(c) \in 0 .. Len(c)
    BY <1>4
  <2>2. Cardinality(t) = IF x # 0 /\ x <= Len(c) THEN Len(c) - 1 ELSE Len(c)
    BY <1>5, <1>6, <2>1, Zenon
  <2>3. CASE x = 0
    BY <1>4, <2>2, <2>3
  <2>4. CASE x # 0
    BY <1>4, <2>2, <2>4
  <2>. QED  BY <2>3, <2>4, Zenon
<1>8. ASSUME NEW i \in t
      PROVE  c[i].ptr = r[Cardinality({j \in t : j <= i})]
  <2>1. i \in 1 .. Len(c) /\ i # x
    BY <1>5, Zenon
  <2>2. {j \in t : j <= i} = (1 .. i) \ {x}
    BY <1>4, <1>5, <2>1
  <2>3. Cardinality((1 .. i) \ {x}) = q(i)
    BY <1>4, <1>6, <2>1
  <2>. HIDE DEF q
  <2>4. c[i].ptr = r[q(i)]
    <3>1. \A y : Report(y).ptr = y
      BY Zenon DEF Report
    <3>. QED  BY <1>3, <2>1, <3>1, Zenon
  <2>. QED  BY <2>2, <2>3, <2>4, Zenon
<1>. QED  BY <1>7, <1>8, Zenon DEF c, t

(* The transfer events in the event ring and in the channel name the TRBs   *)
(* whose slots set_deque_ptr is still to free, each once and in order.      *)
THEOREM EventsNameRequests == SystemSpec => []ReportsCarried
<1>1. SystemInv => ReportsCarried
  <2>. SUFFICES ASSUME SystemInv PROVE ReportsCarried
    BY Zenon
  <2>1. PICK k \in Nat : Match(reports, listener["TransferEvent"], Unread, k)
    BY Zenon DEF SystemInv, CarryInv
  <2>. QED  BY <2>1, Channels, MatchPlaces, Zenon DEF ReportsCarried
<1>. QED  BY <1>1, SystemInvariance, PTL

\* The slots the xHC may not write yet are those of events to be handled.
LEMMA TakenSlots ==
  ASSUME SystemInv
  PROVE  distance(erdp, er_enque) <= Outstanding /\ Outstanding \in Nat
<1>. DEFINE l == listener["TransferEvent"]
            p == listener["PortStatusChange"]
            a == Len(l)
            b == Len(p)
            c == Len(Unread)
            n == Len(reports)
<1>1. PICK k \in Nat :
        /\ Match(reports, l, Unread, k)
        /\ p = IF k = 0 /\ port_change THEN <<PortEvent>> ELSE <<>>
        /\ k # 0 => port_change
  BY Zenon DEF SystemInv, CarryInv
<1>2. a \in Nat /\ c \in Nat /\ n \in Nat
  BY Channels, LenProperties, Zenon
<1>3. n = a + c - (IF k = 0 THEN 0 ELSE 1)
  BY <1>1, Zenon DEF Match
<1>4. b = IF k = 0 /\ port_change THEN 1 ELSE 0
  BY <1>1, Zenon
<1>5. Queued = a + b /\ Outstanding = n + (IF port_change THEN 1 ELSE 0)
  BY Zenon DEF Queued, Outstanding
<1>6. /\ c = distance(er_deque, er_enque)
      /\ distance(erdp, er_deque) <= Queued
      /\ distance(erdp, er_deque) <= distance(erdp, er_enque)
      /\ er_deque \in EventSlots /\ er_enque \in EventSlots /\ erdp \in EventSlots
  BY UnreadType, Zenon DEF SystemInv, ErdpInv, RingInv, EventOrderInv, RangeInv
<1>7. distance(erdp, er_enque) = distance(erdp, er_deque) + distance(er_deque, er_enque)
  BY <1>6, EventRingAssumption DEF distance, EventSlots
<1>8. distance(erdp, er_deque) \in Nat /\ distance(erdp, er_enque) \in Nat
  BY <1>6, DistanceRange, Zenon
<1>. HIDE DEF a, b, c, n
<1>9. n + (IF port_change THEN 1 ELSE 0) = a + b + c
  <2>1. CASE k = 0
    BY <1>2, <1>3, <1>4, <2>1
  <2>2. CASE k # 0
    BY <1>1, <1>2, <1>3, <1>4, <2>2
  <2>. QED  BY <2>1, <2>2, Zenon
<1>10. b \in Nat
  BY <1>4, Zenon
<1>. DEFINE x == distance(erdp, er_deque)
            y == distance(erdp, er_enque)
<1>11. /\ Outstanding = a + b + c /\ a \in Nat /\ b \in Nat /\ c \in Nat
       /\ x \in Nat /\ x <= a + b /\ y = x + c
  BY <1>2, <1>5, <1>6, <1>7, <1>8, <1>9, <1>10, Zenon
<1>. HIDE DEF x, y
<1>12. y <= Outstanding /\ Outstanding \in Nat
  BY <1>11
<1>. QED  BY <1>12, Zenon DEF y

LEMMA RoomFromDistance ==
  ASSUME NEW d \in EventSlots, NEW e \in EventSlots, distance(d, e) < M - 2
  PROVE  following(following(e)) # d /\ following(e) # d
BY EventRingAssumption DEF distance, following, EventSlots

(* However late main writes ERDP, only events that are still to be handled  *)
(* take room in the event ring.                                             *)
THEOREM RoomForEvents == SystemSpec => []AlwaysRoom
<1>1. SystemInv => AlwaysRoom
  <2>. SUFFICES ASSUME SystemInv, Outstanding < M - 2 PROVE Room
    BY Zenon DEF AlwaysRoom
  <2>1. erdp \in EventSlots /\ er_enque \in EventSlots
    BY Zenon DEF SystemInv, RingInv, RangeInv
  <2>2. distance(erdp, er_enque) < M - 2
    BY <2>1, TakenSlots, DistanceRange, EventRingAssumption
  <2>. QED  BY <2>1, <2>2, RoomFromDistance, Zenon DEF Room
<1>. QED  BY <1>1, SystemInvariance, PTL

\* Reports are of TRBs executed and not acknowledged, each of another one.
LEMMA ReportsBound ==
  ASSUME IInv
  PROVE  Len(reports) <= ahead(deque, head)
<1>. DEFINE n == Len(reports)
            h == ahead(deque, head)
            f == [i \in 1 .. n |-> ahead(deque, reports[i])]
<1>1. /\ n \in Nat /\ deque \in Slots /\ head \in Slots
      /\ \A i \in 1 .. n : reports[i] \in Slots /\ ahead(deque, reports[i]) < h
      /\ \A i, j \in 1 .. n : i < j => ahead(deque, reports[i]) < ahead(deque, reports[j])
  <2>1. deque \in Slots /\ head \in Slots
    BY Positions, Zenon
  <2>2. reports \in Seq(Slots)
    BY Zenon DEF IInv, TypeOK
  <2>3. n \in Nat /\ \A i \in 1 .. n : reports[i] \in Slots
    BY <2>2, LenProperties, ElementOfSeq, Zenon
  <2>. QED  BY <2>1, <2>3, Zenon DEF IInv, ReportInv
<1>2. h \in Nat
  BY <1>1, AheadRange, Zenon
<1>. HIDE DEF n, h
<1>3. \A i \in 1 .. n : ahead(deque, reports[i]) \in Nat
  BY <1>1, AheadRange, Zenon
<1>4. f \in [1 .. n -> 0 .. h - 1]
  BY <1>1, <1>2, <1>3
<1>5. ASSUME NEW i \in 1 .. n, NEW j \in 1 .. n, i # j PROVE f[i] # f[j]
  <2>1. i < j \/ j < i
    BY <1>1, <1>5
  <2>. QED  BY <1>1, <1>3, <2>1
<1>. HIDE DEF f
<1>6. f \in Injection(1 .. n, 0 .. h - 1)
  BY <1>4, <1>5, Zenon DEF Injection, IsInjective
<1>7. IsFiniteSet(0 .. h - 1) /\ Cardinality(0 .. h - 1) = h
  BY <1>2, FS_Interval
<1>8. Cardinality(1 .. n) = n
  BY <1>1, FS_Interval
<1>9. n <= h
  BY <1>6, <1>7, <1>8, FS_Injection
<1>. QED  BY <1>9, Zenon DEF n, h

(* An event ring at least as long as the ring of requests, as in the kernel, *)
(* where both have 32 TRBs, never stops the xHC: it finds room for the event *)
(* of each TRB it can execute, however many requests are pushed and however  *)
(* late main and the tasks handle them, while no event of a port is on its   *)
(* way as well.                                                              *)
THEOREM RoomForEveryRequest ==
  ASSUME M >= N
  PROVE  SystemSpec => [](at # Last /\ cycle[at] = ccs /\ ~port_change => Room)
<1>1. SystemInv => (at # Last /\ cycle[at] = ccs /\ ~port_change => Room)
  <2>. SUFFICES ASSUME SystemInv, at # Last, cycle[at] = ccs, ~port_change PROVE Room
    BY Zenon
  <2>. DEFINE n == Len(reports)
              h == ahead(deque, head)
              e == ahead(deque, enque)
  <2>1. n <= h /\ h <= e /\ e < Last /\ h \in Nat /\ e \in Nat
    BY ReportsBound, Positions, AheadRange, Zenon DEF SystemInv, IInv, OrderInv
  <2>2. h < e
    <3>1. at \in Slots /\ head = at /\ at # enque /\ enque \in Slots /\ deque \in Slots
      BY SizeAssumption
         DEF SystemInv, IInv, TypeOK, CycleInv, LapInv, Slots, Last, Bit, head
    <3>2. h # e
      BY <3>1, SizeAssumption DEF ahead, Slots, Last
    <3>. QED  BY <2>1, <3>2
  <2>3. n \in Nat
    BY Channels, LenProperties, Zenon
  <2>4. Outstanding = n
    BY <2>3 DEF Outstanding
  <2>. HIDE DEF n, h, e
  <2>5. Outstanding < M - 2
    BY <2>1, <2>2, <2>3, <2>4, SizeAssumption, EventRingAssumption DEF Last
  <2>6. erdp \in EventSlots /\ er_enque \in EventSlots
    BY Zenon DEF SystemInv, RingInv, RangeInv
  <2>7. distance(erdp, er_enque) < M - 2
    BY <2>5, <2>6, TakenSlots, DistanceRange, EventRingAssumption
  <2>. QED  BY <2>6, <2>7, RoomFromDistance, Zenon DEF Room
<1>. QED  BY <1>1, SystemInvariance, PTL
=============================================================================
