----------------------- MODULE ObjectAllocatorProofs -----------------------
(***************************************************************************)
(* For any sizes of frames, blocks and header, any layouts and any number  *)
(* of objects: no unit of memory ever has two uses, no block is lost, and  *)
(* every object has the room and the alignment it was asked for.           *)
(*                                                                         *)
(* A refill and the removal that follows it are one step, so the invariant *)
(* is stated of any free frames m, free lists fl and objects lv: one lemma *)
(* says what a refill does to it and another what a removal does.          *)
(***************************************************************************)
EXTENDS ObjectAllocator, FiniteSetTheorems, TLAPS

(* A non-empty set of natural numbers has a least element: what the loops   *)
(* that look for the first of something rest on.                            *)
LEMMA Least ==
  ASSUME NEW S, S \subseteq Nat, S # {}
  PROVE  \E n \in S : \A m \in S : n <= m
<1>. DEFINE R == OpToRel(<, Nat)
<1>1. ASSUME NEW y \in Nat, NEW x \in Nat, y < x PROVE <<y, x>> \in R
  <2>1. <<y, x>> \in Nat \X Nat /\ <<y, x>>[1] < <<y, x>>[2]
    BY <1>1, Zenon
  <2>. QED  BY <2>1, Zenon DEF R, OpToRel
<1>2. IsWellFoundedOn(R, Nat)
  BY NatLessThanWellFounded, Zenon
<1>. HIDE DEF R
<1>3. PICK n \in S : \A m \in S : ~(<<m, n>> \in R)
  BY <1>2, WFMin, Zenon
<1>4. ASSUME NEW m \in S PROVE n <= m
  <2>1. m \in Nat /\ n \in Nat /\ <<m, n>> \notin R
    BY <1>3, Zenon
  <2>2. ~(m < n)
    BY <1>1, <2>1, Zenon
  <2>. QED  BY <2>1, <2>2
<1>. QED  BY <1>4, Zenon

LEMMA Lengths ==
  ASSUME NEW S, NEW s \in Seq(S)
  PROVE  Len(s) \in Nat /\ \A i \in 1 .. Len(s) : s[i] \in S
OBVIOUS

LEMMA Joined ==
  ASSUME NEW S, NEW s \in Seq(S), NEW t \in Seq(S)
  PROVE  /\ s \o t \in Seq(S) /\ Len(s \o t) = Len(s) + Len(t)
         /\ \A i \in 1 .. Len(s) + Len(t) :
              (s \o t)[i] = IF i <= Len(s) THEN s[i] ELSE t[i - Len(s)]
OBVIOUS

LEMMA MulMono ==
  ASSUME NEW k \in Nat, NEW m \in Nat, NEW d \in Nat \ {0}
  PROVE  /\ k * d \in Nat
         /\ k < m => k * d + d <= m * d
         /\ k <= m => k * d <= m * d
         /\ k * d = m * d => k = m
         /\ k * d < m * d => k < m
         /\ (k + m) * d = k * d + m * d
OBVIOUS

LEMMA MulDiv ==
  ASSUME NEW k \in Nat, NEW d \in Nat \ {0}, NEW r \in 0 .. d - 1
  PROVE  (k * d + r) \div d = k /\ (k * d + r) % d = r
OBVIOUS

LEMMA DivMod ==
  ASSUME NEW a \in Nat, NEW d \in Nat \ {0}
  PROVE  /\ a \div d \in Nat /\ a % d \in 0 .. d - 1
         /\ (a \div d) * d <= a /\ a < (a \div d) * d + d
         /\ a % d = 0 => a = (a \div d) * d
OBVIOUS
LEMMA MulAssoc ==
  ASSUME NEW a \in Nat, NEW b \in Nat, NEW c \in Nat
  PROVE  a * (b * c) = (a * b) * c
OBVIOUS

-----------------------------------------------------------------------------
Frames == 1 .. LastFrame
FrameOf(a) == a \div BYTES_PER_FRAME

\* The blocks the header takes, and the blocks of a frame.
HeaderBlocks(i) == (HEADER + BLOCK_SZ[i] - 1) \div BLOCK_SZ[i]
PerFrame(i) == BYTES_PER_FRAME \div BLOCK_SZ[i]

Small(o) == o.size <= MaxBlock
Run(o) == FrameOf(o.ptr) .. FrameOf(o.ptr) + nframes(o.size) - 1

Addresses(s) == {s[k] : k \in 1 .. Len(s)}
Distinct(s) == \A j, k \in 1 .. Len(s) : s[j] = s[k] => j = k

Used(lv, i) == {o \in lv : Small(o) /\ class(o.size) = i}
UsedAt(lv, i) == {o.ptr : o \in Used(lv, i)}

\* The blocks of size i that exist, free or in use.
Held(fl, lv, i) == Addresses(fl[i]) \union UsedAt(lv, i)

\* a is the address of a block of size i, on a frame given to that size.
OnPage(m, i, a) ==
  /\ a \in Nat /\ \E k \in Nat : a = k * BLOCK_SZ[i]
  /\ FrameOf(a) \in Frames \ m
  /\ a + BLOCK_SZ[i] <= (FrameOf(a) + 1) * BYTES_PER_FRAME
  /\ FrameOf(a) \in Classes =>
       FrameOf(a) = i /\ a >= i * BYTES_PER_FRAME + HeaderBlocks(i) * BLOCK_SZ[i]

IsObject(o) ==
  /\ \E p \in Nat, l \in Layouts : o = Object(p, l)
  /\ Small(o) => fitting(o.size) # {}
  /\ o.ptr % o.align = 0

Types(m, fl, lv) ==
  /\ m \subseteq Frames \ Classes
  /\ fl \in [Classes -> Seq(Nat)]
  /\ IsFiniteSet(lv) /\ \A o \in lv : IsObject(o)

\* A block is free once, or in use by one object.
Once(fl, lv) ==
  /\ \A i \in Classes : Distinct(fl[i]) /\ Addresses(fl[i]) \cap UsedAt(lv, i) = {}
  /\ \A o, p \in lv : o.ptr = p.ptr => o = p

\* A frame holds blocks of one size only.
Pages(m, fl, lv) ==
  /\ \A i \in Classes : \A a \in Held(fl, lv, i) : OnPage(m, i, a)
  /\ \A i, j \in Classes : \A a \in Held(fl, lv, i), b \in Held(fl, lv, j) :
       FrameOf(a) = FrameOf(b) => i = j

\* The frames of a large object are its own.
Large(m, fl, lv) ==
  \A o \in lv : ~Small(o) =>
    /\ o.ptr = FrameOf(o.ptr) * BYTES_PER_FRAME
    /\ Run(o) \subseteq Frames \ (m \union Classes)
    /\ \A i \in Classes : \A a \in Held(fl, lv, i) : FrameOf(a) \notin Run(o)
    /\ \A p \in lv : ~Small(p) /\ p # o => Run(o) \cap Run(p) = {}

Whole(fl, lv) ==
  \A i \in Classes : \E q \in Nat :
    Len(fl[i]) + Cardinality(Used(lv, i)) + HeaderBlocks(i) = q * PerFrame(i)

AllocInv(m, fl, lv) ==
  Types(m, fl, lv) /\ Once(fl, lv) /\ Pages(m, fl, lv) /\ Large(m, fl, lv) /\ Whole(fl, lv)

-----------------------------------------------------------------------------
LEMMA Sizes ==
  ASSUME NEW i \in Classes
  PROVE  /\ BLOCK_SZ[i] \in Nat \ {0} /\ PerFrame(i) \in Nat \ {0} /\ HeaderBlocks(i) \in Nat
         /\ BYTES_PER_FRAME = PerFrame(i) * BLOCK_SZ[i]
         /\ HeaderBlocks(i) <= PerFrame(i)
         /\ LOCKED <= HeaderBlocks(i) * BLOCK_SZ[i]
         /\ i \in Frames
<1>. DEFINE sz == BLOCK_SZ[i]
<1>1. sz \in Nat \ {0} /\ i \in Frames
  BY SizeAssumption, Lengths DEF Classes, Frames
<1>2. HEADER < BYTES_PER_FRAME /\ BYTES_PER_FRAME % sz = 0 /\ LOCKED <= HeaderBlocks(i) * sz
  BY BlockAssumption, Zenon DEF Classes, HeaderBlocks
<1>. HIDE DEF sz
<1>3. PerFrame(i) = BYTES_PER_FRAME \div sz /\ HeaderBlocks(i) = (HEADER + sz - 1) \div sz
  BY Zenon DEF PerFrame, HeaderBlocks, sz
<1>4. PerFrame(i) \in Nat /\ BYTES_PER_FRAME = PerFrame(i) * sz
  <2>1. BYTES_PER_FRAME \in Nat
    BY SizeAssumption, Zenon
  <2>2. /\ BYTES_PER_FRAME \div sz \in Nat
        /\ BYTES_PER_FRAME = (BYTES_PER_FRAME \div sz) * sz
    BY <1>1, <1>2, <2>1, DivMod, Zenon
  <2>. QED  BY <1>3, <2>2, Zenon
<1>5. PerFrame(i) # 0
  <2>. SUFFICES ASSUME PerFrame(i) = 0 PROVE FALSE
    BY Zenon
  <2>1. 0 * sz = 0
    BY <1>1
  <2>. QED  BY <1>4, <2>1, SizeAssumption, Zenon
<1>6. HEADER + sz - 1 \in Nat
  BY <1>1, SizeAssumption
<1>7. HeaderBlocks(i) \in Nat /\ HeaderBlocks(i) * sz <= HEADER + sz - 1
  BY <1>1, <1>3, <1>6, DivMod, Zenon
<1>8. HeaderBlocks(i) <= PerFrame(i)
  <2>. SUFFICES ASSUME PerFrame(i) < HeaderBlocks(i) PROVE FALSE
    BY <1>4, <1>7
  <2>1. PerFrame(i) * sz + sz <= HeaderBlocks(i) * sz
    BY <1>1, <1>4, <1>7, MulMono, Zenon
  <2>2. HeaderBlocks(i) * sz \in Nat
    BY <1>1, <1>7, MulMono, Zenon
  <2>. QED  BY <1>1, <1>2, <1>4, <1>7, <2>1, <2>2, SizeAssumption
<1>. QED  BY <1>1, <1>2, <1>4, <1>5, <1>7, <1>8, Zenon DEF sz

LEMMA FrameBounds ==
  ASSUME NEW a \in Nat
  PROVE  /\ FrameOf(a) \in Nat
         /\ FrameOf(a) * BYTES_PER_FRAME <= a
         /\ a < (FrameOf(a) + 1) * BYTES_PER_FRAME
<1>1. /\ FrameOf(a) \in Nat /\ FrameOf(a) * BYTES_PER_FRAME <= a
      /\ a < FrameOf(a) * BYTES_PER_FRAME + BYTES_PER_FRAME
  BY DivMod, SizeAssumption, Zenon DEF FrameOf
<1>2. (FrameOf(a) + 1) * BYTES_PER_FRAME = FrameOf(a) * BYTES_PER_FRAME + BYTES_PER_FRAME
  BY <1>1, SizeAssumption
<1>. QED  BY <1>1, <1>2, Zenon

LEMMA FrameUnique ==
  ASSUME NEW a \in Nat, NEW f \in Nat,
         f * BYTES_PER_FRAME <= a, a < (f + 1) * BYTES_PER_FRAME
  PROVE  FrameOf(a) = f
<1>. DEFINE B == BYTES_PER_FRAME
            r == a - f * B
<1>1. B \in Nat \ {0} /\ f * B \in Nat /\ (f + 1) * B = f * B + B
  BY SizeAssumption, MulMono
<1>. HIDE DEF B
<1>2. r \in 0 .. B - 1 /\ a = f * B + r
  BY <1>1 DEF B
<1>. HIDE DEF r
<1>3. a \div B = f
  BY <1>1, <1>2, MulDiv, Zenon
<1>. QED  BY <1>3, Zenon DEF FrameOf, B

(* The block size alloc and dealloc choose holds the object.               *)
LEMMA ClassOf ==
  ASSUME NEW size \in Nat, fitting(size) # {}
  PROVE  class(size) \in Classes /\ BLOCK_SZ[class(size)] > size
<1>1. fitting(size) \subseteq Nat
  BY DEF fitting, Classes
<1>2. \E i \in fitting(size) : \A j \in fitting(size) : i <= j
  BY <1>1, Least, Zenon
<1>3. class(size) \in fitting(size)
  BY <1>2, Zenon DEF class, Min
<1>. QED  BY <1>3, Zenon DEF fitting

(* allocate returns the start of a run of free frames.                     *)
LEMMA AllocatedRun ==
  ASSUME mem \subseteq Frames, NEW n \in Nat, allocate(n) # 0
  PROVE  /\ allocate(n) \in Frames /\ allocate(n) \in mem
         /\ allocate(n) .. allocate(n) + n - 1 \subseteq mem
<1>1. Runs(n) \subseteq Nat /\ Runs(n) \subseteq mem
  <2>1. Frames \subseteq Nat
    BY SizeAssumption DEF Frames
  <2>2. Runs(n) \subseteq mem
    BY Zenon DEF Runs
  <2>. QED  BY <2>1, <2>2, Zenon
<1>2. Runs(n) # {}
  BY Zenon DEF allocate, Min
<1>3. \E s \in Runs(n) : \A t \in Runs(n) : s <= t
  BY <1>1, <1>2, Least, Zenon
<1>4. allocate(n) \in Runs(n)
  BY <1>2, <1>3, Zenon DEF allocate, Min
<1>. QED  BY <1>1, <1>4, Zenon DEF Runs

LEMMA FramesFor ==
  ASSUME NEW size \in Nat
  PROVE  /\ nframes(size) \in Nat /\ size <= nframes(size) * BYTES_PER_FRAME
         /\ size > 0 => nframes(size) > 0
<1>. DEFINE B == BYTES_PER_FRAME
            n == nframes(size)
<1>1. B \in Nat \ {0} /\ size + B - 1 \in Nat
  BY SizeAssumption
<1>2. n = (size + B - 1) \div B
  BY Zenon DEF nframes
<1>. HIDE DEF n, B
<1>3. n \in Nat /\ size + B - 1 < n * B + B
  BY <1>1, <1>2, DivMod, Zenon
<1>4. n * B \in Nat
  BY <1>1, <1>3, MulMono, Zenon
<1>5. size <= n * B
  BY <1>1, <1>3, <1>4
<1>6. size > 0 => n > 0
  <2>1. 0 * B = 0
    BY <1>1
  <2>. QED  BY <1>3, <1>5, <2>1
<1>. QED  BY <1>3, <1>5, <1>6, Zenon DEF n, B

-----------------------------------------------------------------------------
LEMMA ListRemove ==
  ASSUME NEW s \in Seq(Nat), NEW k \in 1 .. Len(s), Distinct(s)
  PROVE  LET t == unlinked(s, k)
         IN  /\ t \in Seq(Nat) /\ Len(t) = Len(s) - 1 /\ Distinct(t)
             /\ Addresses(t) = Addresses(s) \ {s[k]}
<1>. DEFINE n == Len(s)
            u == SubSeq(s, 1, k - 1)
            v == SubSeq(s, k + 1, n)
            t == unlinked(s, k)
            e(i) == IF i < k THEN i ELSE i + 1
<1>1. n \in Nat /\ k \in 1 .. n /\ k \in Nat
  BY Lengths
<1>2. u \in Seq(Nat) /\ Len(u) = k - 1 /\ \A i \in 1 .. k - 1 : u[i] = s[i]
  BY <1>1
<1>3. v \in Seq(Nat) /\ Len(v) = n - k /\ \A i \in 1 .. n - k : v[i] = s[k + i]
  BY <1>1
<1>4. t = u \o v
  BY Zenon DEF unlinked
<1>. HIDE DEF t, u, v, n
<1>5. t \in Seq(Nat) /\ Len(t) = n - 1
  <2>0. u \in Seq(Nat) /\ v \in Seq(Nat)
    BY <1>2, <1>3, Zenon
  <2>1. u \o v \in Seq(Nat) /\ Len(u \o v) = Len(u) + Len(v)
    BY <2>0, Joined, Zenon
  <2>2. (k - 1) + (n - k) = n - 1
    BY <1>1
  <2>. QED  BY <1>2, <1>3, <1>4, <2>1, <2>2, Zenon
<1>6. ASSUME NEW i \in 1 .. n - 1 PROVE t[i] = s[e(i)]
  <2>1. CASE i < k
    BY <1>1, <1>2, <1>3, <1>4, <2>1, Joined DEF n
  <2>2. CASE ~(i < k)
    <3>1. /\ i - (k - 1) \in 1 .. n - k /\ k + (i - (k - 1)) = i + 1
          /\ i \in 1 .. Len(u) + Len(v) /\ ~(i <= Len(u)) /\ i - Len(u) = i - (k - 1)
      BY <1>1, <1>2, <1>3, <2>2 DEF n
    <3>2. t[i] = v[i - Len(u)]
      BY <1>2, <1>3, <1>4, <3>1, Joined, Zenon
    <3>. QED  BY <1>3, <2>2, <3>1, <3>2, Zenon
  <2>. QED  BY <2>1, <2>2, Zenon
<1>7. /\ \A i \in 1 .. n - 1 : e(i) \in 1 .. n /\ e(i) # k
      /\ \A i, j \in 1 .. n - 1 : e(i) = e(j) => i = j
  <2>1. ASSUME NEW i \in 1 .. n - 1 PROVE e(i) \in 1 .. n /\ e(i) # k
    BY <1>1
  <2>2. ASSUME NEW i \in 1 .. n - 1, NEW j \in 1 .. n - 1, e(i) = e(j) PROVE i = j
    BY <1>1, <2>2
  <2>. QED  BY <2>1, <2>2, Zenon
<1>8. /\ \A i \in 1 .. k - 1 : i \in 1 .. n - 1 /\ e(i) = i
      /\ \A i \in k + 1 .. n : i - 1 \in 1 .. n - 1 /\ e(i - 1) = i
  BY <1>1
<1>. HIDE DEF e
<1>9. \A i, j \in 1 .. n : s[i] = s[j] => i = j
  BY Zenon DEF Distinct, n
<1>10. Distinct(t)
  <2>. SUFFICES ASSUME NEW i \in 1 .. n - 1, NEW j \in 1 .. n - 1, t[i] = t[j] PROVE i = j
    BY <1>5, Zenon DEF Distinct
  <2>1. e(i) = e(j)
    BY <1>6, <1>7, <1>9, Zenon
  <2>. QED  BY <1>7, <2>1, Zenon
<1>11. Addresses(t) = Addresses(s) \ {s[k]}
  <2>1. Addresses(t) = {t[i] : i \in 1 .. n - 1} /\ Addresses(s) = {s[i] : i \in 1 .. n}
    BY <1>5, Zenon DEF Addresses, n
  <2>2. ASSUME NEW i \in 1 .. n - 1 PROVE t[i] \in Addresses(s) \ {s[k]}
    BY <1>1, <1>6, <1>7, <1>9, <2>1, Zenon
  <2>3. ASSUME NEW i \in 1 .. n, i # k PROVE s[i] \in Addresses(t)
    <3>1. i \in 1 .. k - 1 \/ i \in k + 1 .. n
      BY <1>1, <2>3
    <3>. QED  BY <1>6, <1>8, <2>1, <3>1, Zenon
  <2>. QED  BY <2>1, <2>2, <2>3, Zenon
<1>. QED  BY <1>5, <1>10, <1>11, Zenon DEF t, n

LEMMA ListJoin ==
  ASSUME NEW s \in Seq(Nat), NEW t \in Seq(Nat), Distinct(s), Distinct(t),
         Addresses(s) \cap Addresses(t) = {}
  PROVE  /\ s \o t \in Seq(Nat) /\ Len(s \o t) = Len(s) + Len(t) /\ Distinct(s \o t)
         /\ Addresses(s \o t) = Addresses(s) \union Addresses(t)
<1>. DEFINE u == s \o t
            m == Len(s)
            n == Len(t)
<1>1. /\ m \in Nat /\ n \in Nat /\ u \in Seq(Nat) /\ Len(u) = m + n
      /\ \A i \in 1 .. m : u[i] = s[i]
      /\ \A i \in m + 1 .. m + n : u[i] = t[i - m]
  BY Joined, Lengths
<1>. HIDE DEF u, m, n
<1>2. ASSUME NEW i \in 1 .. m + n, ~(i <= m) PROVE i - m \in 1 .. n /\ i \in m + 1 .. m + n
  BY <1>1, <1>2
<1>3. ASSUME NEW i \in 1 .. m, NEW j \in 1 .. n PROVE s[i] # t[j]
  BY Zenon DEF Addresses, m, n
<1>4. Distinct(u)
  <2>. SUFFICES ASSUME NEW i \in 1 .. m + n, NEW j \in 1 .. m + n, u[i] = u[j] PROVE i = j
    BY <1>1, Zenon DEF Distinct
  <2>1. CASE i <= m /\ j <= m
    <3>1. i \in 1 .. m /\ j \in 1 .. m
      BY <1>1, <2>1
    <3>. QED  BY <1>1, <3>1, Zenon DEF Distinct, m
  <2>2. CASE ~(i <= m) /\ ~(j <= m)
    <3>1. i - m \in 1 .. n /\ j - m \in 1 .. n /\ t[i - m] = t[j - m]
      BY <1>1, <1>2, <2>2, Zenon
    <3>2. i - m = j - m
      BY <3>1, Zenon DEF Distinct, n
    <3>. QED  BY <1>1, <3>2
  <2>3. CASE i <= m /\ ~(j <= m)
    BY <1>1, <1>2, <1>3, <2>3
  <2>4. CASE ~(i <= m) /\ j <= m
    BY <1>1, <1>2, <1>3, <2>4
  <2>. QED  BY <2>1, <2>2, <2>3, <2>4, Zenon
<1>5. Addresses(u) \subseteq Addresses(s) \union Addresses(t)
  <2>. SUFFICES ASSUME NEW i \in 1 .. m + n
                PROVE  u[i] \in Addresses(s) \union Addresses(t)
    BY <1>1, Zenon DEF Addresses
  <2>1. CASE i <= m
    <3>1. i \in 1 .. m
      BY <1>1, <2>1
    <3>. QED  BY <1>1, <3>1, Zenon DEF Addresses, m
  <2>2. CASE ~(i <= m)
    BY <1>1, <1>2, <2>2, Zenon DEF Addresses, n
  <2>. QED  BY <2>1, <2>2, Zenon
<1>6. Addresses(s) \union Addresses(t) \subseteq Addresses(u)
  <2>1. ASSUME NEW i \in 1 .. m PROVE s[i] \in Addresses(u)
    BY <1>1 DEF Addresses
  <2>2. ASSUME NEW i \in 1 .. n PROVE t[i] \in Addresses(u)
    <3>1. m + i \in m + 1 .. m + n /\ m + i \in 1 .. m + n /\ (m + i) - m = i
      BY <1>1
    <3>. QED  BY <1>1, <3>1, Zenon DEF Addresses
  <2>. QED  BY <2>1, <2>2, Zenon DEF Addresses, m, n
<1>. QED  BY <1>1, <1>4, <1>5, <1>6, Zenon DEF u, m, n

\* b is the list of the c blocks from block k of memory on, each once.
BlockList(b, k, c, d) ==
  /\ b \in Seq(Nat) /\ Len(b) = c /\ Distinct(b)
  /\ \A j \in 1 .. c : b[j] = (k + (j - 1)) * d

LEMMA Blocks ==
  ASSUME NEW d \in Nat \ {0}, NEW k \in Nat, NEW c \in Nat,
         NEW b, b = blocks(k * d, (k + c) * d, d)
  PROVE  BlockList(b, k, c, d)
<1>. DEFINE from == k * d
            to == (k + c) * d
<1>1. (to - from) \div d = c
  <2>1. to = k * d + c * d /\ k * d \in Nat /\ c * d \in Nat
    BY MulMono
  <2>2. to - from = c * d + 0
    BY <2>1
  <2>. QED  BY <2>2, MulDiv
<1>2. b = [j \in 1 .. c |-> from + (j - 1) * d]
  BY <1>1, Zenon DEF blocks
<1>3. ASSUME NEW j \in 1 .. c
      PROVE  j - 1 \in Nat /\ from + (j - 1) * d = (k + (j - 1)) * d /\ (k + (j - 1)) * d \in Nat
  <2>1. j - 1 \in Nat
    OBVIOUS
  <2>. QED  BY <2>1, MulMono
<1>4. \A j \in 1 .. c : b[j] = (k + (j - 1)) * d /\ b[j] \in Nat
  BY <1>2, <1>3, Zenon
<1>5. b \in Seq(Nat) /\ Len(b) = c
  <2>1. b = [j \in 1 .. c |-> b[j]]
    BY <1>2, Zenon
  <2>. QED  BY <1>4, <2>1
<1>6. Distinct(b)
  <2>. SUFFICES ASSUME NEW j \in 1 .. c, NEW l \in 1 .. c, b[j] = b[l] PROVE j = l
    BY <1>5, Zenon DEF Distinct
  <2>1. k + (j - 1) \in Nat /\ k + (l - 1) \in Nat
    BY <1>3
  <2>2. (k + (j - 1)) * d = (k + (l - 1)) * d
    BY <1>4, Zenon
  <2>3. k + (j - 1) = k + (l - 1)
    BY <2>1, <2>2, MulMono
  <2>. QED  BY <2>3
<1>. QED  BY <1>4, <1>5, <1>6, Zenon DEF BlockList

\* b lists the blocks of frame f after its first h ones.
PageList(b, i, f, h) ==
  /\ b \in Seq(Nat) /\ Len(b) = PerFrame(i) - h /\ Distinct(b)
  /\ \A a \in Addresses(b) :
       /\ a \in Nat /\ \E k \in Nat : a = k * BLOCK_SZ[i]
       /\ FrameOf(a) = f
       /\ a + BLOCK_SZ[i] <= (FrameOf(a) + 1) * BYTES_PER_FRAME
       /\ a >= f * BYTES_PER_FRAME + h * BLOCK_SZ[i]

LEMMA PageBlocks ==
  ASSUME NEW i \in Classes, NEW f \in Nat, NEW h \in 0 .. PerFrame(i), NEW b,
         b = blocks(f * BYTES_PER_FRAME + h * BLOCK_SZ[i],
                    f * BYTES_PER_FRAME + BYTES_PER_FRAME, BLOCK_SZ[i])
  PROVE  PageList(b, i, f, h)
<1>. DEFINE d == BLOCK_SZ[i]
            p == PerFrame(i)
            B == BYTES_PER_FRAME
            k == f * p + h
            c == p - h
            from == f * B + h * d
            to == f * B + B
<1>1. d \in Nat \ {0} /\ p \in Nat \ {0} /\ B = p * d /\ h \in 0 .. p /\ B \in Nat \ {0}
  BY Sizes, SizeAssumption, Zenon
<1>. HIDE DEF d, p, B
<1>2. f * B = (f * p) * d /\ f * p \in Nat /\ f * B \in Nat /\ (f + 1) * B = f * B + B
  BY <1>1, MulAssoc, MulMono
<1>3. k \in Nat /\ c \in Nat /\ h \in Nat /\ h + c = p /\ k + c = f * p + p
  BY <1>1, <1>2
<1>4. from = k * d
  BY <1>1, <1>2, <1>3, MulMono
<1>5. to = (k + c) * d
  <2>1. (f * p + p) * d = (f * p) * d + p * d
    BY <1>1, <1>2, MulMono
  <2>. QED  BY <1>1, <1>2, <1>3, <2>1, Zenon
<1>. HIDE DEF k, c, from, to
<1>6. /\ b \in Seq(Nat) /\ Len(b) = c /\ Distinct(b)
      /\ \A j \in 1 .. c : b[j] = (k + (j - 1)) * d
  <2>1. b = blocks(k * d, (k + c) * d, d)
    BY <1>4, <1>5, Zenon DEF from, to, d, p, B
  <2>2. d \in Nat \ {0} /\ k \in Nat /\ c \in Nat
    BY <1>1, <1>3, Zenon
  <2>3. BlockList(b, k, c, d)
    BY <2>1, <2>2, Blocks, Zenon
  <2>. QED  BY <2>3, Zenon DEF BlockList
<1>7. ASSUME NEW j \in 1 .. c
      PROVE  /\ b[j] \in Nat /\ \E n \in Nat : b[j] = n * d
             /\ FrameOf(b[j]) = f /\ b[j] + d <= (FrameOf(b[j]) + 1) * B
             /\ b[j] >= from
  <2>. DEFINE n == k + (j - 1)
  <2>1. n \in Nat /\ b[j] = n * d /\ k <= n /\ n < k + c
    BY <1>3, <1>6
  <2>. HIDE DEF n
  <2>2. b[j] \in Nat /\ from <= b[j] /\ b[j] + d <= to
    BY <1>1, <1>3, <1>4, <1>5, <2>1, MulMono
  <2>3. f * B <= from
    BY <1>1, <1>2, <1>3, MulMono DEF from
  <2>4. f * B <= b[j] /\ b[j] < (f + 1) * B /\ b[j] + d <= (f + 1) * B
    <3>1. from \in Nat
      BY <1>1, <1>3, <1>4, MulMono, Zenon
    <3>2. to = (f + 1) * B /\ to \in Nat
      BY <1>1, <1>2 DEF to
    <3>. QED  BY <1>1, <1>2, <2>2, <2>3, <3>1, <3>2
  <2>5. FrameOf(b[j]) = f
    BY <2>2, <2>4, FrameUnique, Zenon DEF B
  <2>. QED  BY <2>1, <2>2, <2>4, <2>5, Zenon
<1>8. ASSUME NEW a \in Addresses(b)
      PROVE  /\ a \in Nat /\ \E n \in Nat : a = n * d
             /\ FrameOf(a) = f /\ a + d <= (FrameOf(a) + 1) * B /\ a >= from
  <2>1. PICK j \in 1 .. c : a = b[j]
    BY <1>6, Zenon DEF Addresses
  <2>. QED  BY <1>7, <2>1, Zenon
<1>. QED  BY <1>6, <1>8, Zenon DEF PageList, c, from, d, p, B

LEMMA NewAt ==
  ASSUME NEW i \in Classes
  PROVE  PageList(new_at(i * BYTES_PER_FRAME, BLOCK_SZ[i]), i, i, HeaderBlocks(i))
<1>1. HeaderBlocks(i) \in 0 .. PerFrame(i) /\ i \in Nat
  BY Sizes DEF Classes
<1>2. new_at(i * BYTES_PER_FRAME, BLOCK_SZ[i])
        = blocks(i * BYTES_PER_FRAME + HeaderBlocks(i) * BLOCK_SZ[i],
                 i * BYTES_PER_FRAME + BYTES_PER_FRAME, BLOCK_SZ[i])
  BY Zenon DEF new_at, HeaderBlocks
<1>. QED  BY <1>1, <1>2, PageBlocks, Zenon

LEMMA Extend ==
  ASSUME NEW i \in Classes, NEW f \in Nat
  PROVE  PageList(extend(f * BYTES_PER_FRAME, BLOCK_SZ[i]), i, f, 0)
<1>1. 0 \in 0 .. PerFrame(i) /\ 0 * BLOCK_SZ[i] = 0 /\ f * BYTES_PER_FRAME \in Nat
  BY Sizes, MulMono, SizeAssumption
<1>2. f * BYTES_PER_FRAME + 0 * BLOCK_SZ[i] = f * BYTES_PER_FRAME
  BY <1>1
<1>3. extend(f * BYTES_PER_FRAME, BLOCK_SZ[i])
        = blocks(f * BYTES_PER_FRAME + 0 * BLOCK_SZ[i],
                 f * BYTES_PER_FRAME + BYTES_PER_FRAME, BLOCK_SZ[i])
  BY <1>2, Zenon DEF extend
<1>. QED  BY <1>1, <1>3, PageBlocks, Zenon

(* ObjectAllocator::new establishes the invariant.                          *)
LEMMA InitAlloc == Init => AllocInv(mem, free_list, live)
<1>. SUFFICES ASSUME Init PROVE AllocInv(mem, free_list, live)
  BY Zenon
<1>1. \A i \in Classes : PageList(free_list[i], i, i, HeaderBlocks(i))
  BY NewAt, Zenon DEF Init
<1>2. live = {} /\ mem = Len(BLOCK_SZ) + 1 .. LastFrame
  BY Zenon DEF Init
<1>3. \A i \in Classes : Used(live, i) = {} /\ UsedAt(live, i) = {}
  BY <1>2, Zenon DEF Used, UsedAt
<1>4. \A i \in Classes : Held(free_list, live, i) = Addresses(free_list[i])
  BY <1>3, Zenon DEF Held
<1>5. \A i \in Classes : i \in Frames /\ i \notin mem
  BY <1>2, Sizes, SizeAssumption DEF Classes
<1>6. Types(mem, free_list, live)
  <2>1. mem \subseteq Frames \ Classes
    BY <1>2, SizeAssumption DEF Frames, Classes
  <2>2. free_list = [i \in Classes |-> free_list[i]]
    BY Zenon DEF Init
  <2>3. free_list \in [Classes -> Seq(Nat)]
    BY <1>1, <2>2, Zenon DEF PageList
  <2>. QED  BY <1>2, <2>1, <2>3, FS_EmptySet, Zenon DEF Types
<1>7. Once(free_list, live)
  BY <1>1, <1>2, <1>3, Zenon DEF Once, PageList
<1>8. Pages(mem, free_list, live)
  <2>1. ASSUME NEW i \in Classes, NEW a \in Held(free_list, live, i)
        PROVE  FrameOf(a) = i /\ OnPage(mem, i, a)
    <3>1. a \in Addresses(free_list[i])
      BY <1>4, Zenon
    <3>. QED  BY <1>1, <1>5, <3>1, Zenon DEF PageList, OnPage
  <2>. QED  BY <2>1 DEF Pages
<1>9. Large(mem, free_list, live)
  BY <1>2, Zenon DEF Large
<1>10. Whole(free_list, live)
  <2>. SUFFICES ASSUME NEW i \in Classes
                PROVE  Len(free_list[i]) + Cardinality(Used(live, i)) + HeaderBlocks(i)
                         = 1 * PerFrame(i)
    BY Zenon DEF Whole
  <2>1. Cardinality(Used(live, i)) = 0
    BY <1>3, FS_EmptySet, Zenon
  <2>2. Len(free_list[i]) = PerFrame(i) - HeaderBlocks(i)
    BY <1>1, Zenon DEF PageList
  <2>. QED  BY <2>1, <2>2, Sizes
<1>. QED  BY <1>6, <1>7, <1>8, <1>9, <1>10, Zenon DEF AllocInv

-----------------------------------------------------------------------------
LEMMA MaxBlockNat == MaxBlock \in Nat \ {0}
BY SizeAssumption, Lengths DEF MaxBlock

LEMMA ObjectFields ==
  ASSUME NEW o, IsObject(o)
  PROVE  /\ o.ptr \in Nat /\ o.size \in Nat /\ o.align \in Nat \ {0} /\ o.ptr % o.align = 0
         /\ <<o.size, o.align>> \in Layouts
         /\ Small(o) => class(o.size) \in Classes /\ BLOCK_SZ[class(o.size)] > o.size
         /\ ~Small(o) => o.size > MaxBlock /\ nframes(o.size) \in Nat \ {0}
<1>1. PICK p \in Nat, l \in Layouts : o = Object(p, l)
  BY Zenon DEF IsObject
<1>2. l \in Nat \X (Nat \ {0})
  BY LayoutAssumption, Zenon
<1>3. o.ptr = p /\ o.size = l[1] /\ o.align = l[2] /\ l = <<l[1], l[2]>>
  BY <1>1, <1>2 DEF Object
<1>4. o.size \in Nat /\ o.align \in Nat \ {0}
  BY <1>2, <1>3, Zenon
<1>5. MaxBlock \in Nat
  BY MaxBlockNat, Zenon
<1>6. Small(o) => class(o.size) \in Classes /\ BLOCK_SZ[class(o.size)] > o.size
  BY <1>4, ClassOf, Zenon DEF IsObject
<1>7. ~Small(o) => o.size > MaxBlock /\ nframes(o.size) \in Nat \ {0}
  BY <1>4, <1>5, FramesFor DEF Small
<1>. QED  BY <1>1, <1>3, <1>4, <1>6, <1>7, Zenon DEF IsObject

(* A large object's run starts at its address.                              *)
LEMMA RunStart ==
  ASSUME NEW o, IsObject(o), ~Small(o)
  PROVE  FrameOf(o.ptr) \in Run(o) /\ FrameOf(o.ptr) \in Nat
<1>1. FrameOf(o.ptr) \in Nat /\ nframes(o.size) \in Nat \ {0}
  BY ObjectFields, FrameBounds, Zenon
<1>. QED  BY <1>1 DEF Run

(* PageHeader::extend: a refill with frame f.                               *)
LEMMA Refill ==
  ASSUME NEW m, NEW fl, NEW lv, AllocInv(m, fl, lv), NEW f \in m, NEW i \in Classes
  PROVE  AllocInv(m \ {f},
                  [fl EXCEPT ![i] = extend(f * BYTES_PER_FRAME, BLOCK_SZ[i]) \o fl[i]], lv)
<1>. DEFINE x == extend(f * BYTES_PER_FRAME, BLOCK_SZ[i])
            g == [fl EXCEPT ![i] = x \o fl[i]]
<1>1. Types(m, fl, lv) /\ Once(fl, lv) /\ Pages(m, fl, lv) /\ Large(m, fl, lv) /\ Whole(fl, lv)
  BY Zenon DEF AllocInv
<1>2. f \in Nat /\ f \in Frames /\ f \notin Classes /\ m \subseteq Frames \ Classes
  BY <1>1, SizeAssumption DEF Types, Frames
<1>3. PageList(x, i, f, 0)
  BY <1>2, Extend, Zenon
<1>. HIDE DEF x
<1>4. ASSUME NEW j \in Classes, NEW a \in Held(fl, lv, j) PROVE FrameOf(a) # f /\ OnPage(m, j, a)
  BY <1>1 DEF Pages, OnPage
<1>5. ASSUME NEW a \in Addresses(x)
      PROVE  /\ OnPage(m \ {f}, i, a) /\ FrameOf(a) = f
             /\ \A j \in Classes : a \notin Held(fl, lv, j)
  BY <1>2, <1>3, <1>4, Zenon DEF PageList, OnPage
<1>6. /\ x \o fl[i] \in Seq(Nat) /\ Len(x \o fl[i]) = Len(x) + Len(fl[i]) /\ Distinct(x \o fl[i])
      /\ Addresses(x \o fl[i]) = Addresses(x) \union Addresses(fl[i])
  <2>1. x \in Seq(Nat) /\ Distinct(x) /\ fl[i] \in Seq(Nat) /\ Distinct(fl[i])
    BY <1>1, <1>3, Zenon DEF PageList, Types, Once
  <2>2. Addresses(x) \cap Addresses(fl[i]) = {}
    BY <1>5, Zenon DEF Held
  <2>. QED  BY <2>1, <2>2, ListJoin, Zenon
<1>7. /\ g \in [Classes -> Seq(Nat)] /\ g[i] = x \o fl[i]
      /\ \A j \in Classes : j # i => g[j] = fl[j]
  BY <1>1, <1>6, Zenon DEF Types
<1>. HIDE DEF g
<1>8. ASSUME NEW j \in Classes, NEW a \in Held(g, lv, j)
      PROVE  a \in Held(fl, lv, j) \/ (j = i /\ a \in Addresses(x))
  BY <1>6, <1>7, Zenon DEF Held
<1>9. Types(m \ {f}, g, lv)
  BY <1>1, <1>7, Zenon DEF Types
<1>10. Once(g, lv)
  <2>1. ASSUME NEW j \in Classes PROVE Distinct(g[j])
    BY <1>1, <1>6, <1>7, Zenon DEF Once
  <2>2. ASSUME NEW j \in Classes PROVE Addresses(g[j]) \cap UsedAt(lv, j) = {}
    <3>1. CASE j = i
      <4>1. Addresses(x) \cap UsedAt(lv, i) = {}
        BY <1>5, Zenon DEF Held
      <4>2. Addresses(fl[i]) \cap UsedAt(lv, i) = {}
        BY <1>1, Zenon DEF Once
      <4>. QED  BY <1>6, <1>7, <3>1, <4>1, <4>2, Zenon
    <3>2. CASE j # i
      BY <1>1, <1>7, <3>2, Zenon DEF Once
    <3>. QED  BY <3>1, <3>2, Zenon
  <2>. QED  BY <1>1, <2>1, <2>2, Zenon DEF Once
<1>11. Pages(m \ {f}, g, lv)
  <2>1. ASSUME NEW j \in Classes, NEW a \in Held(g, lv, j) PROVE OnPage(m \ {f}, j, a)
    BY <1>4, <1>5, <1>8, Zenon DEF OnPage
  <2>2. ASSUME NEW j \in Classes, NEW l \in Classes,
               NEW a \in Held(g, lv, j), NEW b \in Held(g, lv, l), FrameOf(a) = FrameOf(b)
        PROVE  j = l
    <3>1. a \in Held(fl, lv, j) \/ (j = i /\ a \in Addresses(x))
      BY <1>8, Zenon
    <3>2. b \in Held(fl, lv, l) \/ (l = i /\ b \in Addresses(x))
      BY <1>8, Zenon
    <3>. QED  BY <1>1, <1>4, <1>5, <2>2, <3>1, <3>2, Zenon DEF Pages
  <2>. QED  BY <2>1, <2>2, Zenon DEF Pages
<1>12. Large(m \ {f}, g, lv)
  <2>. SUFFICES ASSUME NEW o \in lv, ~Small(o)
                PROVE  /\ o.ptr = FrameOf(o.ptr) * BYTES_PER_FRAME
                       /\ Run(o) \subseteq Frames \ ((m \ {f}) \union Classes)
                       /\ \A j \in Classes : \A a \in Held(g, lv, j) : FrameOf(a) \notin Run(o)
                       /\ \A p \in lv : ~Small(p) /\ p # o => Run(o) \cap Run(p) = {}
    BY Zenon DEF Large
  <2>1. /\ o.ptr = FrameOf(o.ptr) * BYTES_PER_FRAME
        /\ Run(o) \subseteq Frames \ (m \union Classes)
        /\ \A j \in Classes : \A a \in Held(fl, lv, j) : FrameOf(a) \notin Run(o)
        /\ \A p \in lv : ~Small(p) /\ p # o => Run(o) \cap Run(p) = {}
    BY <1>1, Zenon DEF Large
  <2>2. f \notin Run(o)
    BY <2>1, Zenon
  <2>3. ASSUME NEW j \in Classes, NEW a \in Held(g, lv, j) PROVE FrameOf(a) \notin Run(o)
    BY <1>5, <1>8, <2>1, <2>2, Zenon
  <2>. QED  BY <2>1, <2>3, Zenon
<1>13. Whole(g, lv)
  <2>. SUFFICES ASSUME NEW j \in Classes
                PROVE  \E q \in Nat : Len(g[j]) + Cardinality(Used(lv, j)) + HeaderBlocks(j)
                                        = q * PerFrame(j)
    BY Zenon DEF Whole
  <2>1. PICK q \in Nat : Len(fl[j]) + Cardinality(Used(lv, j)) + HeaderBlocks(j) = q * PerFrame(j)
    BY <1>1, Zenon DEF Whole
  <2>2. CASE j # i
    BY <1>7, <2>1, <2>2, Zenon
  <2>3. CASE j = i
    <3>. DEFINE n == Len(fl[i])
                c == Cardinality(Used(lv, i))
    <3>1. Len(g[i]) = PerFrame(i) - 0 + n
      BY <1>3, <1>6, <1>7, Zenon DEF PageList
    <3>2. n \in Nat /\ c \in Nat /\ HeaderBlocks(i) \in Nat /\ PerFrame(i) \in Nat \ {0}
      <4>1. IsFiniteSet(Used(lv, i))
        BY <1>1, FS_Subset, Zenon DEF Types, Used
      <4>. QED  BY <1>1, <4>1, FS_CardinalityType, Sizes, Lengths, Zenon DEF Types
    <3>3. n + c + HeaderBlocks(i) = q * PerFrame(i)
      BY <2>1, <2>3, Zenon
    <3>4. (q + 1) * PerFrame(i) = q * PerFrame(i) + PerFrame(i)
      BY <3>2
    <3>. HIDE DEF n, c
    <3>5. Len(g[i]) + c + HeaderBlocks(i) = (q + 1) * PerFrame(i)
      BY <3>1, <3>2, <3>3, <3>4
    <3>. QED  BY <2>3, <3>5 DEF c
  <2>. QED  BY <2>2, <2>3, Zenon
<1>. QED  BY <1>9, <1>10, <1>11, <1>12, <1>13, Zenon DEF AllocInv, g, x

(* A step that only moves blocks between the free lists and the objects.    *)
LEMMA Moved ==
  ASSUME NEW m, NEW fl, NEW lv, AllocInv(m, fl, lv), NEW g, NEW w,
         Types(m, g, w), Once(g, w),
         \A j \in Classes : Held(g, w, j) = Held(fl, lv, j),
         \A o : ~Small(o) => (o \in w <=> o \in lv),
         \A j \in Classes : Len(g[j]) + Cardinality(Used(w, j))
                              = Len(fl[j]) + Cardinality(Used(lv, j))
  PROVE  AllocInv(m, g, w)
<1>1. Pages(m, fl, lv) /\ Large(m, fl, lv) /\ Whole(fl, lv)
  BY Zenon DEF AllocInv
<1>2. Pages(m, g, w)
  BY <1>1, Zenon DEF Pages
<1>3. Large(m, g, w)
  BY <1>1, Zenon DEF Large
<1>4. Whole(g, w)
  BY <1>1, Zenon DEF Whole
<1>. QED  BY <1>2, <1>3, <1>4, Zenon DEF AllocInv

(* pop_filter: block k of list i becomes an object.                         *)
LEMMA Take ==
  ASSUME NEW m, NEW fl, NEW lv, AllocInv(m, fl, lv),
         NEW l \in Layouts, l[1] <= MaxBlock, fitting(l[1]) # {},
         NEW i, i = class(l[1]), NEW k \in 1 .. Len(fl[i]), fl[i][k] % l[2] = 0
  PROVE  AllocInv(m, [fl EXCEPT ![i] = unlinked(fl[i], k)], lv \union {Object(fl[i][k], l)})
<1>. DEFINE o == Object(fl[i][k], l)
            g == [fl EXCEPT ![i] = unlinked(fl[i], k)]
            w == lv \union {o}
<1>1. Types(m, fl, lv) /\ Once(fl, lv) /\ Pages(m, fl, lv) /\ Large(m, fl, lv) /\ Whole(fl, lv)
  BY Zenon DEF AllocInv
<1>2. l[1] \in Nat /\ i \in Classes
  BY LayoutAssumption, ClassOf, Zenon
<1>3. fl[i] \in Seq(Nat) /\ Distinct(fl[i]) /\ fl[i][k] \in Nat /\ fl[i][k] \in Addresses(fl[i])
  BY <1>1, <1>2, Lengths, Zenon DEF Types, Once, Addresses
<1>4. o.ptr = fl[i][k] /\ o.size = l[1] /\ o.align = l[2]
  BY Zenon DEF Object
<1>5. IsObject(o) /\ Small(o)
  BY <1>3, <1>4, Zenon DEF IsObject, Small
<1>. HIDE DEF o
<1>6. o.ptr \in Held(fl, lv, i) /\ o.ptr \in Addresses(fl[i])
  BY <1>3, <1>4, Zenon DEF Held
<1>7. /\ unlinked(fl[i], k) \in Seq(Nat) /\ Len(unlinked(fl[i], k)) = Len(fl[i]) - 1
      /\ Distinct(unlinked(fl[i], k)) /\ Addresses(unlinked(fl[i], k)) = Addresses(fl[i]) \ {o.ptr}
  BY <1>3, <1>4, ListRemove, Zenon
<1>8. /\ g \in [Classes -> Seq(Nat)] /\ g[i] = unlinked(fl[i], k)
      /\ \A j \in Classes : j # i => g[j] = fl[j]
  BY <1>1, <1>2, <1>7, Zenon DEF Types
<1>. HIDE DEF g
<1>9. ASSUME NEW p \in lv PROVE p.ptr # o.ptr
  <2>0. IsObject(p)
    BY <1>1, Zenon DEF Types
  <2>. SUFFICES ASSUME p.ptr = o.ptr PROVE FALSE
    BY Zenon
  <2>1. CASE Small(p)
    <3>1. class(p.size) \in Classes /\ p.ptr \in UsedAt(lv, class(p.size))
      BY <2>0, <2>1, ObjectFields, Zenon DEF UsedAt, Used
    <3>2. p.ptr \in Held(fl, lv, class(p.size))
      BY <3>1, Zenon DEF Held
    <3>3. class(p.size) = i
      BY <1>1, <1>2, <1>6, <3>1, <3>2, Zenon DEF Pages
    <3>. QED  BY <1>1, <1>2, <1>6, <3>1, <3>3, Zenon DEF Once
  <2>2. CASE ~Small(p)
    BY <1>1, <1>2, <1>6, <2>0, <2>2, RunStart, Zenon DEF Large
  <2>. QED  BY <2>1, <2>2, Zenon
<1>10. o \notin lv
  BY <1>9, Zenon
<1>11. Used(w, i) = Used(lv, i) \union {o} /\ \A j \in Classes : j # i => Used(w, j) = Used(lv, j)
  BY <1>4, <1>5, Zenon DEF Used
<1>12. /\ UsedAt(w, i) = UsedAt(lv, i) \union {o.ptr}
       /\ \A j \in Classes : j # i => UsedAt(w, j) = UsedAt(lv, j)
  BY <1>11, Zenon DEF UsedAt
<1>13. Types(m, g, w)
  <2>1. IsFiniteSet(w)
    BY <1>1, FS_AddElement, Zenon DEF Types
  <2>. QED  BY <1>1, <1>5, <1>8, <2>1, Zenon DEF Types
<1>14. Once(g, w)
  <2>1. ASSUME NEW j \in Classes PROVE Distinct(g[j])
    BY <1>1, <1>7, <1>8, Zenon DEF Once
  <2>2. ASSUME NEW j \in Classes PROVE Addresses(g[j]) \cap UsedAt(w, j) = {}
    <3>1. Addresses(fl[j]) \cap UsedAt(lv, j) = {}
      BY <1>1, Zenon DEF Once
    <3>2. CASE j = i
      BY <1>7, <1>8, <1>12, <3>1, <3>2, Zenon
    <3>3. CASE j # i
      BY <1>8, <1>12, <3>1, <3>3, Zenon
    <3>. QED  BY <3>2, <3>3, Zenon
  <2>3. ASSUME NEW p \in w, NEW q \in w, p.ptr = q.ptr PROVE p = q
    BY <1>1, <1>9, <2>3, Zenon DEF Once
  <2>. QED  BY <2>1, <2>2, <2>3, Zenon DEF Once
<1>15. ASSUME NEW j \in Classes PROVE Held(g, w, j) = Held(fl, lv, j)
  <2>1. CASE j = i
    BY <1>6, <1>7, <1>8, <1>12, <2>1, Zenon DEF Held
  <2>2. CASE j # i
    BY <1>8, <1>12, <2>2, Zenon DEF Held
  <2>. QED  BY <2>1, <2>2, Zenon
<1>16. \A p : ~Small(p) => (p \in w <=> p \in lv)
  BY <1>5, Zenon
<1>17. ASSUME NEW j \in Classes
       PROVE  Len(g[j]) + Cardinality(Used(w, j)) = Len(fl[j]) + Cardinality(Used(lv, j))
  <2>1. CASE j = i
    <3>1. IsFiniteSet(Used(lv, i)) /\ o \notin Used(lv, i)
      BY <1>1, <1>10, FS_Subset, Zenon DEF Types, Used
    <3>2. Cardinality(Used(lv, i)) \in Nat /\ Cardinality(Used(w, i)) = Cardinality(Used(lv, i)) + 1
      <4>1. Cardinality(Used(lv, i)) \in Nat
        BY <3>1, FS_CardinalityType, Zenon
      <4>2. Cardinality(Used(lv, i) \union {o}) = Cardinality(Used(lv, i)) + 1
        BY <3>1, FS_AddElement, Zenon
      <4>. QED  BY <1>11, <4>1, <4>2, Zenon
    <3>3. Len(fl[i]) \in Nat /\ Len(g[i]) = Len(fl[i]) - 1
      <4>1. Len(fl[i]) \in Nat
        BY <1>3, Lengths, Zenon
      <4>. QED  BY <1>7, <1>8, <4>1, Zenon
    <3>. QED  BY <2>1, <3>2, <3>3, SMTT(30)
  <2>2. CASE j # i
    BY <1>8, <1>11, <2>2, Zenon
  <2>. QED  BY <2>1, <2>2, Zenon
<1>18. AllocInv(m, g, w)
  BY <1>13, <1>14, <1>15, <1>16, <1>17, Moved, Zenon
<1>. QED  BY <1>18, Zenon DEF g, o

(* dealloc of a small object: its block goes to the front of its list.      *)
LEMMA PutBack ==
  ASSUME NEW m, NEW fl, NEW lv, AllocInv(m, fl, lv), NEW o \in lv, Small(o)
  PROVE  AllocInv(m, [fl EXCEPT ![class(o.size)] = <<o.ptr>> \o fl[class(o.size)]], lv \ {o})
<1>. DEFINE i == class(o.size)
            s == <<o.ptr>>
            g == [fl EXCEPT ![i] = s \o fl[i]]
            w == lv \ {o}
<1>1. Types(m, fl, lv) /\ Once(fl, lv)
  BY Zenon DEF AllocInv
<1>2. IsObject(o) /\ i \in Classes /\ o.ptr \in Nat
  BY <1>1, ObjectFields, Zenon DEF Types
<1>3. fl[i] \in Seq(Nat) /\ Distinct(fl[i])
  BY <1>1, <1>2, Zenon DEF Types, Once
<1>4. o \in Used(lv, i) /\ o.ptr \in UsedAt(lv, i)
  BY Zenon DEF Used, UsedAt
<1>5. o.ptr \notin Addresses(fl[i])
  BY <1>1, <1>2, <1>4, Zenon DEF Once
<1>6. s \in Seq(Nat) /\ Len(s) = 1 /\ Distinct(s) /\ Addresses(s) = {o.ptr}
  BY <1>2 DEF Distinct, Addresses
<1>. HIDE DEF i, s
<1>7. /\ s \o fl[i] \in Seq(Nat) /\ Len(s \o fl[i]) = Len(s) + Len(fl[i]) /\ Distinct(s \o fl[i])
      /\ Addresses(s \o fl[i]) = Addresses(s) \union Addresses(fl[i])
  <2>1. s \in Seq(Nat) /\ Distinct(s) /\ fl[i] \in Seq(Nat) /\ Distinct(fl[i])
    BY <1>3, <1>6, Zenon
  <2>2. Addresses(s) \cap Addresses(fl[i]) = {}
    BY <1>5, <1>6, Zenon
  <2>. QED  BY <2>1, <2>2, ListJoin, Zenon
<1>8. /\ g \in [Classes -> Seq(Nat)] /\ g[i] = s \o fl[i]
      /\ \A j \in Classes : j # i => g[j] = fl[j]
  BY <1>1, <1>2, <1>7, Zenon DEF Types
<1>. HIDE DEF g
<1>9. Used(w, i) = Used(lv, i) \ {o} /\ \A j \in Classes : j # i => Used(w, j) = Used(lv, j)
  BY Zenon DEF Used, i
<1>10. UsedAt(w, i) = UsedAt(lv, i) \ {o.ptr}
  <2>1. ASSUME NEW p \in Used(lv, i), p # o PROVE p.ptr # o.ptr
    BY <1>1, <2>1, Zenon DEF Once, Used
  <2>. QED  BY <1>9, <2>1, Zenon DEF UsedAt
<1>11. \A j \in Classes : j # i => UsedAt(w, j) = UsedAt(lv, j)
  BY <1>9, Zenon DEF UsedAt
<1>12. Types(m, g, w)
  <2>1. IsFiniteSet(w)
    BY <1>1, FS_RemoveElement, Zenon DEF Types
  <2>. QED  BY <1>1, <1>8, <2>1, Zenon DEF Types
<1>13. Once(g, w)
  <2>1. ASSUME NEW j \in Classes PROVE Distinct(g[j])
    BY <1>1, <1>7, <1>8, Zenon DEF Once
  <2>2. ASSUME NEW j \in Classes PROVE Addresses(g[j]) \cap UsedAt(w, j) = {}
    <3>1. Addresses(fl[j]) \cap UsedAt(lv, j) = {}
      BY <1>1, Zenon DEF Once
    <3>2. CASE j = i
      BY <1>6, <1>7, <1>8, <1>10, <3>1, <3>2, Zenon
    <3>3. CASE j # i
      BY <1>8, <1>11, <3>1, <3>3, Zenon
    <3>. QED  BY <3>2, <3>3, Zenon
  <2>. QED  BY <1>1, <2>1, <2>2, Zenon DEF Once
<1>14. ASSUME NEW j \in Classes PROVE Held(g, w, j) = Held(fl, lv, j)
  <2>1. CASE j = i
    BY <1>4, <1>6, <1>7, <1>8, <1>10, <2>1, Zenon DEF Held, i
  <2>2. CASE j # i
    BY <1>8, <1>11, <2>2, Zenon DEF Held
  <2>. QED  BY <2>1, <2>2, Zenon
<1>15. \A p : ~Small(p) => (p \in w <=> p \in lv)
  BY Zenon
<1>16. ASSUME NEW j \in Classes
       PROVE  Len(g[j]) + Cardinality(Used(w, j)) = Len(fl[j]) + Cardinality(Used(lv, j))
  <2>1. CASE j = i
    <3>1. IsFiniteSet(Used(lv, i)) /\ o \in Used(lv, i)
      BY <1>1, <1>4, FS_Subset, Zenon DEF Types, Used, i
    <3>2. Cardinality(Used(lv, i)) \in Nat /\ Cardinality(Used(w, i)) = Cardinality(Used(lv, i)) - 1
      BY <1>9, <3>1, FS_RemoveElement, FS_CardinalityType, ZenonT(60)
    <3>3. Len(fl[i]) \in Nat /\ Len(g[i]) = 1 + Len(fl[i])
      BY <1>3, <1>6, <1>7, <1>8, Lengths, Zenon
    <3>. QED  BY <2>1, <3>2, <3>3
  <2>2. CASE j # i
    BY <1>8, <1>9, <2>2, Zenon
  <2>. QED  BY <2>1, <2>2, Zenon
<1>17. AllocInv(m, g, w)
  BY <1>12, <1>13, <1>14, <1>15, <1>16, Moved, ZenonT(60)
<1>. QED  BY <1>17, Zenon DEF g, s, i

(* alloc of a large object: the frames from f on become its own.            *)
LEMMA TakeRun ==
  ASSUME NEW m, NEW fl, NEW lv, AllocInv(m, fl, lv),
         NEW l \in Layouts, l[1] > MaxBlock, NEW f \in Nat,
         f .. f + nframes(l[1]) - 1 \subseteq m
  PROVE  AllocInv(m \ (f .. f + nframes(l[1]) - 1), fl,
                  lv \union {Object(f * BYTES_PER_FRAME, l)})
<1>. DEFINE B == BYTES_PER_FRAME
            o == Object(f * B, l)
            r == f .. f + nframes(l[1]) - 1
            w == lv \union {o}
<1>1. Types(m, fl, lv) /\ Once(fl, lv) /\ Pages(m, fl, lv) /\ Large(m, fl, lv) /\ Whole(fl, lv)
  BY Zenon DEF AllocInv
<1>2. B \in Nat \ {0} /\ f * B \in Nat
  BY SizeAssumption, MulMono, Zenon
<1>3. o.ptr = f * B /\ o.size = l[1] /\ o.align = l[2] /\ ~Small(o)
  <2>1. MaxBlock \in Nat /\ l[1] \in Nat
    BY MaxBlockNat, LayoutAssumption, Zenon
  <2>. QED  BY <2>1 DEF Object, Small
<1>4. (f * B) % l[2] = 0
  <2>1. l[2] \in Nat \ {0} /\ B % l[2] = 0
    BY LayoutAssumption, Zenon DEF MaxBlock
  <2>. DEFINE c == B \div l[2]
  <2>2. c \in Nat /\ B = c * l[2]
    BY <1>2, <2>1, DivMod, Zenon
  <2>. HIDE DEF c
  <2>3. f * B = (f * c) * l[2] + 0 /\ f * c \in Nat
    BY <2>1, <2>2, MulAssoc
  <2>. HIDE DEF B
  <2>. QED  BY <2>1, <2>3, MulDiv
<1>5. IsObject(o)
  BY <1>2, <1>3, <1>4, Zenon DEF IsObject
<1>6. FrameOf(o.ptr) = f
  <2>1. (f + 1) * B = f * B + B
    BY <1>2
  <2>. QED  BY <1>2, <1>3, <2>1, FrameUnique
<1>7. Run(o) = r /\ f \in r /\ r \subseteq m /\ f \in m
  <2>1. Run(o) = r
    BY <1>3, <1>6, Zenon DEF Run
  <2>. QED  BY <1>5, <1>3, <1>6, <2>1, RunStart, Zenon
<1>. HIDE DEF o, r, B
<1>8. ASSUME NEW p \in lv, ~Small(p) PROVE Run(p) \cap r = {} /\ FrameOf(p.ptr) \in Run(p)
  <2>1. IsObject(p) /\ Run(p) \cap m = {}
    BY <1>1, <1>8, Zenon DEF Types, Large
  <2>. QED  BY <1>7, <1>8, <2>1, RunStart, Zenon
<1>9. ASSUME NEW j \in Classes, NEW a \in Held(fl, lv, j) PROVE FrameOf(a) \notin r
  BY <1>1, <1>7, Zenon DEF Pages, OnPage
<1>10. ASSUME NEW p \in lv PROVE p.ptr # o.ptr
  <2>1. CASE Small(p)
    <3>1. class(p.size) \in Classes /\ p.ptr \in UsedAt(lv, class(p.size))
      BY <1>1, <2>1, ObjectFields, Zenon DEF Types, UsedAt, Used
    <3>2. p.ptr \in Held(fl, lv, class(p.size))
      BY <3>1, Zenon DEF Held
    <3>. QED  BY <1>6, <1>7, <1>9, <3>1, <3>2, Zenon
  <2>2. CASE ~Small(p)
    BY <1>6, <1>7, <1>8, <2>2, Zenon
  <2>. QED  BY <2>1, <2>2, Zenon
<1>11. \A j \in Classes : Used(w, j) = Used(lv, j)
  BY <1>3, Zenon DEF Used
<1>12. \A j \in Classes : UsedAt(w, j) = UsedAt(lv, j) /\ Held(fl, w, j) = Held(fl, lv, j)
  BY <1>11, Zenon DEF UsedAt, Held
<1>13. Types(m \ r, fl, w)
  <2>1. IsFiniteSet(w)
    BY <1>1, FS_AddElement, Zenon DEF Types
  <2>. QED  BY <1>1, <1>5, <2>1, Zenon DEF Types
<1>14. Once(fl, w)
  <2>1. ASSUME NEW p \in w, NEW q \in w, p.ptr = q.ptr PROVE p = q
    BY <1>1, <1>10, <2>1, Zenon DEF Once
  <2>. QED  BY <1>1, <1>12, <2>1, Zenon DEF Once
<1>15. Pages(m \ r, fl, w)
  <2>1. ASSUME NEW j \in Classes, NEW a \in Held(fl, lv, j) PROVE OnPage(m \ r, j, a)
    BY <1>1, Zenon DEF Pages, OnPage
  <2>. QED  BY <1>1, <1>12, <2>1, Zenon DEF Pages
<1>16. Large(m \ r, fl, w)
  <2>. SUFFICES ASSUME NEW p \in w, ~Small(p)
                PROVE  /\ p.ptr = FrameOf(p.ptr) * BYTES_PER_FRAME
                       /\ Run(p) \subseteq Frames \ ((m \ r) \union Classes)
                       /\ \A j \in Classes : \A a \in Held(fl, w, j) : FrameOf(a) \notin Run(p)
                       /\ \A q \in w : ~Small(q) /\ q # p => Run(p) \cap Run(q) = {}
    BY Zenon DEF Large
  <2>1. CASE p = o
    <3>1. o.ptr = FrameOf(o.ptr) * BYTES_PER_FRAME
      BY <1>3, <1>6, Zenon DEF B
    <3>2. Run(o) \subseteq Frames \ ((m \ r) \union Classes)
      BY <1>1, <1>7, Zenon DEF Types
    <3>3. \A j \in Classes : \A a \in Held(fl, w, j) : FrameOf(a) \notin Run(o)
      BY <1>7, <1>9, <1>12, Zenon
    <3>4. \A q \in w : ~Small(q) /\ q # o => Run(o) \cap Run(q) = {}
      BY <1>7, <1>8, Zenon
    <3>. QED  BY <2>1, <3>1, <3>2, <3>3, <3>4, Zenon
  <2>2. CASE p # o
    <3>1. p \in lv
      BY <2>2, Zenon
    <3>2. /\ p.ptr = FrameOf(p.ptr) * BYTES_PER_FRAME
          /\ Run(p) \subseteq Frames \ (m \union Classes)
          /\ \A j \in Classes : \A a \in Held(fl, lv, j) : FrameOf(a) \notin Run(p)
          /\ \A q \in lv : ~Small(q) /\ q # p => Run(p) \cap Run(q) = {}
      BY <1>1, <3>1, Zenon DEF Large
    <3>3. \A q \in w : ~Small(q) /\ q # p => Run(p) \cap Run(q) = {}
      BY <1>7, <1>8, <3>1, <3>2, Zenon
    <3>. QED  BY <1>12, <3>2, <3>3, Zenon
  <2>. QED  BY <2>1, <2>2, Zenon
<1>17. Whole(fl, w)
  BY <1>1, <1>11, Zenon DEF Whole
<1>. QED  BY <1>13, <1>14, <1>15, <1>16, <1>17, Zenon DEF AllocInv, o, r, B

(* dealloc of a large object: its frames are free again.                    *)
LEMMA FreeRun ==
  ASSUME NEW m, NEW fl, NEW lv, AllocInv(m, fl, lv), NEW o \in lv, ~Small(o)
  PROVE  AllocInv(m \union Run(o), fl, lv \ {o})
<1>. DEFINE w == lv \ {o}
            r == Run(o)
<1>1. Types(m, fl, lv) /\ Once(fl, lv) /\ Pages(m, fl, lv) /\ Large(m, fl, lv) /\ Whole(fl, lv)
  BY Zenon DEF AllocInv
<1>2. /\ r \subseteq Frames \ (m \union Classes)
      /\ \A i \in Classes : \A a \in Held(fl, lv, i) : FrameOf(a) \notin r
      /\ \A p \in lv : ~Small(p) /\ p # o => r \cap Run(p) = {}
  BY <1>1, Zenon DEF Large
<1>3. \A j \in Classes : Used(w, j) = Used(lv, j)
  BY Zenon DEF Used
<1>4. \A j \in Classes : UsedAt(w, j) = UsedAt(lv, j) /\ Held(fl, w, j) = Held(fl, lv, j)
  BY <1>3, Zenon DEF UsedAt, Held
<1>. HIDE DEF r
<1>5. Types(m \union r, fl, w)
  <2>1. IsFiniteSet(w)
    BY <1>1, FS_RemoveElement, Zenon DEF Types
  <2>. QED  BY <1>1, <1>2, <2>1, Zenon DEF Types
<1>6. Once(fl, w)
  BY <1>1, <1>4, Zenon DEF Once
<1>7. Pages(m \union r, fl, w)
  <2>1. ASSUME NEW j \in Classes, NEW a \in Held(fl, lv, j) PROVE OnPage(m \union r, j, a)
    BY <1>1, <1>2, Zenon DEF Pages, OnPage
  <2>. QED  BY <1>1, <1>4, <2>1, Zenon DEF Pages
<1>8. Large(m \union r, fl, w)
  <2>. SUFFICES ASSUME NEW p \in w, ~Small(p)
                PROVE  /\ p.ptr = FrameOf(p.ptr) * BYTES_PER_FRAME
                       /\ Run(p) \subseteq Frames \ ((m \union r) \union Classes)
                       /\ \A j \in Classes : \A a \in Held(fl, w, j) : FrameOf(a) \notin Run(p)
                       /\ \A q \in w : ~Small(q) /\ q # p => Run(p) \cap Run(q) = {}
    BY Zenon DEF Large
  <2>1. /\ p.ptr = FrameOf(p.ptr) * BYTES_PER_FRAME
        /\ Run(p) \subseteq Frames \ (m \union Classes)
        /\ \A j \in Classes : \A a \in Held(fl, lv, j) : FrameOf(a) \notin Run(p)
        /\ \A q \in lv : ~Small(q) /\ q # p => Run(p) \cap Run(q) = {}
    BY <1>1, Zenon DEF Large
  <2>2. r \cap Run(p) = {}
    BY <1>2, Zenon
  <2>. QED  BY <1>4, <2>1, <2>2, Zenon
<1>9. Whole(fl, w)
  BY <1>1, <1>3, Zenon DEF Whole
<1>. QED  BY <1>5, <1>6, <1>7, <1>8, <1>9, Zenon DEF AllocInv, r

-----------------------------------------------------------------------------
(* pop_filter finds a block of the list with the alignment, or none.        *)
LEMMA FirstAligned ==
  ASSUME NEW s \in Seq(Nat), NEW a, first_aligned(s, a) # 0
  PROVE  first_aligned(s, a) \in 1 .. Len(s) /\ s[first_aligned(s, a)] % a = 0
<1>. DEFINE I == {i \in 1 .. Len(s) : s[i] % a = 0}
<1>1. I \subseteq Nat
  OBVIOUS
<1>2. first_aligned(s, a) = IF I = {} THEN 0 ELSE CHOOSE x \in I : \A y \in I : x <= y
  BY Zenon DEF first_aligned, Min
<1>. HIDE DEF I
<1>3. I # {} /\ first_aligned(s, a) = CHOOSE x \in I : \A y \in I : x <= y
  BY <1>2, Zenon
<1>4. \E x \in I : \A y \in I : x <= y
  BY <1>1, <1>3, Least, Zenon
<1>5. first_aligned(s, a) \in I
  BY <1>3, <1>4, Zenon
<1>. QED  BY <1>5, Zenon DEF I

LEMMA NullIsNoBlock == FrameOf(0) = 0 /\ 0 \notin Frames
<1>1. 0 * BYTES_PER_FRAME = 0 /\ (0 + 1) * BYTES_PER_FRAME = BYTES_PER_FRAME
  BY SizeAssumption
<1>. QED  BY <1>1, SizeAssumption, FrameUnique DEF Frames

LEMMA TakeStep ==
  ASSUME NEW layout \in Layouts, layout[1] <= MaxBlock, fitting(layout[1]) # {},
         NEW i, i = class(layout[1]), NEW list,
         AllocInv(mem', [free_list EXCEPT ![i] = list], live),
         free_list \in [Classes -> Seq(Nat)],
         take(i, list, layout)
  PROVE  AllocInv(mem', free_list', live')
<1>. DEFINE k == first_aligned(list, layout[2])
            fl == [free_list EXCEPT ![i] = list]
<1>1. layout[1] \in Nat /\ i \in Classes
  BY LayoutAssumption, ClassOf, Zenon
<1>2. fl[i] = list
  BY <1>1, Zenon
<1>3. fl \in [Classes -> Seq(Nat)] /\ Pages(mem', fl, live)
  BY Zenon DEF AllocInv, Types
<1>4. list \in Seq(Nat)
  BY <1>1, <1>2, <1>3, Zenon
<1>5. CASE k = 0
  BY <1>5, Zenon DEF take, give
<1>6. CASE k # 0
  <2>1. k \in 1 .. Len(fl[i]) /\ fl[i][k] % layout[2] = 0
    BY <1>2, <1>4, <1>6, FirstAligned, Zenon
  <2>2. list[k] # 0
    <3>1. list[k] \in Held(fl, live, i)
      BY <1>2, <2>1, Zenon DEF Held, Addresses
    <3>2. FrameOf(list[k]) \in Frames
      BY <1>1, <1>3, <3>1, Zenon DEF Pages, OnPage
    <3>. QED  BY <3>2, NullIsNoBlock, Zenon
  <2>3. live' = live \union {Object(fl[i][k], layout)}
    BY <1>2, <1>6, <2>2, Zenon DEF take, give
  <2>4. free_list' = [fl EXCEPT ![i] = unlinked(fl[i], k)]
    BY <1>1, <1>2, <1>6, Zenon DEF take
  <2>5. AllocInv(mem', fl, live)
    BY Zenon
  <2>. HIDE DEF k, fl
  <2>6. AllocInv(mem', [fl EXCEPT ![i] = unlinked(fl[i], k)],
                 live \union {Object(fl[i][k], layout)})
    BY <2>1, <2>5, Take, Zenon
  <2>. QED  BY <2>3, <2>4, <2>6, Zenon
<1>. QED  BY <1>5, <1>6, Zenon

(* Every call of alloc and dealloc preserves the invariant.                 *)
LEMMA NextAlloc == AllocInv(mem, free_list, live) /\ [Next]_vars => AllocInv(mem, free_list, live)'
<1>. SUFFICES ASSUME AllocInv(mem, free_list, live), [Next]_vars
              PROVE  AllocInv(mem', free_list', live')
  BY Zenon
<1>1. /\ mem \subseteq Frames /\ free_list \in [Classes -> Seq(Nat)]
      /\ \A o \in live : IsObject(o)
  BY Zenon DEF AllocInv, Types
<1>2. ASSUME NEW layout \in Layouts, alloc_frames(layout)
      PROVE  AllocInv(mem', free_list', live')
  <2>. DEFINE n == nframes(layout[1])
              s == allocate(n)
  <2>1. layout[1] \in Nat
    BY LayoutAssumption, Zenon
  <2>2. CASE s = 0
    <3>1. get_frame_start(s) = 0
      BY <2>2, SizeAssumption DEF get_frame_start
    <3>2. mem' = mem /\ free_list' = free_list /\ live' = live
      BY <1>2, <2>2, <3>1, Zenon DEF alloc_frames, give
    <3>. QED  BY <3>2, Zenon
  <2>3. CASE s # 0
    <3>1. n \in Nat
      BY <2>1, FramesFor, Zenon
    <3>2. s \in Frames /\ s .. s + n - 1 \subseteq mem
      BY <1>1, <2>3, <3>1, AllocatedRun, Zenon
    <3>3. s \in Nat /\ s * BYTES_PER_FRAME # 0
      BY <3>2, SizeAssumption DEF Frames
    <3>4. /\ mem' = mem \ (s .. s + n - 1) /\ free_list' = free_list
          /\ live' = live \union {Object(s * BYTES_PER_FRAME, layout)} /\ layout[1] > MaxBlock
      BY <1>2, <2>3, <3>3, Zenon DEF alloc_frames, give, get_frame_start
    <3>. HIDE DEF s
    <3>5. AllocInv(mem \ (s .. s + n - 1), free_list,
                   live \union {Object(s * BYTES_PER_FRAME, layout)})
      BY <3>2, <3>3, <3>4, TakeRun, Zenon
    <3>. QED  BY <3>4, <3>5, Zenon
  <2>. QED  BY <2>2, <2>3, Zenon
<1>3. ASSUME NEW layout \in Layouts, alloc_none(layout)
      PROVE  AllocInv(mem', free_list', live')
  BY <1>3, Zenon DEF alloc_none, give
<1>4. ASSUME NEW layout \in Layouts, alloc_block(layout)
      PROVE  AllocInv(mem', free_list', live')
  <2>. DEFINE i == class(layout[1])
              f == allocate(1)
              x == extend(get_frame_start(f), BLOCK_SZ[i])
  <2>1. layout[1] <= MaxBlock /\ fitting(layout[1]) # {}
    BY <1>4, Zenon DEF alloc_block
  <2>2. layout[1] \in Nat /\ i \in Classes
    BY <2>1, LayoutAssumption, ClassOf, Zenon
  <2>3. CASE take(i, free_list[i], layout) /\ mem' = mem
    <3>1. [free_list EXCEPT ![i] = free_list[i]] = free_list
      BY <1>1, Zenon
    <3>2. AllocInv(mem', [free_list EXCEPT ![i] = free_list[i]], live)
      BY <2>3, <3>1, Zenon
    <3>. QED  BY <1>1, <2>1, <2>3, <3>2, TakeStep, Zenon
  <2>4. CASE give(0, layout) /\ mem' = mem /\ free_list' = free_list
    BY <2>4, Zenon DEF give
  <2>5. CASE f # 0 /\ mem' = mem \ {f} /\ take(i, x \o free_list[i], layout)
    <3>1. f \in mem
      BY <1>1, <2>5, AllocatedRun, Zenon
    <3>2. AllocInv(mem', [free_list EXCEPT ![i] = x \o free_list[i]], live)
      BY <2>2, <2>5, <3>1, Refill, Zenon DEF get_frame_start
    <3>. HIDE DEF x
    <3>. QED  BY <1>1, <2>1, <2>5, <3>2, TakeStep, Zenon
  <2>. QED  BY <1>4, <2>3, <2>4, <2>5, Zenon DEF alloc_block
<1>5. ASSUME NEW o \in live, dealloc(o)
      PROVE  AllocInv(mem', free_list', live')
  <2>1. CASE Small(o)
    <3>1. ~(o.size > MaxBlock)
      <4>1. o.size \in Nat /\ MaxBlock \in Nat
        BY <1>1, ObjectFields, MaxBlockNat, Zenon
      <4>. QED  BY <2>1, <4>1 DEF Small
    <3>2. /\ free_list' = [free_list EXCEPT ![class(o.size)] = <<o.ptr>> \o free_list[class(o.size)]]
          /\ mem' = mem /\ live' = live \ {o}
      <4>1. live' = live \ {o} /\ mem' = mem
        BY <1>5, <3>1, Zenon DEF dealloc
      <4>2. free_list' = [free_list EXCEPT ![class(o.size)] = <<o.ptr>> \o @]
        BY <1>5, <3>1, Zenon DEF dealloc
      <4>3. class(o.size) \in Classes
        BY <1>1, <2>1, ObjectFields, Zenon
      <4>. QED  BY <1>1, <4>1, <4>2, <4>3, Zenon
    <3>. QED  BY <2>1, <3>2, PutBack, Zenon
  <2>2. CASE ~Small(o)
    <3>1. mem' = mem \union Run(o) /\ free_list' = free_list /\ live' = live \ {o}
      BY <1>5, <2>2, Zenon DEF dealloc, Small, Run, FrameOf
    <3>. QED  BY <2>2, <3>1, FreeRun, Zenon
  <2>. QED  BY <2>1, <2>2, Zenon
<1>6. CASE UNCHANGED vars
  BY <1>6, Zenon DEF vars
<1>. QED  BY <1>2, <1>3, <1>4, <1>5, <1>6, Zenon DEF Next, alloc

LEMMA AllocInvariant == Spec => []AllocInv(mem, free_list, live)
BY InitAlloc, NextAlloc, PTL DEF Spec

-----------------------------------------------------------------------------
Inv == AllocInv(mem, free_list, live)

LEMMA InvParts ==
  ASSUME Inv
  PROVE  /\ Types(mem, free_list, live) /\ Once(free_list, live)
         /\ Pages(mem, free_list, live) /\ Large(mem, free_list, live) /\ Whole(free_list, live)
BY Zenon DEF Inv, AllocInv

LEMMA InMemory ==
  ASSUME NEW a \in Nat, FrameOf(a) \in Frames
  PROVE  a \in Memory
<1>. DEFINE B == BYTES_PER_FRAME
            g == FrameOf(a)
<1>1. B \in Nat \ {0} /\ LastFrame \in Nat /\ g \in 1 .. LastFrame
  BY SizeAssumption, Zenon DEF Frames
<1>2. g * B <= a /\ a < (g + 1) * B
  BY FrameBounds, Zenon
<1>. HIDE DEF B, g
<1>3. 1 * B <= g * B /\ (g + 1) * B <= (LastFrame + 1) * B /\ 1 * B = B
  BY <1>1, MulMono
<1>4. g * B \in Nat /\ (g + 1) * B \in Nat /\ (LastFrame + 1) * B \in Nat
  BY <1>1, MulMono
<1>5. B <= a /\ a <= (LastFrame + 1) * B - 1
  BY <1>1, <1>2, <1>3, <1>4
<1>. QED  BY <1>1, <1>4, <1>5 DEF Memory, B

(* A unit x of a block: the frame and the block it lies in.                 *)
LEMMA BlockAt ==
  ASSUME Inv, NEW i \in Classes, NEW a \in Held(free_list, live, i),
         NEW x \in a .. a + BLOCK_SZ[i] - 1
  PROVE  /\ a \in Nat /\ x \in Nat /\ FrameOf(x) = FrameOf(a)
         /\ FrameOf(x) \in Frames \ mem
         /\ a = (x \div BLOCK_SZ[i]) * BLOCK_SZ[i]
         /\ FrameOf(x) \in Classes =>
              FrameOf(x) = i /\ x >= i * BYTES_PER_FRAME + HeaderBlocks(i) * BLOCK_SZ[i]
<1>. DEFINE d == BLOCK_SZ[i]
            B == BYTES_PER_FRAME
            g == FrameOf(a)
            h == i * B + HeaderBlocks(i) * d
<1>1. OnPage(mem, i, a)
  BY InvParts, Zenon DEF Pages
<1>2. d \in Nat \ {0} /\ B \in Nat \ {0} /\ h \in Nat
  <2>1. i \in Nat /\ HeaderBlocks(i) \in Nat /\ d \in Nat \ {0} /\ B \in Nat \ {0}
    BY Sizes, SizeAssumption DEF Classes
  <2>2. i * B \in Nat /\ HeaderBlocks(i) * d \in Nat
    BY <2>1, MulMono, Zenon
  <2>. HIDE DEF d, B
  <2>. QED  BY <2>1, <2>2
<1>3. /\ a \in Nat /\ g \in Frames \ mem /\ a + d <= (g + 1) * B
      /\ g \in Classes => g = i /\ a >= h
  BY <1>1, Zenon DEF OnPage
<1>4. PICK k \in Nat : a = k * d
  BY <1>1, Zenon DEF OnPage
<1>5. g \in Nat /\ g * B <= a
  BY <1>3, FrameBounds, Zenon
<1>6. x \in a .. a + d - 1
  BY Zenon
<1>. HIDE DEF g, d, B, h
<1>7. x \in Nat /\ a <= x /\ x < a + d
  BY <1>2, <1>3, <1>6
<1>8. g * B \in Nat /\ (g + 1) * B \in Nat
  BY <1>2, <1>5, MulMono
<1>9. FrameOf(x) = g
  <2>1. g * B <= x /\ x < (g + 1) * B
    BY <1>2, <1>3, <1>5, <1>7, <1>8
  <2>. QED  BY <1>5, <1>7, <2>1, FrameUnique, Zenon DEF B
<1>10. a = (x \div d) * d
  <2>1. x - a \in 0 .. d - 1 /\ x = k * d + (x - a)
    BY <1>2, <1>3, <1>4, <1>7
  <2>2. x \div d = k
    BY <1>2, <2>1, MulDiv, Zenon
  <2>. QED  BY <1>4, <2>2, Zenon
<1>11. g \in Classes => g = i /\ x >= h
  BY <1>2, <1>3, <1>7
<1>. QED  BY <1>3, <1>7, <1>9, <1>10, <1>11, Zenon DEF g, d, B, h

(* A unit x of a large object lies in one of its frames.                    *)
LEMMA RunAt ==
  ASSUME Inv, NEW o \in live, ~Small(o), NEW x \in Extent(o), x \in Nat
  PROVE  FrameOf(x) \in Run(o)
<1>. DEFINE B == BYTES_PER_FRAME
            n == nframes(o.size)
            f == FrameOf(o.ptr)
            g == FrameOf(x)
<1>1. IsObject(o) /\ o.ptr = f * B
  BY InvParts, Zenon DEF Types, Large
<1>2. o.size > MaxBlock /\ n \in Nat \ {0} /\ o.ptr \in Nat /\ B \in Nat \ {0}
  BY <1>1, ObjectFields, SizeAssumption, Zenon
<1>3. x \in o.ptr .. o.ptr + n * B - 1
  BY <1>2, Zenon DEF Extent
<1>4. f \in Nat /\ g \in Nat /\ g * B <= x /\ x < (g + 1) * B
  BY <1>2, FrameBounds, Zenon
<1>5. Run(o) = f .. f + n - 1
  BY Zenon DEF Run
<1>. HIDE DEF B, n, f, g
<1>6. f * B \in Nat /\ n * B \in Nat /\ (f + n) * B = f * B + n * B /\ g * B \in Nat
  BY <1>2, <1>4, MulMono
<1>7. f < g + 1
  <2>1. f * B < (g + 1) * B
    BY <1>1, <1>2, <1>3, <1>4, <1>6
  <2>. QED  BY <1>2, <1>4, <2>1, MulMono
<1>8. g < f + n
  <2>1. g * B < (f + n) * B
    BY <1>1, <1>2, <1>3, <1>4, <1>6
  <2>. QED  BY <1>2, <1>4, <2>1, MulMono
<1>. QED  BY <1>2, <1>4, <1>5, <1>7, <1>8 DEF g

(* A unit x of a page header lies in the header's room on its frame.        *)
LEMMA HeaderAt ==
  ASSUME NEW i \in Classes, NEW x \in HeaderExtent(i)
  PROVE  /\ x \in Nat /\ FrameOf(x) = i
         /\ x < i * BYTES_PER_FRAME + HeaderBlocks(i) * BLOCK_SZ[i]
<1>. DEFINE B == BYTES_PER_FRAME
            h == HeaderBlocks(i) * BLOCK_SZ[i]
<1>1. /\ i \in Nat /\ B \in Nat \ {0} /\ LOCKED \in Nat /\ LOCKED <= h
      /\ h \in Nat /\ h <= B
  <2>1. /\ HeaderBlocks(i) \in Nat /\ PerFrame(i) \in Nat /\ BLOCK_SZ[i] \in Nat \ {0}
        /\ HeaderBlocks(i) <= PerFrame(i) /\ B = PerFrame(i) * BLOCK_SZ[i] /\ LOCKED <= h
    BY Sizes, Zenon
  <2>2. h \in Nat /\ h <= PerFrame(i) * BLOCK_SZ[i]
    BY <2>1, MulMono, Zenon
  <2>. QED  BY <2>1, <2>2, SizeAssumption DEF Classes
<1>2. x \in i * B .. i * B + LOCKED - 1
  BY Zenon DEF HeaderExtent
<1>. HIDE DEF B, h
<1>3. i * B \in Nat /\ (i + 1) * B = i * B + B
  BY <1>1
<1>4. x \in Nat /\ i * B <= x /\ x < i * B + h /\ x < (i + 1) * B
  BY <1>1, <1>2, <1>3
<1>5. FrameOf(x) = i
  BY <1>1, <1>4, FrameUnique, Zenon DEF B
<1>. QED  BY <1>4, <1>5, Zenon DEF B, h

LEMMA FrameAt ==
  ASSUME NEW f \in Nat, NEW x \in FrameExtent(f)
  PROVE  x \in Nat /\ FrameOf(x) = f
<1>1. f * BYTES_PER_FRAME \in Nat /\ (f + 1) * BYTES_PER_FRAME \in Nat
  BY SizeAssumption, MulMono
<1>2. x \in Nat /\ f * BYTES_PER_FRAME <= x /\ x < (f + 1) * BYTES_PER_FRAME
  BY <1>1 DEF FrameExtent
<1>. QED  BY <1>2, FrameUnique, Zenon

\* S has at most one element.
AtMostOne(S) == \A p, q \in S : p = q

LEMMA FewUses ==
  ASSUME NEW S, AtMostOne(S)
  PROVE  Cardinality(S) \in 0 .. 1 /\ (Cardinality(S) = 1 => S # {})
<1>1. CASE S = {}
  BY <1>1, FS_EmptySet
<1>2. CASE S # {}
  <2>1. PICK p \in S : S = {p}
    BY <1>2, Zenon DEF AtMostOne
  <2>2. Cardinality(S) = 1
    BY <2>1, FS_Singleton, Zenon
  <2>. QED  BY <1>2, <2>2
<1>. QED  BY <1>1, <1>2, Zenon

LEMMA InvSingleUse == Inv => SingleUse
<1>. SUFFICES ASSUME Inv, NEW x \in Memory
              PROVE  Cardinality({o \in live : x \in Extent(o)})
                       + Cardinality({b \in FreeBlocks :
                                        x \in FreeExtent(b[1], free_list[b[1]][b[2]])})
                       + Cardinality({f \in mem : x \in FrameExtent(f)})
                       + Cardinality({i \in Classes : x \in HeaderExtent(i)}) <= 1
  BY Zenon DEF SingleUse
<1>. DEFINE g == FrameOf(x)
            L == {o \in live : x \in Extent(o)}
            F == {b \in FreeBlocks : x \in FreeExtent(b[1], free_list[b[1]][b[2]])}
            M == {f \in mem : x \in FrameExtent(f)}
            H == {i \in Classes : x \in HeaderExtent(i)}
            at(i) == (x \div BLOCK_SZ[i]) * BLOCK_SZ[i]
<1>1. /\ Types(mem, free_list, live) /\ Once(free_list, live)
      /\ Pages(mem, free_list, live) /\ Large(mem, free_list, live)
  BY InvParts, Zenon
<1>2. x \in Nat
  <2>1. BYTES_PER_FRAME \in Nat /\ (LastFrame + 1) * BYTES_PER_FRAME \in Nat
    BY SizeAssumption, MulMono
  <2>. QED  BY <2>1 DEF Memory
<1>3. ASSUME NEW o \in L, Small(o)
      PROVE  /\ class(o.size) \in Classes /\ o.ptr \in UsedAt(live, class(o.size))
             /\ o.ptr \in Held(free_list, live, class(o.size))
             /\ x \in o.ptr .. o.ptr + BLOCK_SZ[class(o.size)] - 1
  <2>1. IsObject(o) /\ o \in live /\ x \in Extent(o)
    BY <1>1, Zenon DEF Types
  <2>2. class(o.size) \in Classes /\ o.size \in Nat /\ MaxBlock \in Nat
    BY <1>3, <2>1, ObjectFields, MaxBlockNat, Zenon
  <2>3. ~(o.size > MaxBlock)
    BY <1>3, <2>2 DEF Small
  <2>. QED  BY <1>3, <2>1, <2>2, <2>3, Zenon DEF Extent, UsedAt, Used, Held
<1>4. ASSUME NEW b \in F
      PROVE  \E i \in Classes : \E k \in 1 .. Len(free_list[i]) :
               /\ b = <<i, k>> /\ free_list[i][k] \in Addresses(free_list[i])
               /\ free_list[i][k] \in Held(free_list, live, i)
               /\ x \in free_list[i][k] .. free_list[i][k] + BLOCK_SZ[i] - 1
  <2>1. PICK i \in Classes : \E k \in 1 .. Len(free_list[i]) : b = <<i, k>>
    BY Zenon DEF FreeBlocks
  <2>2. PICK k \in 1 .. Len(free_list[i]) : b = <<i, k>>
    BY <2>1, Zenon
  <2>3. x \in FreeExtent(b[1], free_list[b[1]][b[2]]) /\ b[1] = i /\ b[2] = k
    BY <2>2, Zenon
  <2>4. free_list[i][k] \in Addresses(free_list[i])
    BY Zenon DEF Addresses
  <2>. QED  BY <2>2, <2>3, <2>4, Zenon DEF FreeExtent, Held
<1>5. ASSUME NEW o \in L, ~Small(o) PROVE o \in live /\ g \in Run(o)
  BY <1>2, <1>5, RunAt, Zenon
<1>6. ASSUME NEW f \in M PROVE g = f /\ f \in mem
  <2>1. f \in Nat
    BY <1>1, SizeAssumption DEF Types, Frames
  <2>. QED  BY <2>1, FrameAt, Zenon
<1>7. ASSUME NEW i \in H
      PROVE  g = i /\ i \in Classes /\ x < i * BYTES_PER_FRAME + HeaderBlocks(i) * BLOCK_SZ[i]
  BY HeaderAt, Zenon
\* A block, free or in use, that holds x.
<1>. DEFINE In(i, a) == /\ i \in Classes /\ a \in Held(free_list, live, i)
                        /\ x \in a .. a + BLOCK_SZ[i] - 1
<1>8. ASSUME NEW i, NEW a, In(i, a)
      PROVE  /\ g = FrameOf(a) /\ g \notin mem /\ a = at(i)
             /\ g \in Classes =>
                  g = i /\ x >= i * BYTES_PER_FRAME + HeaderBlocks(i) * BLOCK_SZ[i]
  BY <1>8, BlockAt, Zenon
<1>9. ASSUME NEW i, NEW a, NEW j, NEW b, In(i, a), In(j, b) PROVE i = j /\ a = b
  <2>1. i \in Classes /\ a \in Held(free_list, live, i) /\ g = FrameOf(a) /\ a = at(i)
    BY <1>8, <1>9, Zenon
  <2>2. j \in Classes /\ b \in Held(free_list, live, j) /\ g = FrameOf(b) /\ b = at(j)
    BY <1>8, <1>9, Zenon
  <2>3. i = j
    BY <1>1, <2>1, <2>2, Zenon DEF Pages
  <2>. QED  BY <2>1, <2>2, <2>3, Zenon
<1>. HIDE DEF In
<1>10. ASSUME NEW o \in L, Small(o)
       PROVE  /\ In(class(o.size), o.ptr) /\ o \in live
              /\ class(o.size) \in Classes /\ o.ptr \in UsedAt(live, class(o.size))
  BY <1>3, <1>10, Zenon DEF In
<1>11. ASSUME NEW b \in F
       PROVE  \E i \in Classes : \E k \in 1 .. Len(free_list[i]) :
                /\ b = <<i, k>> /\ In(i, free_list[i][k])
                /\ free_list[i][k] \in Addresses(free_list[i])
  BY <1>4, Zenon DEF In
<1>12. ASSUME NEW i, NEW a, In(i, a), NEW o \in L, ~Small(o) PROVE FALSE
  <2>1. i \in Classes /\ a \in Held(free_list, live, i)
    BY <1>12, Zenon DEF In
  <2>. QED  BY <1>1, <1>5, <1>8, <1>12, <2>1, Zenon DEF Large
<1>. HIDE DEF g, L, F, M, H, at
<1>13. AtMostOne(L)
  <2>. SUFFICES ASSUME NEW o \in L, NEW p \in L PROVE o = p
    BY Zenon DEF AtMostOne
  <2>1. CASE Small(o) /\ Small(p)
    <3>1. o.ptr = p.ptr /\ o \in live /\ p \in live
      BY <1>9, <1>10, <2>1, Zenon
    <3>. QED  BY <1>1, <3>1, Zenon DEF Once
  <2>2. CASE Small(o) /\ ~Small(p)
    BY <1>10, <1>12, <2>2, Zenon
  <2>3. CASE ~Small(o) /\ Small(p)
    BY <1>10, <1>12, <2>3, Zenon
  <2>4. CASE ~Small(o) /\ ~Small(p)
    BY <1>1, <1>5, <2>4, Zenon DEF Large
  <2>. QED  BY <2>1, <2>2, <2>3, <2>4, Zenon
<1>14. AtMostOne(F)
  <2>. SUFFICES ASSUME NEW b \in F, NEW c \in F PROVE b = c
    BY Zenon DEF AtMostOne
  <2>1. PICK i \in Classes : \E k \in 1 .. Len(free_list[i]) :
               b = <<i, k>> /\ In(i, free_list[i][k])
    BY <1>11, Zenon
  <2>2. PICK k \in 1 .. Len(free_list[i]) : b = <<i, k>> /\ In(i, free_list[i][k])
    BY <2>1, Zenon
  <2>3. PICK j \in Classes : \E l \in 1 .. Len(free_list[j]) :
               c = <<j, l>> /\ In(j, free_list[j][l])
    BY <1>11, Zenon
  <2>4. PICK l \in 1 .. Len(free_list[j]) : c = <<j, l>> /\ In(j, free_list[j][l])
    BY <2>3, Zenon
  <2>5. i = j /\ free_list[i][k] = free_list[j][l]
    BY <1>9, <2>2, <2>4, Zenon
  <2>6. k = l
    BY <1>1, <2>5, Zenon DEF Once, Distinct
  <2>. QED  BY <2>2, <2>4, <2>5, <2>6, Zenon
<1>15. AtMostOne(M) /\ AtMostOne(H)
  BY <1>6, <1>7, Zenon DEF AtMostOne
<1>16. ASSUME NEW o \in L, NEW b \in F PROVE FALSE
  <2>1. PICK i \in Classes : \E k \in 1 .. Len(free_list[i]) :
               In(i, free_list[i][k]) /\ free_list[i][k] \in Addresses(free_list[i])
    BY <1>11, Zenon
  <2>2. PICK k \in 1 .. Len(free_list[i]) :
               In(i, free_list[i][k]) /\ free_list[i][k] \in Addresses(free_list[i])
    BY <2>1, Zenon
  <2>3. CASE Small(o)
    <3>1. /\ In(class(o.size), o.ptr) /\ class(o.size) \in Classes
          /\ o.ptr \in UsedAt(live, class(o.size))
      BY <1>10, <2>3, Zenon
    <3>2. class(o.size) = i /\ o.ptr = free_list[i][k]
      BY <1>9, <2>2, <3>1, Zenon
    <3>. QED  BY <1>1, <2>2, <3>1, <3>2, Zenon DEF Once
  <2>4. CASE ~Small(o)
    BY <1>12, <2>2, <2>4, Zenon
  <2>. QED  BY <2>3, <2>4, Zenon
<1>17. ASSUME NEW i, NEW a, In(i, a) PROVE M = {} /\ H = {}
  <2>1. M = {}
    BY <1>6, <1>8, <1>17, Zenon
  <2>2. ASSUME NEW j \in H PROVE FALSE
    <3>1. /\ g = j /\ j \in Classes /\ i = j
          /\ x >= i * BYTES_PER_FRAME + HeaderBlocks(i) * BLOCK_SZ[i]
      BY <1>7, <1>8, <1>17
    <3>2. x < i * BYTES_PER_FRAME + HeaderBlocks(i) * BLOCK_SZ[i]
      BY <1>7, <3>1, Zenon
    <3>. DEFINE e == i * BYTES_PER_FRAME + HeaderBlocks(i) * BLOCK_SZ[i]
    <3>3. e \in Nat
      <4>1. i \in Nat /\ HeaderBlocks(i) \in Nat /\ BLOCK_SZ[i] \in Nat \ {0}
        BY <3>1, Sizes DEF Classes
      <4>2. i * BYTES_PER_FRAME \in Nat /\ HeaderBlocks(i) * BLOCK_SZ[i] \in Nat
        BY <4>1, SizeAssumption, MulMono, Zenon
      <4>. QED  BY <4>2
    <3>4. x >= e /\ x < e
      BY <3>1, <3>2, Zenon
    <3>. HIDE DEF e
    <3>. QED  BY <1>2, <3>3, <3>4
  <2>. QED  BY <2>1, <2>2, Zenon
<1>18. ASSUME NEW o \in L PROVE M = {} /\ H = {}
  <2>1. CASE Small(o)
    BY <1>10, <1>17, <2>1, Zenon
  <2>2. CASE ~Small(o)
    <3>1. Run(o) \subseteq Frames \ (mem \union Classes) /\ g \in Run(o)
      BY <1>1, <1>5, <2>2, Zenon DEF Large
    <3>. QED  BY <1>6, <1>7, <3>1, Zenon
  <2>. QED  BY <2>1, <2>2, Zenon
<1>19. ASSUME NEW b \in F PROVE M = {} /\ H = {}
  <2>1. \E i, a : In(i, a)
    BY <1>11, Zenon
  <2>. QED  BY <1>17, <2>1, Zenon
<1>20. M = {} \/ H = {}
  BY <1>1, <1>6, <1>7, Zenon DEF Types
<1>. DEFINE l == Cardinality(L)
            f == Cardinality(F)
            m == Cardinality(M)
            h == Cardinality(H)
<1>21. l \in 0 .. 1 /\ f \in 0 .. 1 /\ m \in 0 .. 1 /\ h \in 0 .. 1
  BY <1>13, <1>14, <1>15, FewUses, Zenon
<1>22. /\ l = 1 => F = {} /\ M = {} /\ H = {}
       /\ f = 1 => L = {} /\ M = {} /\ H = {}
       /\ m = 1 => H = {}
  BY <1>13, <1>14, <1>15, <1>16, <1>18, <1>19, <1>20, FewUses, Zenon
<1>23. (F = {} => f = 0) /\ (M = {} => m = 0) /\ (H = {} => h = 0) /\ (L = {} => l = 0)
  BY FS_EmptySet, Zenon
<1>. HIDE DEF l, f, m, h
<1>24. l + f + m + h <= 1
  BY <1>21, <1>22, <1>23
<1>. QED  BY <1>24, Zenon DEF l, f, m, h, L, F, M, H

LEMMA InvNoLeak == Inv => NoLeak
<1>. SUFFICES ASSUME Inv, NEW i \in Classes
              PROVE  ((Len(free_list[i])
                         + Cardinality({o \in live : o.size <= MaxBlock /\ class(o.size) = i})
                         + (HEADER + BLOCK_SZ[i] - 1) \div BLOCK_SZ[i]) * BLOCK_SZ[i])
                        % BYTES_PER_FRAME = 0
  BY Zenon DEF NoLeak
<1>. DEFINE d == BLOCK_SZ[i]
            B == BYTES_PER_FRAME
            room == Len(free_list[i]) + Cardinality(Used(live, i)) + HeaderBlocks(i)
<1>1. PICK q \in Nat : room = q * PerFrame(i)
  BY InvParts, Zenon DEF Whole
<1>2. PerFrame(i) \in Nat /\ d \in Nat /\ B \in Nat \ {0} /\ B = PerFrame(i) * d
  BY Sizes, SizeAssumption, Zenon
<1>. HIDE DEF d, B, room
<1>3. room * d = q * B + 0 /\ 0 \in 0 .. B - 1
  BY <1>1, <1>2, MulAssoc
<1>4. (room * d) % B = 0
  BY <1>2, <1>3, MulDiv
<1>. QED  BY <1>4, Zenon DEF room, d, B, Used, Small, HeaderBlocks

LEMMA InvAligned == Inv => AlignedAndLargeEnough
<1>. SUFFICES ASSUME Inv, NEW o \in live
              PROVE  o.ptr % o.align = 0 /\ o.ptr .. o.ptr + o.size - 1 \subseteq Extent(o)
  BY Zenon DEF AlignedAndLargeEnough
<1>1. IsObject(o)
  BY InvParts, Zenon DEF Types
<1>2. o.ptr \in Nat /\ o.size \in Nat /\ MaxBlock \in Nat /\ o.ptr % o.align = 0
  BY <1>1, ObjectFields, MaxBlockNat, Zenon
<1>3. CASE Small(o)
  <2>1. /\ BLOCK_SZ[class(o.size)] \in Nat /\ BLOCK_SZ[class(o.size)] > o.size
        /\ ~(o.size > MaxBlock)
    <3>1. class(o.size) \in Classes /\ BLOCK_SZ[class(o.size)] > o.size
      BY <1>1, <1>3, ObjectFields, Zenon
    <3>2. BLOCK_SZ[class(o.size)] \in Nat
      BY <3>1, Sizes, Zenon
    <3>3. ~(o.size > MaxBlock)
      BY <1>2, <1>3 DEF Small
    <3>. QED  BY <3>1, <3>2, <3>3, Zenon
  <2>2. Extent(o) = o.ptr .. o.ptr + BLOCK_SZ[class(o.size)] - 1
    BY <2>1, Zenon DEF Extent
  <2>. QED  BY <1>2, <2>1, <2>2
<1>4. CASE ~Small(o)
  <2>. DEFINE e == nframes(o.size) * BYTES_PER_FRAME
  <2>1. e \in Nat /\ o.size <= e /\ o.size > MaxBlock
    <3>1. nframes(o.size) \in Nat /\ o.size <= e /\ o.size > MaxBlock
      BY <1>1, <1>2, <1>4, ObjectFields, FramesFor, Zenon
    <3>. QED  BY <3>1, SizeAssumption, MulMono, Zenon
  <2>2. Extent(o) = o.ptr .. o.ptr + e - 1
    BY <2>1, Zenon DEF Extent
  <2>. HIDE DEF e
  <2>. QED  BY <1>2, <2>1, <2>2
<1>. QED  BY <1>2, <1>3, <1>4, Zenon

LEMMA InObjectMemory ==
  ASSUME Inv
  PROVE  /\ \A i \in Classes : \A a \in Held(free_list, live, i) : a \in Memory
         /\ \A o \in live : o.ptr \in Memory
<1>1. ASSUME NEW i \in Classes, NEW a \in Held(free_list, live, i) PROVE a \in Memory
  BY InvParts, InMemory, Zenon DEF Pages, OnPage
<1>2. ASSUME NEW o \in live PROVE o.ptr \in Memory
  <2>1. IsObject(o)
    BY InvParts, Zenon DEF Types
  <2>2. CASE Small(o)
    <3>1. class(o.size) \in Classes /\ o.ptr \in Held(free_list, live, class(o.size))
      BY <2>1, <2>2, ObjectFields, Zenon DEF Held, UsedAt, Used
    <3>. QED  BY <1>1, <3>1, Zenon
  <2>3. CASE ~Small(o)
    <3>1. o.ptr \in Nat /\ FrameOf(o.ptr) \in Run(o) /\ Run(o) \subseteq Frames
      BY <2>1, <2>3, InvParts, ObjectFields, RunStart, Zenon DEF Large
    <3>. QED  BY <3>1, InMemory, Zenon
  <2>. QED  BY <2>2, <2>3, Zenon
<1>. QED  BY <1>1, <1>2, Zenon

\* What alloc returned is null or was the address of an object.
RetOK == ret \in Memory \union {0}
ObjectsIn == \A o \in live : o.ptr \in Memory

LEMMA InvTypes == Inv /\ RetOK => TypeOK
<1>. SUFFICES ASSUME Inv, RetOK PROVE TypeOK
  BY Zenon
<1>1. mem \subseteq 1 .. LastFrame
  BY InvParts, Zenon DEF Types, Frames
<1>2. free_list \in [Classes -> Seq(Memory)]
  <2>1. free_list \in [Classes -> Seq(Nat)]
    BY InvParts, Zenon DEF Types
  <2>2. ASSUME NEW i \in Classes PROVE free_list[i] \in Seq(Memory)
    <3>. DEFINE s == free_list[i]
    <3>1. s \in Seq(Nat)
      BY <2>1, Zenon
    <3>2. \A k \in 1 .. Len(s) : s[k] \in Memory
      BY InObjectMemory, Zenon DEF Held, Addresses
    <3>. HIDE DEF s
    <3>3. s = [k \in 1 .. Len(s) |-> s[k]] /\ Len(s) \in Nat
      BY <3>1
    <3>4. s \in Seq(Memory)
      BY <3>2, <3>3
    <3>. QED  BY <3>4, Zenon DEF s
  <2>. QED  BY <2>1, <2>2, Zenon
<1>3. \A o \in live : o.ptr \in Memory /\ <<o.size, o.align>> \in Layouts
  BY InvParts, InObjectMemory, ObjectFields, Zenon DEF Types
<1>. QED  BY <1>1, <1>2, <1>3, Zenon DEF TypeOK, RetOK

LEMMA NextRet == ObjectsIn' /\ RetOK /\ [Next]_vars => RetOK'
<1>. SUFFICES ASSUME ObjectsIn', RetOK, [Next]_vars PROVE RetOK'
  BY Zenon
<1>. DEFINE Gave == ret' = 0 \/ \E o \in live' : ret' = o.ptr
<1>1. ASSUME NEW STATE p, NEW layout, give(p, layout) PROVE Gave
  <2>1. CASE p = 0
    BY <1>1, <2>1, Zenon DEF give
  <2>2. CASE p # 0
    <3>1. ret' = p /\ Object(p, layout) \in live' /\ Object(p, layout).ptr = p
      BY <1>1, <2>2, Zenon DEF give, Object
    <3>. QED  BY <3>1, Zenon
  <2>. QED  BY <2>1, <2>2, Zenon
<1>. HIDE DEF Gave
<1>2. ASSUME NEW layout, alloc(layout) PROVE Gave
  <2>1. CASE alloc_frames(layout)
    BY <1>1, <2>1, Zenon DEF alloc_frames
  <2>2. CASE alloc_none(layout)
    BY <1>1, <2>2, Zenon DEF alloc_none
  <2>3. CASE alloc_block(layout)
    <3>1. ASSUME NEW STATE i, NEW STATE list, take(i, list, layout) PROVE Gave
      BY <1>1, <3>1, Zenon DEF take
    <3>2. CASE give(0, layout)
      BY <1>1, <3>2, Zenon
    <3>. QED  BY <2>3, <3>1, <3>2, Zenon DEF alloc_block
  <2>. QED  BY <1>2, <2>1, <2>2, <2>3, Zenon DEF alloc
<1>3. ret' = ret \/ ret' = 0 \/ \E o \in live' : ret' = o.ptr
  BY <1>2, Zenon DEF Next, dealloc, vars, Gave
<1>. QED  BY <1>3, Zenon DEF RetOK, ObjectsIn, Memory

LEMMA Invariant == Spec => [](Inv /\ RetOK)
<1>1. Init => Inv /\ RetOK
  BY InitAlloc, Zenon DEF Inv, RetOK, Init
<1>2. Inv /\ [Next]_vars => Inv'
  BY NextAlloc, Zenon DEF Inv
<1>3. Inv => ObjectsIn
  BY InObjectMemory, Zenon DEF ObjectsIn
<1>. QED  BY <1>1, <1>2, <1>3, NextRet, PTL DEF Spec

(* The lists, the objects and the pointer that alloc returns always have   *)
(* their types: every address lies in the managed frames.                  *)
THEOREM TypeCorrect == Spec => []TypeOK
BY Invariant, InvTypes, PTL

(* alloc and dealloc never give a unit of memory two uses: no object       *)
(* overlaps another, a page header, a free block or a free frame, and no   *)
(* block is free twice.                                                    *)
THEOREM MemoryHasOneUse == Spec => []SingleUse
BY Invariant, InvSingleUse, PTL

(* No block is lost between alloc and dealloc: the blocks of a size, free  *)
(* or in use, are whole frames less the room of one header.                *)
THEOREM NoBlockLost == Spec => []NoLeak
BY Invariant, InvNoLeak, PTL

(* The block or the frames alloc picks have the size and the alignment of  *)
(* the layout, for any layout the kernel asks for.                         *)
THEOREM LayoutsHonoured == Spec => []AlignedAndLargeEnough
BY Invariant, InvAligned, PTL
=============================================================================
