------------------------- MODULE TaskManagerProofs -------------------------
(***************************************************************************)
(* For any number of tasks and any capacity of the deque, preemption is    *)
(* invisible to the tasks.                                                 *)
(***************************************************************************)
EXTENDS TaskManager, WellFoundedInduction, TLAPS

(* A non-empty set of natural numbers has a least element: what the loops   *)
(* that look for the first of something rest on.                            *)
LEMMA Least ==
  ASSUME NEW S, S \subseteq Nat, S # {}
  PROVE  \E k \in S : \A m \in S : k <= m
<1>. DEFINE R == OpToRel(<, Nat)
<1>1. ASSUME NEW y \in Nat, NEW x \in Nat, y < x PROVE <<y, x>> \in R
  <2>1. <<y, x>> \in Nat \X Nat /\ <<y, x>>[1] < <<y, x>>[2]
    BY <1>1, Zenon
  <2>. QED  BY <2>1, Zenon DEF R, OpToRel
<1>2. IsWellFoundedOn(R, Nat)
  BY NatLessThanWellFounded, Zenon
<1>. HIDE DEF R
<1>3. PICK k \in S : \A m \in S : ~(<<m, k>> \in R)
  BY <1>2, WFMin, Zenon
<1>4. ASSUME NEW m \in S PROVE k <= m
  <2>1. m \in Nat /\ k \in Nat /\ <<m, k>> \notin R
    BY <1>3, Zenon
  <2>2. ~(m < k)
    BY <1>1, <2>1, Zenon
  <2>. QED  BY <2>1, <2>2
<1>. QED  BY <1>4, Zenon

LEMMA Greatest ==
  ASSUME NEW k \in Nat, NEW S, S \subseteq 1 .. k, S # {}
  PROVE  Max(S) \in S /\ \A x \in S : x <= Max(S)
<1>. DEFINE T == {k - x : x \in S}
<1>1. T \subseteq Nat /\ T # {}
  <2>1. \A x \in S : k - x \in Nat
    <3>1. ASSUME NEW x \in 1 .. k PROVE k - x \in Nat
      OBVIOUS
    <3>. QED  BY <3>1, Zenon
  <2>. QED  BY <2>1, Zenon
<1>2. PICK t \in T : \A u \in T : t <= u
  BY <1>1, Least, Zenon
<1>3. PICK m \in S : t = k - m
  BY Zenon
<1>4. ASSUME NEW x \in S PROVE m >= x
  <2>1. k - x \in T /\ m \in 1 .. k /\ x \in 1 .. k
    BY Zenon
  <2>. HIDE DEF T
  <2>2. k - m <= k - x
    BY <1>2, <1>3, <2>1, Zenon
  <2>. QED  BY <2>1, <2>2
<1>5. \E x \in S : \A y \in S : x >= y
  BY <1>4, Zenon
<1>6. Max(S) \in S /\ \A y \in S : Max(S) >= y
  BY <1>5, Zenon DEF Max
<1>7. Max(S) \in 1 .. k /\ \A x \in S : x \in 1 .. k
  BY <1>6, Zenon
<1>. QED  BY <1>6, <1>7, Zenon

-----------------------------------------------------------------------------
(* switch_context, instruction by instruction.                              *)
LEMMA SaveGeneral ==
  /\ Len(save_general) = 9
  /\ save_general[1] = <<"store", 8, "rax">> /\ save_general[2] = <<"store", 9, "rbx">>
  /\ save_general[3] = <<"store", 10, "rcx">> /\ save_general[4] = <<"store", 11, "rdx">>
  /\ save_general[5] = <<"store", 12, "rdi">> /\ save_general[6] = <<"store", 13, "rsi">>
  /\ save_general[7] = <<"copy", "rax", "rsp">> /\ save_general[8] = <<"store", 14, "rax">>
  /\ save_general[9] = <<"store", 15, "rbp">>
BY Zenon DEF save_general, mov_to, mov_reg, mov_from

LEMMA SaveRest ==
  /\ Len(save_rest) = 22
  /\ save_rest[1] = <<"store", 16, "r8">> /\ save_rest[2] = <<"store", 17, "r9">>
  /\ save_rest[3] = <<"store", 18, "r10">> /\ save_rest[4] = <<"store", 19, "r11">>
  /\ save_rest[5] = <<"store", 20, "r12">> /\ save_rest[6] = <<"store", 21, "r13">>
  /\ save_rest[7] = <<"store", 22, "r14">> /\ save_rest[8] = <<"store", 23, "r15">>
  /\ save_rest[9] = <<"copy", "rax", "cr3">> /\ save_rest[10] = <<"store", 0, "rax">>
  /\ save_rest[11] = <<"copy", "rax", "rip">> /\ save_rest[12] = <<"store", 1, "rax">>
  /\ save_rest[13] = <<"store", 2, "rflags">> /\ save_rest[14] = <<"copy", "rax", "cs">>
  /\ save_rest[15] = <<"store", 4, "rax">> /\ save_rest[16] = <<"copy", "rbx", "ss">>
  /\ save_rest[17] = <<"store", 5, "rbx">> /\ save_rest[18] = <<"copy", "rcx", "fs">>
  /\ save_rest[19] = <<"store", 6, "rcx">> /\ save_rest[20] = <<"copy", "rdx", "gs">>
  /\ save_rest[21] = <<"store", 7, "rdx">> /\ save_rest[22] = <<"store", 24, "fxsave_area">>
BY Zenon DEF save_rest, mov_to, mov_reg, mov_from

LEMMA Restore ==
  /\ Len(restore) = 22
  /\ restore[1] = <<"load", "fxsave_area", 24>> /\ restore[2] = <<"load", "rax", 0>>
  /\ restore[3] = <<"copy", "cr3", "rax">> /\ restore[4] = <<"load", "rax", 6>>
  /\ restore[5] = <<"copy", "fs", "rax">> /\ restore[6] = <<"load", "rax", 7>>
  /\ restore[7] = <<"copy", "gs", "rax">> /\ restore[8] = <<"load", "rax", 8>>
  /\ restore[9] = <<"load", "rbx", 9>> /\ restore[10] = <<"load", "rcx", 10>>
  /\ restore[11] = <<"load", "rdx", 11>> /\ restore[12] = <<"load", "rsi", 13>>
  /\ restore[13] = <<"load", "rbp", 15>> /\ restore[14] = <<"load", "r8", 16>>
  /\ restore[15] = <<"load", "r9", 17>> /\ restore[16] = <<"load", "r10", 18>>
  /\ restore[17] = <<"load", "r11", 19>> /\ restore[18] = <<"load", "r12", 20>>
  /\ restore[19] = <<"load", "r13", 21>> /\ restore[20] = <<"load", "r14", 22>>
  /\ restore[21] = <<"load", "r15", 23>> /\ restore[22] = <<"load", "rdi", 12>>
BY Zenon DEF restore, mov_to, mov_reg, mov_from

\* w is s, of length m, followed by t.
IsJoin(w, s, t, m) ==
  /\ \A i \in 1 .. m : w[i] = s[i]
  /\ \A i \in 1 .. Len(t) : w[m + i] = t[i]

LEMMA Joined ==
  ASSUME NEW S, NEW s \in Seq(S), NEW t \in Seq(S)
  PROVE  /\ s \o t \in Seq(S) /\ Len(s \o t) = Len(s) + Len(t)
         /\ IsJoin(s \o t, s, t, Len(s))
BY DEF IsJoin

LEMMA Program ==
  /\ Len(program) = 53
  /\ \A i \in 1 .. 9 : program[i] = save_general[i]
  /\ \A i \in 1 .. 22 : program[9 + i] = save_rest[i]
  /\ \A i \in 1 .. 22 : program[31 + i] = restore[i]
<1>. DEFINE S == {save_general[i] : i \in 1 .. 9} \union {save_rest[i] : i \in 1 .. 22}
                   \union {restore[i] : i \in 1 .. 22}
            s == save_general
            t == save_rest
            u == restore
<1>1. s \in Seq(S) /\ Len(s) = 9
  <2>1. s = [i \in 1 .. 9 |-> s[i]]
    BY DEF save_general
  <2>2. \A i \in 1 .. 9 : s[i] \in S
    BY Zenon
  <2>. HIDE DEF S
  <2>. QED  BY <2>1, <2>2, SaveGeneral
<1>2. t \in Seq(S) /\ Len(t) = 22
  <2>1. t = [i \in 1 .. 22 |-> t[i]]
    BY DEF save_rest
  <2>2. \A i \in 1 .. 22 : t[i] \in S
    BY Zenon
  <2>. HIDE DEF S
  <2>. QED  BY <2>1, <2>2, SaveRest
<1>3. u \in Seq(S) /\ Len(u) = 22
  <2>1. u = [i \in 1 .. 22 |-> u[i]]
    BY DEF restore
  <2>2. \A i \in 1 .. 22 : u[i] \in S
    BY Zenon
  <2>. HIDE DEF S
  <2>. QED  BY <2>1, <2>2, Restore
<1>4. program = (s \o t) \o u
  BY Zenon DEF program
<1>. HIDE DEF S, s, t, u
<1>5. s \o t \in Seq(S) /\ Len(s \o t) = 31 /\ IsJoin(s \o t, s, t, 9)
  <2>1. s \o t \in Seq(S) /\ Len(s \o t) = Len(s) + Len(t) /\ IsJoin(s \o t, s, t, Len(s))
    BY <1>1, <1>2, Joined, Zenon
  <2>. QED  BY <1>1, <1>2, <2>1
<1>. DEFINE v == s \o t
<1>. HIDE DEF v
<1>6. Len(program) = 53 /\ IsJoin(program, v, u, 31)
  <2>1. v \in Seq(S) /\ Len(v) = 31
    BY <1>5, Zenon DEF v
  <2>2. Len(v \o u) = Len(v) + Len(u) /\ IsJoin(v \o u, v, u, Len(v))
    BY <1>3, <2>1, Joined, Zenon
  <2>3. program = v \o u
    BY <1>4, Zenon DEF v
  <2>. QED  BY <1>3, <2>1, <2>2, <2>3
<1>7. /\ \A i \in 1 .. 9 : v[i] = s[i]
      /\ \A i \in 1 .. 22 : v[9 + i] = t[i]
  BY <1>2, <1>5, Zenon DEF IsJoin, v
<1>8. /\ \A i \in 1 .. 31 : program[i] = v[i]
      /\ \A i \in 1 .. 22 : program[31 + i] = u[i]
  BY <1>3, <1>6, Zenon DEF IsJoin
<1>9. \A i \in 1 .. 9 : program[i] = s[i]
  BY <1>7, <1>8
<1>10. ASSUME NEW i \in 1 .. 22 PROVE program[9 + i] = t[i]
  <2>1. 9 + i \in 1 .. 31
    OBVIOUS
  <2>2. program[9 + i] = v[9 + i] /\ v[9 + i] = t[i]
    BY <1>7, <1>8, <2>1, Zenon
  <2>. QED  BY <2>2, Zenon
<1>. QED  BY <1>6, <1>8, <1>9, <1>10, Zenon DEF s, t, u

-----------------------------------------------------------------------------
(* The registers before each instruction: what the last write before it     *)
(* left there.                                                              *)
LEMMA LastWriter ==
  ASSUME NEW i \in Nat, NEW r, writers(i, r) # {}
  PROVE  Max(writers(i, r)) \in 1 .. i - 1 /\ Max(writers(i, r)) \in writers(i, r)
<1>1. writers(i, r) \subseteq 1 .. i
  BY DEF writers
<1>2. Max(writers(i, r)) \in writers(i, r)
  BY <1>1, Greatest, Zenon
<1>. QED  BY <1>2, Zenon DEF writers

LEMMA SameBefore ==
  ASSUME NEW i \in Nat, NEW f, NEW g, NEW STATE nx, \A j \in 1 .. i - 1 : f[j] = g[j]
  PROVE  registers(f, i, nx) = registers(g, i, nx)
<1>1. ASSUME NEW r \in Registers, writers(i, r) # {}
      PROVE  f[Max(writers(i, r))] = g[Max(writers(i, r))]
  BY <1>1, LastWriter, Zenon
<1>. QED  BY <1>1, Zenon DEF registers

\* f gives the registers before each of the first n instructions.
Trace(f, len, nx) == f = [i \in 1 .. len |-> registers(f, i, nx)]

LEMMA TraceExists ==
  ASSUME NEW STATE nx, NEW k \in Nat
  PROVE  \E f : Trace(f, k, nx)
<1>. DEFINE Bad == {m \in Nat : ~ \E f : Trace(f, m, nx)}
<1>. SUFFICES ASSUME Bad # {} PROVE FALSE
  BY Zenon
<1>1. PICK m \in Bad : \A l \in Bad : m <= l
  BY Least, Zenon
<1>2. m # 0
  <2>. SUFFICES \E f : Trace(f, 0, nx)
    BY Zenon
  <2>. DEFINE f == [i \in 1 .. 0 |-> 0]
  <2>1. f = [i \in 1 .. 0 |-> registers(f, i, nx)]
    OBVIOUS
  <2>. QED  BY <2>1, Zenon DEF Trace
<1>3. m - 1 \in Nat /\ m - 1 \notin Bad
  BY <1>1, <1>2
<1>4. PICK g : Trace(g, m - 1, nx)
  BY <1>3, Zenon
<1>. DEFINE f == [i \in 1 .. m |-> IF i < m THEN g[i] ELSE registers(g, m, nx)]
<1>5. ASSUME NEW i \in 1 .. m PROVE f[i] = registers(f, i, nx)
  <2>1. \A j \in 1 .. i - 1 : f[j] = g[j]
    OBVIOUS
  <2>. HIDE DEF f
  <2>2. registers(f, i, nx) = registers(g, i, nx)
    BY <2>1, SameBefore
  <2>3. CASE i < m
    <3>1. i \in 1 .. m - 1
      BY <1>3, <2>3
    <3>2. g[i] = registers(g, i, nx)
      BY <1>4, <3>1, Zenon DEF Trace
    <3>. QED  BY <2>2, <2>3, <3>2, Zenon DEF f
  <2>4. CASE i = m
    BY <2>2, <2>4 DEF f
  <2>. QED  BY <2>3, <2>4
<1>6. f = [i \in 1 .. m |-> f[i]]
  BY Zenon
<1>. HIDE DEF f
<1>7. Trace(f, m, nx)
  BY <1>5, <1>6, Zenon DEF Trace
<1>. QED  BY <1>1, <1>7, Zenon

LEMMA Execution ==
  ASSUME NEW STATE nx
  PROVE  \A i \in 1 .. 54 : execution(nx)[i] = registers(execution(nx), i, nx)
<1>1. Len(program) + 1 = 54
  BY Program
<1>2. execution(nx) = CHOOSE f : Trace(f, 54, nx)
  BY <1>1, Zenon DEF execution, Trace
<1>3. \E f : Trace(f, 54, nx)
  BY TraceExists, Zenon
<1>4. Trace(execution(nx), 54, nx)
  BY <1>2, <1>3, Zenon
<1>. QED  BY <1>4, Zenon DEF Trace

LEMMA FieldNames ==
  /\ Len(Fields) = 25
  /\ Fields[1] = "cr3" /\ Fields[2] = "rip" /\ Fields[3] = "rflags" /\ Fields[4] = "rsvd1" /\ Fields[5] = "cs"
  /\ Fields[6] = "ss" /\ Fields[7] = "fs" /\ Fields[8] = "gs" /\ Fields[9] = "rax" /\ Fields[10] = "rbx"
  /\ Fields[11] = "rcx" /\ Fields[12] = "rdx" /\ Fields[13] = "rdi" /\ Fields[14] = "rsi" /\ Fields[15] = "rsp"
  /\ Fields[16] = "rbp" /\ Fields[17] = "r8" /\ Fields[18] = "r9" /\ Fields[19] = "r10" /\ Fields[20] = "r11"
  /\ Fields[21] = "r12" /\ Fields[22] = "r13" /\ Fields[23] = "r14" /\ Fields[24] = "r15" /\ Fields[25] = "fxsave_area"
BY Zenon DEF Fields

LEMMA FieldsDistinct ==
  ASSUME NEW i \in 1 .. 25, NEW j \in 1 .. 25, Fields[i] = Fields[j]
  PROVE  i = j
BY FieldNames

LEMMA RegisterNames ==
  ASSUME NEW i \in 1 .. 25, i # 4
  PROVE  Fields[i] \in Registers
<1>1. Fields[i] # "rsvd1"
  BY FieldNames, FieldsDistinct
<1>. QED  BY <1>1, FieldNames, Zenon DEF Registers

\* Instruction j is the last before the i-th that writes register r.
LastWrite(j, i, r) ==
  /\ j \in writers(i, r)
  /\ \A k \in j + 1 .. i - 1 : k \notin writers(i, r)

LEMMA FromCpu ==
  ASSUME NEW STATE nx, NEW i \in 1 .. 54, NEW r \in Registers, writers(i, r) = {}
  PROVE  execution(nx)[i][r] = cpu[r]
<1>1. execution(nx)[i] = registers(execution(nx), i, nx)
  BY Execution, Zenon
<1>. QED  BY <1>1, Zenon DEF registers

LEMMA FromWrite ==
  ASSUME NEW STATE nx, NEW i \in 1 .. 54, NEW r \in Registers, NEW j \in 1 .. i - 1, LastWrite(j, i, r)
  PROVE  execution(nx)[i][r] = IF program[j][1] = "load" THEN nx[program[j][3]]
                               ELSE execution(nx)[j][program[j][3]]
<1>1. execution(nx)[i] = registers(execution(nx), i, nx)
  BY Execution, Zenon
<1>2. writers(i, r) # {} /\ i \in Nat
  BY DEF LastWrite
<1>3. Max(writers(i, r)) \in 1 .. i - 1 /\ Max(writers(i, r)) \in writers(i, r)
  BY <1>2, LastWriter, Zenon
<1>4. writers(i, r) \subseteq 1 .. i
  BY DEF writers
<1>5. j <= Max(writers(i, r))
  BY <1>2, <1>4, Greatest, Zenon DEF LastWrite
<1>6. j = Max(writers(i, r))
  BY <1>3, <1>5 DEF LastWrite
<1>. QED  BY <1>1, <1>2, <1>6, Zenon DEF registers

(* Which registers the saving part overwrites, and from when.              *)
LEMMA ScratchRegisters ==
  ASSUME NEW k \in 1 .. 31, program[k][1] \in {"copy", "load"}
  PROVE  /\ program[k][1] = "copy"
         /\ \/ program[k][2] = "rax" /\ k \in {7, 18, 20, 23}
            \/ program[k][2] = "rbx" /\ k = 25
            \/ program[k][2] = "rcx" /\ k = 27
            \/ program[k][2] = "rdx" /\ k = 29
<1>1. CASE k \in 1 .. 9
  BY <1>1, Program, SaveGeneral
<1>2. CASE k \in 10 .. 31
  <2>1. k - 9 \in 1 .. 22 /\ program[k] = save_rest[k - 9]
    <3>1. k - 9 \in 1 .. 22 /\ 9 + (k - 9) = k
      BY <1>2
    <3>. QED  BY <3>1, Program, Zenon
  <2>. QED  BY <2>1, SaveRest
<1>. QED  BY <1>1, <1>2

\* Instruction j puts into a word of the context the register it is laid out for.
SavesItsField(j, nx) ==
  /\ program[j][2] \in Words
  /\ program[j][2] # 3
  /\ execution(nx)[j][program[j][3]] = cpu[Fields[program[j][2] + 1]]

LEMMA Untouched ==
  ASSUME NEW STATE nx, NEW j \in 1 .. 31, NEW r \in Registers,
         r \notin {"rax", "rbx", "rcx", "rdx"} \/ j < 7
  PROVE  execution(nx)[j][r] = cpu[r]
<1>1. writers(j, r) = {}
  <2>. SUFFICES ASSUME NEW k \in 1 .. j - 1, program[k][1] \in {"copy", "load"}, program[k][2] = r
                PROVE  FALSE
    BY Zenon DEF writers
  <2>. QED  BY ScratchRegisters
<1>. QED  BY <1>1, FromCpu

LEMMA JustCopied ==
  ASSUME NEW STATE nx, NEW j \in 2 .. 31, NEW r \in Registers, NEW x \in Registers,
         program[j - 1] = <<"copy", r, x>>, x \notin {"rax", "rbx", "rcx", "rdx"}
  PROVE  execution(nx)[j][r] = cpu[x]
<1>1. j - 1 \in 1 .. 31 /\ LastWrite(j - 1, j, r)
  BY DEF LastWrite, writers
<1>2. execution(nx)[j][r] = execution(nx)[j - 1][x]
  <2>1. j \in 1 .. 54 /\ j - 1 \in 1 .. j - 1
    OBVIOUS
  <2>2. program[j - 1][1] = "copy" /\ program[j - 1][3] = x
    OBVIOUS
  <2>3. execution(nx)[j][r] = IF program[j - 1][1] = "load" THEN nx[program[j - 1][3]]
                              ELSE execution(nx)[j - 1][program[j - 1][3]]
    BY <1>1, <2>1, FromWrite, Zenon
  <2>. QED  BY <2>2, <2>3, Zenon
<1>3. execution(nx)[j - 1][x] = cpu[x]
  BY <1>1, Untouched, Zenon
<1>. QED  BY <1>2, <1>3, Zenon

LEMMA WordNumbers == Words = 0 .. 24
BY FieldNames DEF Words

LEMMA Instructions ==
  /\ program[1] = <<"store", 8, "rax">> /\ program[2] = <<"store", 9, "rbx">>
  /\ program[3] = <<"store", 10, "rcx">> /\ program[4] = <<"store", 11, "rdx">>
  /\ program[5] = <<"store", 12, "rdi">> /\ program[6] = <<"store", 13, "rsi">>
  /\ program[7] = <<"copy", "rax", "rsp">> /\ program[8] = <<"store", 14, "rax">>
  /\ program[9] = <<"store", 15, "rbp">> /\ program[10] = <<"store", 16, "r8">>
  /\ program[11] = <<"store", 17, "r9">> /\ program[12] = <<"store", 18, "r10">>
  /\ program[13] = <<"store", 19, "r11">> /\ program[14] = <<"store", 20, "r12">>
  /\ program[15] = <<"store", 21, "r13">> /\ program[16] = <<"store", 22, "r14">>
  /\ program[17] = <<"store", 23, "r15">> /\ program[18] = <<"copy", "rax", "cr3">>
  /\ program[19] = <<"store", 0, "rax">> /\ program[20] = <<"copy", "rax", "rip">>
  /\ program[21] = <<"store", 1, "rax">> /\ program[22] = <<"store", 2, "rflags">>
  /\ program[23] = <<"copy", "rax", "cs">> /\ program[24] = <<"store", 4, "rax">>
  /\ program[25] = <<"copy", "rbx", "ss">> /\ program[26] = <<"store", 5, "rbx">>
  /\ program[27] = <<"copy", "rcx", "fs">> /\ program[28] = <<"store", 6, "rcx">>
  /\ program[29] = <<"copy", "rdx", "gs">> /\ program[30] = <<"store", 7, "rdx">>
  /\ program[31] = <<"store", 24, "fxsave_area">>
<1>1. \A i \in 1 .. 9 : program[i] = save_general[i]
  BY Program, Zenon
<1>2. \A i \in 1 .. 22 : program[9 + i] = save_rest[i]
  BY Program, Zenon
<1>3. \A k \in 10 .. 31 : program[k] = save_rest[k - 9]
  <2>. SUFFICES ASSUME NEW k \in 10 .. 31 PROVE program[k] = save_rest[k - 9]
    BY Zenon
  <2>1. k - 9 \in 1 .. 22 /\ 9 + (k - 9) = k
    OBVIOUS
  <2>. QED  BY <1>2, <2>1, Zenon
<1>4. /\ program[1] = <<"store", 8, "rax">> /\ program[2] = <<"store", 9, "rbx">>
      /\ program[3] = <<"store", 10, "rcx">> /\ program[4] = <<"store", 11, "rdx">>
      /\ program[5] = <<"store", 12, "rdi">> /\ program[6] = <<"store", 13, "rsi">>
      /\ program[7] = <<"copy", "rax", "rsp">> /\ program[8] = <<"store", 14, "rax">>
      /\ program[9] = <<"store", 15, "rbp">>
  BY <1>1, SaveGeneral
<1>5. /\ program[10] = save_rest[1] /\ program[11] = save_rest[2] /\ program[12] = save_rest[3]
      /\ program[13] = save_rest[4] /\ program[14] = save_rest[5] /\ program[15] = save_rest[6]
      /\ program[16] = save_rest[7] /\ program[17] = save_rest[8] /\ program[18] = save_rest[9]
      /\ program[19] = save_rest[10] /\ program[20] = save_rest[11] /\ program[21] = save_rest[12]
      /\ program[22] = save_rest[13] /\ program[23] = save_rest[14] /\ program[24] = save_rest[15]
      /\ program[25] = save_rest[16] /\ program[26] = save_rest[17] /\ program[27] = save_rest[18]
      /\ program[28] = save_rest[19] /\ program[29] = save_rest[20] /\ program[30] = save_rest[21]
      /\ program[31] = save_rest[22]
  BY <1>3
<1>. QED  BY <1>4, <1>5, SaveRest, Zenon

LEMMA RegistersNamed ==
  {"cr3", "rip", "rflags", "cs", "ss", "fs", "gs", "rax", "rbx", "rcx", "rdx", "rdi", "rsi", "rsp", "rbp",
   "r8", "r9", "r10", "r11", "r12", "r13", "r14", "r15", "fxsave_area"} \subseteq Registers
BY FieldNames DEF Registers

(* Every store of switch_context puts a register, with the value it had     *)
(* when the switch began, into its own word.                                *)
LEMMA EveryStore ==
  ASSUME NEW STATE nx, NEW j \in 1 .. 53, program[j][1] = "store"
  PROVE  SavesItsField(j, nx)
<1>1. CASE j = 1
  <2>1. execution(nx)[1]["rax"] = cpu["rax"]
    BY RegistersNamed, Untouched
  <2>2. program[1] = <<"store", 8, "rax">> /\ Fields[9] = "rax"
    BY Instructions, FieldNames, Zenon
  <2>. QED  BY <1>1, <2>1, <2>2, WordNumbers DEF SavesItsField
<1>2. CASE j = 2
  <2>1. execution(nx)[2]["rbx"] = cpu["rbx"]
    BY RegistersNamed, Untouched
  <2>2. program[2] = <<"store", 9, "rbx">> /\ Fields[10] = "rbx"
    BY Instructions, FieldNames, Zenon
  <2>. QED  BY <1>2, <2>1, <2>2, WordNumbers DEF SavesItsField
<1>3. CASE j = 3
  <2>1. execution(nx)[3]["rcx"] = cpu["rcx"]
    BY RegistersNamed, Untouched
  <2>2. program[3] = <<"store", 10, "rcx">> /\ Fields[11] = "rcx"
    BY Instructions, FieldNames, Zenon
  <2>. QED  BY <1>3, <2>1, <2>2, WordNumbers DEF SavesItsField
<1>4. CASE j = 4
  <2>1. execution(nx)[4]["rdx"] = cpu["rdx"]
    BY RegistersNamed, Untouched
  <2>2. program[4] = <<"store", 11, "rdx">> /\ Fields[12] = "rdx"
    BY Instructions, FieldNames, Zenon
  <2>. QED  BY <1>4, <2>1, <2>2, WordNumbers DEF SavesItsField
<1>5. CASE j = 5
  <2>1. execution(nx)[5]["rdi"] = cpu["rdi"]
    BY RegistersNamed, Untouched
  <2>2. program[5] = <<"store", 12, "rdi">> /\ Fields[13] = "rdi"
    BY Instructions, FieldNames, Zenon
  <2>. QED  BY <1>5, <2>1, <2>2, WordNumbers DEF SavesItsField
<1>6. CASE j = 6
  <2>1. execution(nx)[6]["rsi"] = cpu["rsi"]
    BY RegistersNamed, Untouched
  <2>2. program[6] = <<"store", 13, "rsi">> /\ Fields[14] = "rsi"
    BY Instructions, FieldNames, Zenon
  <2>. QED  BY <1>6, <2>1, <2>2, WordNumbers DEF SavesItsField
<1>7. CASE j = 8
  <2>1. execution(nx)[8]["rax"] = cpu["rsp"]
    <3>1. /\ 8 \in 2 .. 31 /\ program[8 - 1] = <<"copy", "rax", "rsp">>
          /\ "rsp" \notin {"rax", "rbx", "rcx", "rdx"}
      BY Instructions
    <3>2. "rax" \in Registers /\ "rsp" \in Registers
      BY RegistersNamed, Zenon
    <3>. QED  BY <3>1, <3>2, JustCopied
  <2>2. program[8] = <<"store", 14, "rax">> /\ Fields[15] = "rsp"
    BY Instructions, FieldNames, Zenon
  <2>. QED  BY <1>7, <2>1, <2>2, WordNumbers DEF SavesItsField
<1>8. CASE j = 9
  <2>1. execution(nx)[9]["rbp"] = cpu["rbp"]
    BY RegistersNamed, Untouched
  <2>2. program[9] = <<"store", 15, "rbp">> /\ Fields[16] = "rbp"
    BY Instructions, FieldNames, Zenon
  <2>. QED  BY <1>8, <2>1, <2>2, WordNumbers DEF SavesItsField
<1>9. CASE j = 10
  <2>1. execution(nx)[10]["r8"] = cpu["r8"]
    BY RegistersNamed, Untouched
  <2>2. program[10] = <<"store", 16, "r8">> /\ Fields[17] = "r8"
    BY Instructions, FieldNames, Zenon
  <2>. QED  BY <1>9, <2>1, <2>2, WordNumbers DEF SavesItsField
<1>10. CASE j = 11
  <2>1. execution(nx)[11]["r9"] = cpu["r9"]
    BY RegistersNamed, Untouched
  <2>2. program[11] = <<"store", 17, "r9">> /\ Fields[18] = "r9"
    BY Instructions, FieldNames, Zenon
  <2>. QED  BY <1>10, <2>1, <2>2, WordNumbers DEF SavesItsField
<1>11. CASE j = 12
  <2>1. execution(nx)[12]["r10"] = cpu["r10"]
    BY RegistersNamed, Untouched
  <2>2. program[12] = <<"store", 18, "r10">> /\ Fields[19] = "r10"
    BY Instructions, FieldNames, Zenon
  <2>. QED  BY <1>11, <2>1, <2>2, WordNumbers DEF SavesItsField
<1>12. CASE j = 13
  <2>1. execution(nx)[13]["r11"] = cpu["r11"]
    BY RegistersNamed, Untouched
  <2>2. program[13] = <<"store", 19, "r11">> /\ Fields[20] = "r11"
    BY Instructions, FieldNames, Zenon
  <2>. QED  BY <1>12, <2>1, <2>2, WordNumbers DEF SavesItsField
<1>13. CASE j = 14
  <2>1. execution(nx)[14]["r12"] = cpu["r12"]
    BY RegistersNamed, Untouched
  <2>2. program[14] = <<"store", 20, "r12">> /\ Fields[21] = "r12"
    BY Instructions, FieldNames, Zenon
  <2>. QED  BY <1>13, <2>1, <2>2, WordNumbers DEF SavesItsField
<1>14. CASE j = 15
  <2>1. execution(nx)[15]["r13"] = cpu["r13"]
    BY RegistersNamed, Untouched
  <2>2. program[15] = <<"store", 21, "r13">> /\ Fields[22] = "r13"
    BY Instructions, FieldNames, Zenon
  <2>. QED  BY <1>14, <2>1, <2>2, WordNumbers DEF SavesItsField
<1>15. CASE j = 16
  <2>1. execution(nx)[16]["r14"] = cpu["r14"]
    BY RegistersNamed, Untouched
  <2>2. program[16] = <<"store", 22, "r14">> /\ Fields[23] = "r14"
    BY Instructions, FieldNames, Zenon
  <2>. QED  BY <1>15, <2>1, <2>2, WordNumbers DEF SavesItsField
<1>16. CASE j = 17
  <2>1. execution(nx)[17]["r15"] = cpu["r15"]
    BY RegistersNamed, Untouched
  <2>2. program[17] = <<"store", 23, "r15">> /\ Fields[24] = "r15"
    BY Instructions, FieldNames, Zenon
  <2>. QED  BY <1>16, <2>1, <2>2, WordNumbers DEF SavesItsField
<1>17. CASE j = 19
  <2>1. execution(nx)[19]["rax"] = cpu["cr3"]
    <3>1. /\ 19 \in 2 .. 31 /\ program[19 - 1] = <<"copy", "rax", "cr3">>
          /\ "cr3" \notin {"rax", "rbx", "rcx", "rdx"}
      BY Instructions
    <3>2. "rax" \in Registers /\ "cr3" \in Registers
      BY RegistersNamed, Zenon
    <3>. QED  BY <3>1, <3>2, JustCopied
  <2>2. program[19] = <<"store", 0, "rax">> /\ Fields[1] = "cr3"
    BY Instructions, FieldNames, Zenon
  <2>. QED  BY <1>17, <2>1, <2>2, WordNumbers DEF SavesItsField
<1>18. CASE j = 21
  <2>1. execution(nx)[21]["rax"] = cpu["rip"]
    <3>1. /\ 21 \in 2 .. 31 /\ program[21 - 1] = <<"copy", "rax", "rip">>
          /\ "rip" \notin {"rax", "rbx", "rcx", "rdx"}
      BY Instructions
    <3>2. "rax" \in Registers /\ "rip" \in Registers
      BY RegistersNamed, Zenon
    <3>. QED  BY <3>1, <3>2, JustCopied
  <2>2. program[21] = <<"store", 1, "rax">> /\ Fields[2] = "rip"
    BY Instructions, FieldNames, Zenon
  <2>. QED  BY <1>18, <2>1, <2>2, WordNumbers DEF SavesItsField
<1>19. CASE j = 22
  <2>1. execution(nx)[22]["rflags"] = cpu["rflags"]
    BY RegistersNamed, Untouched
  <2>2. program[22] = <<"store", 2, "rflags">> /\ Fields[3] = "rflags"
    BY Instructions, FieldNames, Zenon
  <2>. QED  BY <1>19, <2>1, <2>2, WordNumbers DEF SavesItsField
<1>20. CASE j = 24
  <2>1. execution(nx)[24]["rax"] = cpu["cs"]
    <3>1. /\ 24 \in 2 .. 31 /\ program[24 - 1] = <<"copy", "rax", "cs">>
          /\ "cs" \notin {"rax", "rbx", "rcx", "rdx"}
      BY Instructions
    <3>2. "rax" \in Registers /\ "cs" \in Registers
      BY RegistersNamed, Zenon
    <3>. QED  BY <3>1, <3>2, JustCopied
  <2>2. program[24] = <<"store", 4, "rax">> /\ Fields[5] = "cs"
    BY Instructions, FieldNames, Zenon
  <2>. QED  BY <1>20, <2>1, <2>2, WordNumbers DEF SavesItsField
<1>21. CASE j = 26
  <2>1. execution(nx)[26]["rbx"] = cpu["ss"]
    <3>1. /\ 26 \in 2 .. 31 /\ program[26 - 1] = <<"copy", "rbx", "ss">>
          /\ "ss" \notin {"rax", "rbx", "rcx", "rdx"}
      BY Instructions
    <3>2. "rbx" \in Registers /\ "ss" \in Registers
      BY RegistersNamed, Zenon
    <3>. QED  BY <3>1, <3>2, JustCopied
  <2>2. program[26] = <<"store", 5, "rbx">> /\ Fields[6] = "ss"
    BY Instructions, FieldNames, Zenon
  <2>. QED  BY <1>21, <2>1, <2>2, WordNumbers DEF SavesItsField
<1>22. CASE j = 28
  <2>1. execution(nx)[28]["rcx"] = cpu["fs"]
    <3>1. /\ 28 \in 2 .. 31 /\ program[28 - 1] = <<"copy", "rcx", "fs">>
          /\ "fs" \notin {"rax", "rbx", "rcx", "rdx"}
      BY Instructions
    <3>2. "rcx" \in Registers /\ "fs" \in Registers
      BY RegistersNamed, Zenon
    <3>. QED  BY <3>1, <3>2, JustCopied
  <2>2. program[28] = <<"store", 6, "rcx">> /\ Fields[7] = "fs"
    BY Instructions, FieldNames, Zenon
  <2>. QED  BY <1>22, <2>1, <2>2, WordNumbers DEF SavesItsField
<1>23. CASE j = 30
  <2>1. execution(nx)[30]["rdx"] = cpu["gs"]
    <3>1. /\ 30 \in 2 .. 31 /\ program[30 - 1] = <<"copy", "rdx", "gs">>
          /\ "gs" \notin {"rax", "rbx", "rcx", "rdx"}
      BY Instructions
    <3>2. "rdx" \in Registers /\ "gs" \in Registers
      BY RegistersNamed, Zenon
    <3>. QED  BY <3>1, <3>2, JustCopied
  <2>2. program[30] = <<"store", 7, "rdx">> /\ Fields[8] = "gs"
    BY Instructions, FieldNames, Zenon
  <2>. QED  BY <1>23, <2>1, <2>2, WordNumbers DEF SavesItsField
<1>24. CASE j = 31
  <2>1. execution(nx)[31]["fxsave_area"] = cpu["fxsave_area"]
    BY RegistersNamed, Untouched
  <2>2. program[31] = <<"store", 24, "fxsave_area">> /\ Fields[25] = "fxsave_area"
    BY Instructions, FieldNames, Zenon
  <2>. QED  BY <1>24, <2>1, <2>2, WordNumbers DEF SavesItsField
<1>25. CASE j \in {7, 18, 20, 23, 25, 27, 29}
  BY <1>25, Instructions
<1>26. CASE j \in 32 .. 53
  <2>1. j - 31 \in 1 .. 22 /\ 31 + (j - 31) = j
    BY <1>26
  <2>2. program[j] = restore[j - 31]
    BY <2>1, Program, Zenon
  <2>. QED  BY <2>1, <2>2, Restore
<1>. QED  BY <1>1, <1>2, <1>3, <1>4, <1>5, <1>6, <1>7, <1>8, <1>9, <1>10, <1>11, <1>12, <1>13,
            <1>14, <1>15, <1>16, <1>17, <1>18, <1>19, <1>20, <1>21, <1>22, <1>23, <1>24, <1>25, <1>26

LEMMA RestoreInstructions ==
  /\ program[32] = <<"load", "fxsave_area", 24>> /\ program[33] = <<"load", "rax", 0>>
  /\ program[34] = <<"copy", "cr3", "rax">> /\ program[35] = <<"load", "rax", 6>>
  /\ program[36] = <<"copy", "fs", "rax">> /\ program[37] = <<"load", "rax", 7>>
  /\ program[38] = <<"copy", "gs", "rax">> /\ program[39] = <<"load", "rax", 8>>
  /\ program[40] = <<"load", "rbx", 9>> /\ program[41] = <<"load", "rcx", 10>>
  /\ program[42] = <<"load", "rdx", 11>> /\ program[43] = <<"load", "rsi", 13>>
  /\ program[44] = <<"load", "rbp", 15>> /\ program[45] = <<"load", "r8", 16>>
  /\ program[46] = <<"load", "r9", 17>> /\ program[47] = <<"load", "r10", 18>>
  /\ program[48] = <<"load", "r11", 19>> /\ program[49] = <<"load", "r12", 20>>
  /\ program[50] = <<"load", "r13", 21>> /\ program[51] = <<"load", "r14", 22>>
  /\ program[52] = <<"load", "r15", 23>> /\ program[53] = <<"load", "rdi", 12>>
<1>1. \A i \in 1 .. 22 : program[31 + i] = restore[i]
  BY Program, Zenon
<1>2. \A k \in 32 .. 53 : program[k] = restore[k - 31]
  <2>. SUFFICES ASSUME NEW k \in 32 .. 53 PROVE program[k] = restore[k - 31]
    BY Zenon
  <2>1. k - 31 \in 1 .. 22 /\ 31 + (k - 31) = k
    OBVIOUS
  <2>. QED  BY <1>1, <2>1, Zenon
<1>. QED  BY <1>2, Restore

\* The registers that iretq does not restore.
Loaded == {"cr3", "fs", "gs", "rax", "rbx", "rcx", "rdx", "rdi", "rsi", "rbp", "r8",
           "r9", "r10", "r11", "r12", "r13", "r14", "r15", "fxsave_area"}

LEMMA LoadedRegisters ==
  ASSUME NEW r \in Registers, r \notin {"rip", "cs", "rflags", "rsp", "ss"}
  PROVE  r \in Loaded
BY FieldNames DEF Registers, Loaded

LEMMA LoadedOnce ==
  ASSUME NEW r \in Loaded
  PROVE  \E j \in writers(54, r) : j \in 32 .. 53 /\ (r = "rax" => j = 39)
BY RestoreInstructions DEF writers, Loaded

\* Register r is left with the word of nx that is laid out for it.
RestoresField(r, nx) ==
  \E w \in Words : w # 3 /\ Fields[w + 1] = r /\ execution(nx)[54][r] = nx[w]

LEMMA LoadRestores ==
  ASSUME NEW STATE nx, NEW r \in Registers, NEW j \in 32 .. 53, NEW w \in 0 .. 24, w # 3,
         LastWrite(j, 54, r), program[j] = <<"load", r, w>>, Fields[w + 1] = r
  PROVE  RestoresField(r, nx)
<1>1. 54 \in 1 .. 54 /\ j \in 1 .. 54 - 1
  OBVIOUS
<1>2. program[j][1] = "load" /\ program[j][3] = w
  OBVIOUS
<1>3. execution(nx)[54][r] = IF program[j][1] = "load" THEN nx[program[j][3]]
                             ELSE execution(nx)[j][program[j][3]]
  BY <1>1, FromWrite, Zenon
<1>. QED  BY <1>2, <1>3, WordNumbers, Zenon DEF RestoresField

LEMMA CopyRestores ==
  ASSUME NEW STATE nx, NEW r \in Registers, NEW j \in 33 .. 53, NEW w \in 0 .. 24, w # 3,
         LastWrite(j, 54, r), program[j - 1] = <<"load", "rax", w>>,
         program[j] = <<"copy", r, "rax">>, Fields[w + 1] = r
  PROVE  RestoresField(r, nx)
<1>1. /\ 54 \in 1 .. 54 /\ j \in 1 .. 54 - 1
      /\ j \in 1 .. 54 /\ j - 1 \in 1 .. j - 1 /\ "rax" \in Registers
  BY RegistersNamed
<1>2. /\ program[j][1] = "copy" /\ program[j][3] = "rax"
      /\ program[j - 1][1] = "load" /\ program[j - 1][2] = "rax" /\ program[j - 1][3] = w
  OBVIOUS
<1>3. execution(nx)[54][r] = IF program[j][1] = "load" THEN nx[program[j][3]]
                             ELSE execution(nx)[j][program[j][3]]
  BY <1>1, FromWrite, Zenon
<1>4. LastWrite(j - 1, j, "rax")
  BY <1>1, <1>2 DEF LastWrite, writers
<1>5. execution(nx)[j]["rax"] = IF program[j - 1][1] = "load" THEN nx[program[j - 1][3]]
                                ELSE execution(nx)[j - 1][program[j - 1][3]]
  BY <1>1, <1>4, FromWrite, Zenon
<1>. QED  BY <1>2, <1>3, <1>5, WordNumbers, Zenon DEF RestoresField

(* Every register that iretq does not restore is left with its own word of  *)
(* the context that is switched to.                                         *)
LEMMA EveryLoad ==
  ASSUME NEW STATE nx, NEW r \in Registers, r \notin {"rip", "cs", "rflags", "rsp", "ss"}
  PROVE  RestoresField(r, nx)
<1>1. PICK j \in writers(54, r) : j \in 32 .. 53 /\ (r = "rax" => j = 39)
  BY LoadedRegisters, LoadedOnce, Zenon
<1>. DEFINE m == Max(writers(54, r))
<1>2. writers(54, r) \subseteq 1 .. 53 /\ writers(54, r) # {} /\ 53 \in Nat
  BY <1>1 DEF writers
<1>3. m \in writers(54, r) /\ \A x \in writers(54, r) : x <= m
  BY <1>2, Greatest, Zenon
<1>. HIDE DEF m
<1>4. m \in 32 .. 53 /\ (r = "rax" => m >= 39)
  BY <1>1, <1>2, <1>3
<1>5. LastWrite(m, 54, r)
  BY <1>2, <1>3, <1>4 DEF LastWrite
<1>6. program[m][2] = r
  BY <1>3, Zenon DEF writers
<1>7. CASE m = 32
  <2>1. program[32] = <<"load", "fxsave_area", 24>> /\ Fields[25] = "fxsave_area"
    BY RestoreInstructions, FieldNames, Zenon
  <2>2. r = "fxsave_area"
    BY <1>6, <1>7, <2>1
  <2>3. /\ program[m] = <<"load", r, 24>>
        /\ 24 \in 0 .. 24 /\ 24 # 3 /\ Fields[24 + 1] = r
    BY <1>7, <2>1, <2>2
  <2>. QED  BY <1>4, <1>5, <2>3, LoadRestores, Zenon
<1>8. CASE m = 34
  <2>1. program[33] = <<"load", "rax", 0>> /\ program[34] = <<"copy", "cr3", "rax">> /\ Fields[1] = "cr3"
    BY RestoreInstructions, FieldNames, Zenon
  <2>2. r = "cr3"
    BY <1>6, <1>8, <2>1
  <2>3. m \in 33 .. 53 /\ program[m - 1] = <<"load", "rax", 0>> /\ program[m] = <<"copy", r, "rax">>
    BY <1>8, <2>1, <2>2
  <2>4. 0 \in 0 .. 24 /\ 0 # 3 /\ Fields[0 + 1] = r
    BY <2>1, <2>2
  <2>. QED  BY <1>5, <2>3, <2>4, CopyRestores, Zenon
<1>9. CASE m = 36
  <2>1. program[35] = <<"load", "rax", 6>> /\ program[36] = <<"copy", "fs", "rax">> /\ Fields[7] = "fs"
    BY RestoreInstructions, FieldNames, Zenon
  <2>2. r = "fs"
    BY <1>6, <1>9, <2>1
  <2>3. m \in 33 .. 53 /\ program[m - 1] = <<"load", "rax", 6>> /\ program[m] = <<"copy", r, "rax">>
    BY <1>9, <2>1, <2>2
  <2>4. 6 \in 0 .. 24 /\ 6 # 3 /\ Fields[6 + 1] = r
    BY <2>1, <2>2
  <2>. QED  BY <1>5, <2>3, <2>4, CopyRestores, Zenon
<1>10. CASE m = 38
  <2>1. program[37] = <<"load", "rax", 7>> /\ program[38] = <<"copy", "gs", "rax">> /\ Fields[8] = "gs"
    BY RestoreInstructions, FieldNames, Zenon
  <2>2. r = "gs"
    BY <1>6, <1>10, <2>1
  <2>3. m \in 33 .. 53 /\ program[m - 1] = <<"load", "rax", 7>> /\ program[m] = <<"copy", r, "rax">>
    BY <1>10, <2>1, <2>2
  <2>4. 7 \in 0 .. 24 /\ 7 # 3 /\ Fields[7 + 1] = r
    BY <2>1, <2>2
  <2>. QED  BY <1>5, <2>3, <2>4, CopyRestores, Zenon
<1>11. CASE m = 39
  <2>1. program[39] = <<"load", "rax", 8>> /\ Fields[9] = "rax"
    BY RestoreInstructions, FieldNames, Zenon
  <2>2. r = "rax"
    BY <1>6, <1>11, <2>1
  <2>3. /\ program[m] = <<"load", r, 8>>
        /\ 8 \in 0 .. 24 /\ 8 # 3 /\ Fields[8 + 1] = r
    BY <1>11, <2>1, <2>2
  <2>. QED  BY <1>4, <1>5, <2>3, LoadRestores, Zenon
<1>12. CASE m = 40
  <2>1. program[40] = <<"load", "rbx", 9>> /\ Fields[10] = "rbx"
    BY RestoreInstructions, FieldNames, Zenon
  <2>2. r = "rbx"
    BY <1>6, <1>12, <2>1
  <2>3. /\ program[m] = <<"load", r, 9>>
        /\ 9 \in 0 .. 24 /\ 9 # 3 /\ Fields[9 + 1] = r
    BY <1>12, <2>1, <2>2
  <2>. QED  BY <1>4, <1>5, <2>3, LoadRestores, Zenon
<1>13. CASE m = 41
  <2>1. program[41] = <<"load", "rcx", 10>> /\ Fields[11] = "rcx"
    BY RestoreInstructions, FieldNames, Zenon
  <2>2. r = "rcx"
    BY <1>6, <1>13, <2>1
  <2>3. /\ program[m] = <<"load", r, 10>>
        /\ 10 \in 0 .. 24 /\ 10 # 3 /\ Fields[10 + 1] = r
    BY <1>13, <2>1, <2>2
  <2>. QED  BY <1>4, <1>5, <2>3, LoadRestores, Zenon
<1>14. CASE m = 42
  <2>1. program[42] = <<"load", "rdx", 11>> /\ Fields[12] = "rdx"
    BY RestoreInstructions, FieldNames, Zenon
  <2>2. r = "rdx"
    BY <1>6, <1>14, <2>1
  <2>3. /\ program[m] = <<"load", r, 11>>
        /\ 11 \in 0 .. 24 /\ 11 # 3 /\ Fields[11 + 1] = r
    BY <1>14, <2>1, <2>2
  <2>. QED  BY <1>4, <1>5, <2>3, LoadRestores, Zenon
<1>15. CASE m = 43
  <2>1. program[43] = <<"load", "rsi", 13>> /\ Fields[14] = "rsi"
    BY RestoreInstructions, FieldNames, Zenon
  <2>2. r = "rsi"
    BY <1>6, <1>15, <2>1
  <2>3. /\ program[m] = <<"load", r, 13>>
        /\ 13 \in 0 .. 24 /\ 13 # 3 /\ Fields[13 + 1] = r
    BY <1>15, <2>1, <2>2
  <2>. QED  BY <1>4, <1>5, <2>3, LoadRestores, Zenon
<1>16. CASE m = 44
  <2>1. program[44] = <<"load", "rbp", 15>> /\ Fields[16] = "rbp"
    BY RestoreInstructions, FieldNames, Zenon
  <2>2. r = "rbp"
    BY <1>6, <1>16, <2>1
  <2>3. /\ program[m] = <<"load", r, 15>>
        /\ 15 \in 0 .. 24 /\ 15 # 3 /\ Fields[15 + 1] = r
    BY <1>16, <2>1, <2>2
  <2>. QED  BY <1>4, <1>5, <2>3, LoadRestores, Zenon
<1>17. CASE m = 45
  <2>1. program[45] = <<"load", "r8", 16>> /\ Fields[17] = "r8"
    BY RestoreInstructions, FieldNames, Zenon
  <2>2. r = "r8"
    BY <1>6, <1>17, <2>1
  <2>3. /\ program[m] = <<"load", r, 16>>
        /\ 16 \in 0 .. 24 /\ 16 # 3 /\ Fields[16 + 1] = r
    BY <1>17, <2>1, <2>2
  <2>. QED  BY <1>4, <1>5, <2>3, LoadRestores, Zenon
<1>18. CASE m = 46
  <2>1. program[46] = <<"load", "r9", 17>> /\ Fields[18] = "r9"
    BY RestoreInstructions, FieldNames, Zenon
  <2>2. r = "r9"
    BY <1>6, <1>18, <2>1
  <2>3. /\ program[m] = <<"load", r, 17>>
        /\ 17 \in 0 .. 24 /\ 17 # 3 /\ Fields[17 + 1] = r
    BY <1>18, <2>1, <2>2
  <2>. QED  BY <1>4, <1>5, <2>3, LoadRestores, Zenon
<1>19. CASE m = 47
  <2>1. program[47] = <<"load", "r10", 18>> /\ Fields[19] = "r10"
    BY RestoreInstructions, FieldNames, Zenon
  <2>2. r = "r10"
    BY <1>6, <1>19, <2>1
  <2>3. /\ program[m] = <<"load", r, 18>>
        /\ 18 \in 0 .. 24 /\ 18 # 3 /\ Fields[18 + 1] = r
    BY <1>19, <2>1, <2>2
  <2>. QED  BY <1>4, <1>5, <2>3, LoadRestores, Zenon
<1>20. CASE m = 48
  <2>1. program[48] = <<"load", "r11", 19>> /\ Fields[20] = "r11"
    BY RestoreInstructions, FieldNames, Zenon
  <2>2. r = "r11"
    BY <1>6, <1>20, <2>1
  <2>3. /\ program[m] = <<"load", r, 19>>
        /\ 19 \in 0 .. 24 /\ 19 # 3 /\ Fields[19 + 1] = r
    BY <1>20, <2>1, <2>2
  <2>. QED  BY <1>4, <1>5, <2>3, LoadRestores, Zenon
<1>21. CASE m = 49
  <2>1. program[49] = <<"load", "r12", 20>> /\ Fields[21] = "r12"
    BY RestoreInstructions, FieldNames, Zenon
  <2>2. r = "r12"
    BY <1>6, <1>21, <2>1
  <2>3. /\ program[m] = <<"load", r, 20>>
        /\ 20 \in 0 .. 24 /\ 20 # 3 /\ Fields[20 + 1] = r
    BY <1>21, <2>1, <2>2
  <2>. QED  BY <1>4, <1>5, <2>3, LoadRestores, Zenon
<1>22. CASE m = 50
  <2>1. program[50] = <<"load", "r13", 21>> /\ Fields[22] = "r13"
    BY RestoreInstructions, FieldNames, Zenon
  <2>2. r = "r13"
    BY <1>6, <1>22, <2>1
  <2>3. /\ program[m] = <<"load", r, 21>>
        /\ 21 \in 0 .. 24 /\ 21 # 3 /\ Fields[21 + 1] = r
    BY <1>22, <2>1, <2>2
  <2>. QED  BY <1>4, <1>5, <2>3, LoadRestores, Zenon
<1>23. CASE m = 51
  <2>1. program[51] = <<"load", "r14", 22>> /\ Fields[23] = "r14"
    BY RestoreInstructions, FieldNames, Zenon
  <2>2. r = "r14"
    BY <1>6, <1>23, <2>1
  <2>3. /\ program[m] = <<"load", r, 22>>
        /\ 22 \in 0 .. 24 /\ 22 # 3 /\ Fields[22 + 1] = r
    BY <1>23, <2>1, <2>2
  <2>. QED  BY <1>4, <1>5, <2>3, LoadRestores, Zenon
<1>24. CASE m = 52
  <2>1. program[52] = <<"load", "r15", 23>> /\ Fields[24] = "r15"
    BY RestoreInstructions, FieldNames, Zenon
  <2>2. r = "r15"
    BY <1>6, <1>24, <2>1
  <2>3. /\ program[m] = <<"load", r, 23>>
        /\ 23 \in 0 .. 24 /\ 23 # 3 /\ Fields[23 + 1] = r
    BY <1>24, <2>1, <2>2
  <2>. QED  BY <1>4, <1>5, <2>3, LoadRestores, Zenon
<1>25. CASE m = 53
  <2>1. program[53] = <<"load", "rdi", 12>> /\ Fields[13] = "rdi"
    BY RestoreInstructions, FieldNames, Zenon
  <2>2. r = "rdi"
    BY <1>6, <1>25, <2>1
  <2>3. /\ program[m] = <<"load", r, 12>>
        /\ 12 \in 0 .. 24 /\ 12 # 3 /\ Fields[12 + 1] = r
    BY <1>25, <2>1, <2>2
  <2>. QED  BY <1>4, <1>5, <2>3, LoadRestores, Zenon
<1>26. CASE m \in {33, 35, 37}
  BY <1>4, <1>6, <1>26, RestoreInstructions
<1>. QED  BY <1>4, <1>7, <1>8, <1>9, <1>10, <1>11, <1>12, <1>13, <1>14, <1>15, <1>16, <1>17, <1>18,
            <1>19, <1>20, <1>21, <1>22, <1>23, <1>24, <1>25, <1>26

LEMMA WordOf ==
  ASSUME NEW r \in Registers
  PROVE  /\ word[r] \in Words /\ word[r] # 3 /\ Fields[word[r] + 1] = r
         /\ \A w \in Words : Fields[w + 1] = r => w = word[r]
<1>1. PICK i \in 1 .. 25 : Fields[i] = r /\ i # 4
  BY FieldNames, Zenon DEF Registers
<1>2. i - 1 \in Words /\ Fields[(i - 1) + 1] = r
  BY <1>1, WordNumbers
<1>3. word[r] \in Words /\ Fields[word[r] + 1] = r
  BY <1>2, Zenon DEF word
<1>4. ASSUME NEW w \in Words, Fields[w + 1] = r PROVE w = i - 1
  <2>1. w + 1 \in 1 .. 25
    BY WordNumbers
  <2>2. w + 1 = i
    BY <1>1, <1>4, <2>1, FieldsDistinct, Zenon
  <2>. QED  BY <2>1, <2>2, WordNumbers
<1>5. word[r] = i - 1
  BY <1>3, <1>4, Zenon
<1>. QED  BY <1>1, <1>3, <1>4, <1>5

LEMMA EveryWordStored ==
  ASSUME NEW w \in Words, w # 3
  PROVE  stores(w) # {}
<1>1. Len(program) = 53 /\ w \in 0 .. 24
  BY Program, WordNumbers, Zenon
<1>. QED  BY <1>1, Instructions, SMTT(30) DEF stores

(* Word w of the saved context is the register laid out there.              *)
LEMMA Saved ==
  ASSUME NEW STATE nx, NEW STATE cx, NEW w \in Words
  PROVE  switch_context(nx, cx).ctx[w] = IF w = 3 THEN cx[w] ELSE cpu[Fields[w + 1]]
<1>. DEFINE reg == execution(nx)
            m == Max(stores(w))
<1>1. switch_context(nx, cx).ctx[w]
        = IF stores(w) = {} THEN cx[w] ELSE reg[m][program[m][3]]
  BY Zenon DEF switch_context
<1>2. stores(w) \subseteq 1 .. 53 /\ 53 \in Nat
  BY Program, Zenon DEF stores
<1>3. ASSUME stores(w) # {}
      PROVE  w # 3 /\ reg[m][program[m][3]] = cpu[Fields[w + 1]]
  <2>1. m \in stores(w)
    BY <1>2, <1>3, Greatest, Zenon
  <2>. HIDE DEF m
  <2>2. m \in 1 .. 53 /\ program[m][1] = "store" /\ program[m][2] = w
    BY <1>2, <2>1, Zenon DEF stores
  <2>3. SavesItsField(m, nx)
    BY <2>2, EveryStore, Zenon
  <2>. QED  BY <2>2, <2>3, Zenon DEF SavesItsField
<1>. QED  BY <1>1, <1>3, EveryWordStored, Zenon

LEMMA Popped ==
  ASSUME NEW r \in {"rip", "cs", "rflags", "rsp", "ss"}
  PROVE  LET place == {i \in 1 .. Len(iretq) : iretq[i] = r}
         IN  place # {} /\ pushed[Len(pushed) + 1 - Max(place)] = word[r]
<1>. DEFINE place == {i \in 1 .. Len(iretq) : iretq[i] = r}
<1>1. /\ Len(iretq) = 5 /\ iretq[1] = "rip" /\ iretq[2] = "cs" /\ iretq[3] = "rflags"
      /\ iretq[4] = "rsp" /\ iretq[5] = "ss"
  BY Zenon DEF iretq
<1>2. /\ Len(pushed) = 5 /\ pushed[5] = 1 /\ pushed[4] = 4 /\ pushed[3] = 2
      /\ pushed[2] = 14 /\ pushed[1] = 5
  BY Zenon DEF pushed
<1>3. r \in Registers
  BY RegistersNamed, Zenon
<1>4. place # {} /\ place \subseteq 1 .. 5 /\ 5 \in Nat
  BY <1>1
<1>5. Max(place) \in place
  BY <1>4, Greatest, Zenon
<1>. DEFINE m == Max(place)
<1>6. m \in 1 .. 5 /\ iretq[m] = r
  BY <1>1, <1>5, Zenon
<1>. HIDE DEF m
<1>7. pushed[6 - m] \in Words /\ Fields[pushed[6 - m] + 1] = r
  BY <1>1, <1>2, <1>6, WordNumbers, FieldNames
<1>8. pushed[6 - m] = word[r]
  BY <1>3, <1>7, WordOf
<1>9. Len(pushed) + 1 - m = 6 - m
  BY <1>2, <1>6
<1>. QED  BY <1>4, <1>8, <1>9, Zenon DEF m

(* Each register is left with its own word of the context switched to.      *)
LEMMA Restored ==
  ASSUME NEW STATE nx, NEW STATE cx, NEW r \in Registers
  PROVE  switch_context(nx, cx).cpu[r] = nx[word[r]]
<1>. DEFINE place == {i \in 1 .. Len(iretq) : iretq[i] = r}
<1>1. switch_context(nx, cx).cpu[r]
        = IF place = {} THEN execution(nx)[Len(program) + 1][r]
          ELSE nx[pushed[Len(pushed) + 1 - Max(place)]]
  BY Zenon DEF switch_context
<1>2. CASE r \in {"rip", "cs", "rflags", "rsp", "ss"}
  BY <1>1, <1>2, Popped, Zenon
<1>3. CASE r \notin {"rip", "cs", "rflags", "rsp", "ss"}
  <2>1. place = {}
    BY <1>3 DEF iretq
  <2>2. RestoresField(r, nx)
    BY <1>3, EveryLoad, Zenon
  <2>3. execution(nx)[54][r] = nx[word[r]]
    BY <2>2, WordOf, Zenon DEF RestoresField
  <2>. QED  BY <1>1, <2>1, <2>3, Program
<1>. QED  BY <1>2, <1>3, Zenon

LEMMA ResultShape ==
  ASSUME NEW STATE nx, NEW STATE cx
  PROVE  /\ switch_context(nx, cx).ctx = [w \in Words |-> switch_context(nx, cx).ctx[w]]
         /\ switch_context(nx, cx).cpu = [r \in Registers |-> switch_context(nx, cx).cpu[r]]
BY Zenon DEF switch_context

-----------------------------------------------------------------------------
(* The ring of the deque.                                                   *)
LEMMA Sizes ==
  /\ Cap \in Nat /\ n \in Nat /\ n >= 2 /\ n <= Cap
  /\ Tasks \in Seq(Range(Tasks)) /\ n = Len(Tasks)
BY TasksAssumption DEF n

LEMMA Wrap ==
  ASSUME NEW h \in 0 .. Cap - 1, NEW i \in 0 .. Cap
  PROVE  (h + i) % Cap = IF h + i < Cap THEN h + i ELSE h + i - Cap
BY Sizes

LEMMA Turn ==
  ASSUME NEW h \in 0 .. Cap - 1, NEW i \in 1 .. n
  PROVE  /\ (h + i) % Cap \in 0 .. Cap - 1
         /\ (((h + 1) % Cap) + (i - 1)) % Cap = (h + i) % Cap
<1>. DEFINE g == (h + 1) % Cap
<1>1. g = IF h + 1 < Cap THEN h + 1 ELSE h + 1 - Cap
  BY Sizes, Wrap
<1>. HIDE DEF g
<1>2. g \in 0 .. Cap - 1 /\ i - 1 \in 0 .. Cap /\ i \in 0 .. Cap
  BY <1>1, Sizes
<1>3. (g + (i - 1)) % Cap = IF g + (i - 1) < Cap THEN g + (i - 1) ELSE g + (i - 1) - Cap
  BY <1>2, Wrap, Zenon
<1>4. (h + i) % Cap = IF h + i < Cap THEN h + i ELSE h + i - Cap
  BY <1>2, Wrap, Zenon
<1>5. (h + i) % Cap \in 0 .. Cap - 1
  BY <1>2, <1>4, Sizes
<1>6. (g + (i - 1)) % Cap = (h + i) % Cap
  BY <1>1, <1>2, <1>3, <1>4, Sizes
<1>. QED  BY <1>5, <1>6, Zenon DEF g

LEMMA Apart ==
  ASSUME NEW h \in 0 .. Cap - 1, NEW i \in 1 .. n - 1
  PROVE  (h + i) % Cap # (h + n) % Cap
<1>1. i \in 0 .. Cap /\ n \in 0 .. Cap
  BY Sizes
<1>2. (h + i) % Cap = IF h + i < Cap THEN h + i ELSE h + i - Cap
  BY <1>1, Wrap, Zenon
<1>3. (h + n) % Cap = IF h + n < Cap THEN h + n ELSE h + n - Cap
  BY <1>1, Wrap, Zenon
<1>. QED  BY <1>1, <1>2, <1>3, Sizes

LEMMA Rotate ==
  ASSUME NEW S, NEW o \in Seq(S), Len(o) >= 1
  PROVE  /\ Append(Tail(o), Head(o)) \in Seq(S)
         /\ Len(Append(Tail(o), Head(o))) = Len(o)
         /\ \A i \in 1 .. Len(o) :
              Append(Tail(o), Head(o))[i] = IF i < Len(o) THEN o[i + 1] ELSE o[1]
OBVIOUS

-----------------------------------------------------------------------------
(* The inductive invariant: the tasks are in the deque once each, and the   *)
(* context of every task but the running one holds a value in every         *)
(* register's word.                                                         *)
Shown(i) == IF i = 1 THEN cpu ELSE [r \in Registers |-> slots[slot(i - 1)][word[r]]]

TaskInv ==
  /\ TypeOK
  /\ order \in Seq(Range(Tasks))
  /\ \A i, j \in 1 .. n : order[i] = order[j] => i = j
  /\ \A t \in Range(Tasks) : \E i \in 1 .. n : order[i] = t
  /\ \A i \in 1 .. n - 1 : \A r \in Registers : slots[slot(i)][word[r]] \in Value

\* Each task sees the registers of its place in the deque.
SeenInPlace == \A i \in 1 .. n : SeenBy(order[i]) = Shown(i)

LEMMA Places == TaskInv => SeenInPlace
<1>. SUFFICES ASSUME TaskInv, NEW i \in 1 .. n PROVE SeenBy(order[i]) = Shown(i)
  BY Zenon DEF SeenInPlace
<1>. DEFINE k == CHOOSE k \in 1 .. n : order[k] = order[i]
<1>1. k \in 1 .. n /\ order[k] = order[i]
  BY Zenon
<1>. HIDE DEF k
<1>2. k = i
  BY <1>1, Zenon DEF TaskInv
<1>. QED  BY <1>2, Zenon DEF k, SeenBy, Shown

LEMMA InvInit == Init => TaskInv
<1>. SUFFICES ASSUME Init PROVE TaskInv
  BY Zenon
<1>1. ASSUME NEW i \in 1 .. n PROVE Tasks[i] \in Range(Tasks)
  BY Sizes
<1>2. ASSUME NEW t \in Range(Tasks) PROVE start(t) \in [Words -> Value \union {Zero}]
  <2>1. ASSUME NEW w \in Words, Fields[w + 1] # "rsvd1"
        PROVE  <<t, Fields[w + 1], 0>> \in Value
    <3>1. Fields[w + 1] \in Registers
      BY <2>1, WordNumbers, FieldNames DEF Registers
    <3>. QED  BY <3>1, Zenon DEF Value
  <2>. QED  BY <2>1, Zenon DEF start
<1>3. TypeOK
  <2>1. new \in [Words -> Value \union {Zero}]
    BY Zenon DEF new
  <2>2. slots \in [0 .. Cap - 1 -> [Words -> Value \union {Zero}]]
    <3>1. ASSUME NEW s \in 1 .. n - 1 PROVE start(Tasks[s + 1]) \in [Words -> Value \union {Zero}]
      BY <1>1, <1>2, Sizes
    <3>. QED  BY <2>1, <3>1, Zenon DEF Init
  <2>3. cpu \in [Registers -> Value]
    BY <1>1, Sizes DEF Init, Value
  <2>4. head \in 0 .. Cap - 1 /\ Len(order) = n
    BY Sizes DEF Init
  <2>. QED  BY <2>2, <2>3, <2>4, Zenon DEF TypeOK
<1>4. order \in Seq(Range(Tasks)) /\ order = Tasks
  BY Sizes, Zenon DEF Init
<1>5. ASSUME NEW i \in 1 .. n, NEW j \in 1 .. n, order[i] = order[j] PROVE i = j
  BY <1>4, <1>5, Sizes, TasksAssumption DEF IsInjective
<1>6. ASSUME NEW t \in Range(Tasks) PROVE \E i \in 1 .. n : order[i] = t
  BY <1>4, Sizes DEF Range
<1>7. ASSUME NEW i \in 1 .. n - 1, NEW r \in Registers
      PROVE  slots[slot(i)][word[r]] \in Value
  <2>1. slot(i) = i /\ i \in 0 .. Cap - 1
    <3>1. 0 \in 0 .. Cap - 1 /\ i \in 0 .. Cap /\ i < Cap
      BY Sizes
    <3>2. (0 + i) % Cap = IF 0 + i < Cap THEN 0 + i ELSE 0 + i - Cap
      BY <3>1, Wrap, Zenon
    <3>3. slot(i) = (0 + i) % Cap
      BY Zenon DEF slot, Init
    <3>4. i \in Int
      OBVIOUS
    <3>5. slot(i) = 0 + i
      BY <3>1, <3>2, <3>3, <3>4
    <3>. QED  BY <3>1, <3>4, <3>5, Sizes
  <2>2. slots[slot(i)] = start(Tasks[i + 1])
    BY <2>1, Zenon DEF Init
  <2>3. word[r] \in Words /\ Fields[word[r] + 1] = r /\ r # "rsvd1"
    BY WordOf, Zenon DEF Registers
  <2>4. slots[slot(i)][word[r]] = <<Tasks[i + 1], r, 0>>
    BY <2>2, <2>3, Zenon DEF start
  <2>. QED  BY <1>1, <2>4, Sizes DEF Value
<1>. QED  BY <1>3, <1>4, <1>5, <1>6, <1>7, Zenon DEF TaskInv

(* What a switch does: the new front's context goes into the registers, and *)
(* the registers into the slot behind the last context.                     *)
LEMMA SwitchEffect ==
  ASSUME TaskInv, switch_tasks
  PROVE  /\ slots' \in [0 .. Cap - 1 -> [Words -> Value \union {Zero}]]
         /\ \A i \in 1 .. n - 1 : slots'[slot(i)] = slots[slot(i)]
         /\ \A r \in Registers : slots'[slot(n)][word[r]] = cpu[r]
         /\ cpu' = [r \in Registers |-> slots[slot(1)][word[r]]]
         /\ head' = slot(1)
         /\ order' = Append(Tail(order), Head(order))
<1>. DEFINE moved == [slots EXCEPT ![last] = slots[head]]
            nx == moved[slot(1)]
            m == switch_context(nx, moved[last])
            V == Value \union {Zero}
<1>1. slots' = [moved EXCEPT ![last] = m.ctx] /\ cpu' = m.cpu
  BY Zenon DEF switch_tasks
<1>2. /\ slots \in [0 .. Cap - 1 -> [Words -> V]] /\ head \in 0 .. Cap - 1
      /\ cpu \in [Registers -> Value]
  BY Zenon DEF TaskInv, TypeOK
<1>. HIDE DEF V
<1>3. /\ \A i \in 1 .. n : slot(i) \in 0 .. Cap - 1
      /\ \A i \in 1 .. n - 1 : slot(i) # last
      /\ last = slot(n) /\ 1 \in 1 .. n - 1 /\ n \in 1 .. n
  <2>1. ASSUME NEW i \in 1 .. n PROVE slot(i) \in 0 .. Cap - 1
    BY <1>2, Turn, Zenon DEF slot
  <2>2. ASSUME NEW i \in 1 .. n - 1 PROVE slot(i) # last
    BY <1>2, Apart, Zenon DEF slot, last
  <2>. QED  BY <2>1, <2>2, Sizes DEF last
<1>4. nx = slots[slot(1)] /\ moved[last] \in [Words -> V] /\ moved \in [0 .. Cap - 1 -> [Words -> V]]
  BY <1>2, <1>3, Sizes
<1>5. \A w \in Words : m.ctx[w] = IF w = 3 THEN moved[last][w] ELSE cpu[Fields[w + 1]]
  BY Saved
<1>6. \A r \in Registers : m.cpu[r] = nx[word[r]]
  BY Restored, Zenon
<1>7. m.ctx = [w \in Words |-> m.ctx[w]] /\ m.cpu = [r \in Registers |-> m.cpu[r]]
  BY ResultShape
<1>. HIDE DEF m
<1>8. m.ctx \in [Words -> V]
  <2>1. ASSUME NEW w \in Words PROVE m.ctx[w] \in V
    <3>1. CASE w = 3
      BY <1>4, <1>5, <3>1, Zenon
    <3>2. CASE w # 3
      <4>1. w + 1 \in 1 .. 25 /\ w + 1 # 4
        BY <3>2, WordNumbers
      <4>2. cpu[Fields[w + 1]] \in Value
        BY <1>2, <4>1, RegisterNames, Zenon
      <4>. QED  BY <1>5, <3>2, <4>2, Zenon DEF V
    <3>. QED  BY <3>1, <3>2, Zenon
  <2>. QED  BY <1>7, <2>1, Zenon
<1>9. ASSUME NEW r \in Registers PROVE m.ctx[word[r]] = cpu[r]
  BY <1>5, WordOf
<1>10. slots' \in [0 .. Cap - 1 -> [Words -> Value \union {Zero}]]
  BY <1>1, <1>3, <1>4, <1>8, Zenon DEF V
<1>11. \A i \in 1 .. n - 1 : slots'[slot(i)] = slots[slot(i)]
  BY <1>1, <1>2, <1>3, Sizes
<1>12. slots'[slot(n)] = m.ctx
  BY <1>1, <1>2, <1>3, Zenon
<1>13. cpu' = [r \in Registers |-> slots[slot(1)][word[r]]]
  BY <1>1, <1>4, <1>6, <1>7, Zenon
<1>. QED  BY <1>9, <1>10, <1>11, <1>12, <1>13, Zenon DEF switch_tasks

\* The place of the task that is i-th after a switch, before it.
Before(i) == IF i < n THEN i + 1 ELSE 1

LEMMA NewOrder ==
  ASSUME TaskInv, switch_tasks
  PROVE  /\ order' \in Seq(Range(Tasks)) /\ Len(order') = n
         /\ \A i \in 1 .. n : order'[i] = order[Before(i)]
<1>1. order \in Seq(Range(Tasks)) /\ Len(order) = n /\ Len(order) >= 1
  BY Sizes DEF TaskInv, TypeOK
<1>2. order' = Append(Tail(order), Head(order))
  BY Zenon DEF switch_tasks
<1>. QED  BY <1>1, <1>2, Rotate, Zenon DEF Before

LEMMA NewSlots ==
  ASSUME TaskInv, switch_tasks, NEW i \in 1 .. n
  PROVE  slot(i - 1)' = slot(i)
<1>1. head \in 0 .. Cap - 1 /\ head' = slot(1)
  BY Zenon DEF TaskInv, TypeOK, switch_tasks
<1>. QED  BY <1>1, Turn, Zenon DEF slot

LEMMA SwitchKeeps ==
  ASSUME TaskInv, switch_tasks
  PROVE  TaskInv'
<1>1. \A i \in 1 .. n : Before(i) \in 1 .. n /\ (i < n => Before(i) = i + 1) /\ (i = n => Before(i) = 1)
  BY Sizes DEF Before
<1>2. \A i, j \in 1 .. n : Before(i) = Before(j) => i = j
  BY Sizes DEF Before
<1>3. TypeOK'
  <2>1. cpu' \in [Registers -> Value]
    <3>1. 1 \in 1 .. n - 1
      BY Sizes
    <3>. QED  BY <3>1, SwitchEffect DEF TaskInv
  <2>2. head' \in 0 .. Cap - 1
    <3>1. 1 \in 1 .. n /\ head \in 0 .. Cap - 1
      BY Sizes DEF TaskInv, TypeOK
    <3>2. head' = (head + 1) % Cap
      BY SwitchEffect, Zenon DEF slot
    <3>. QED  BY <3>1, <3>2, Turn, Zenon
  <2>. QED  BY <2>1, <2>2, SwitchEffect, NewOrder, Zenon DEF TypeOK
<1>4. ASSUME NEW i \in 1 .. n, NEW j \in 1 .. n, order'[i] = order'[j] PROVE i = j
  <2>1. order[Before(i)] = order[Before(j)]
    BY <1>4, NewOrder, Zenon
  <2>2. Before(i) = Before(j)
    BY <1>1, <2>1, Zenon DEF TaskInv
  <2>. QED  BY <1>2, <2>2, Zenon
<1>5. ASSUME NEW t \in Range(Tasks) PROVE \E i \in 1 .. n : order'[i] = t
  <2>1. PICK j \in 1 .. n : order[j] = t
    BY Zenon DEF TaskInv
  <2>2. PICK i \in 1 .. n : Before(i) = j
    <3>1. CASE j = 1
      BY <1>1, <3>1, Sizes
    <3>2. CASE j # 1
      <4>1. j - 1 \in 1 .. n /\ j - 1 < n /\ (j - 1) + 1 = j
        BY <3>2, Sizes
      <4>. QED  BY <1>1, <4>1, Zenon
    <3>. QED  BY <3>1, <3>2, Zenon
  <2>. QED  BY <2>1, <2>2, NewOrder, Zenon
<1>6. ASSUME NEW i \in 1 .. n - 1, NEW r \in Registers
      PROVE  (slots[slot(i)][word[r]] \in Value)'
  <2>1. i + 1 \in 1 .. n /\ (i + 1) - 1 = i
    BY Sizes
  <2>2. slot(i)' = slot(i + 1)
    BY <2>1, NewSlots, Zenon
  <2>3. CASE i + 1 = n
    <3>1. slots'[slot(n)][word[r]] = cpu[r] /\ cpu[r] \in Value
      BY SwitchEffect, Zenon DEF TaskInv, TypeOK
    <3>. QED  BY <2>2, <2>3, <3>1, Zenon
  <2>4. CASE i + 1 # n
    <3>1. i + 1 \in 1 .. n - 1
      BY <2>1, <2>4, Sizes
    <3>2. slots'[slot(i + 1)] = slots[slot(i + 1)] /\ slots[slot(i + 1)][word[r]] \in Value
      BY <3>1, SwitchEffect, Zenon DEF TaskInv
    <3>. QED  BY <2>2, <3>2, Zenon
  <2>. QED  BY <2>3, <2>4, Zenon
<1>. QED  BY <1>3, <1>4, <1>5, <1>6, NewOrder, Zenon DEF TaskInv

LEMMA RunningTask == TaskInv => 1 \in 1 .. n /\ order[1] \in Range(Tasks)
<1>. SUFFICES ASSUME TaskInv PROVE 1 \in 1 .. n /\ order[1] \in Range(Tasks)
  BY Zenon
<1>1. order \in Seq(Range(Tasks)) /\ Len(order) = n /\ 1 \in 1 .. n
  BY Sizes DEF TaskInv, TypeOK
<1>. QED  BY <1>1

LEMMA ExecuteKeeps ==
  ASSUME TaskInv, NEW r \in Mutable, Execute(r)
  PROVE  TaskInv'
<1>1. r \in Registers /\ cpu \in [Registers -> Value]
  BY MutableAssumption, Zenon DEF TaskInv, TypeOK
<1>2. order[1] \in Range(Tasks)
  BY RunningTask, Zenon
<1>3. <<order[1], r, 1 - cpu[r][3]>> \in Value
  BY <1>1, <1>2 DEF Value
<1>4. cpu' \in [Registers -> Value]
  BY <1>1, <1>3, Zenon DEF Execute
<1>5. slots' = slots /\ head' = head /\ order' = order
  BY Zenon DEF Execute
<1>. QED  BY <1>4, <1>5, Zenon DEF TaskInv, TypeOK, slot

LEMMA InvNext == TaskInv /\ [Next]_vars => TaskInv'
<1>. SUFFICES ASSUME TaskInv, [Next]_vars PROVE TaskInv'
  BY Zenon
<1>1. CASE switch_tasks
  BY <1>1, SwitchKeeps, Zenon
<1>2. ASSUME NEW r \in Mutable, Execute(r) PROVE TaskInv'
  BY <1>2, ExecuteKeeps, Zenon
<1>3. CASE UNCHANGED vars
  BY <1>3, Zenon DEF vars, TaskInv, TypeOK, slot
<1>. QED  BY <1>1, <1>2, <1>3, Zenon DEF Next

LEMMA Invariant == Spec => []TaskInv
BY InvInit, InvNext, PTL DEF Spec

(* The contexts stay whole: whatever is preempted where, every slot of the  *)
(* deque holds a context, and every register a value some task wrote.       *)
THEOREM TypeCorrect == Spec => []TypeOK
<1>1. TaskInv => TypeOK
  BY Zenon DEF TaskInv
<1>. QED  BY <1>1, Invariant, PTL

-----------------------------------------------------------------------------
(* Preemption is invisible.                                                 *)
LEMMA SwitchHidden ==
  ASSUME TaskInv, TaskInv', SeenInPlace, SeenInPlace', switch_tasks, NEW t \in Range(Tasks)
  PROVE  SeenBy(t)' = SeenBy(t)
<1>1. PICK i \in 1 .. n : order[i] = t
  BY Zenon DEF TaskInv
<1>2. SeenBy(t) = Shown(i)
  BY <1>1, Zenon DEF SeenInPlace
<1>3. \A j \in 1 .. n : order'[j] = t => SeenBy(t)' = Shown(j)'
  BY Zenon DEF SeenInPlace
<1>4. CASE i = 1
  <2>1. n \in 1 .. n /\ n # 1 /\ order'[n] = t
    BY <1>1, <1>4, NewOrder, Sizes DEF Before
  <2>2. SeenBy(t)' = Shown(n)'
    BY <1>3, <2>1, Zenon
  <2>3. slot(n - 1)' = slot(n)
    BY <2>1, NewSlots, Zenon
  <2>4. Shown(n)' = [r \in Registers |-> slots'[slot(n)][word[r]]]
    BY <2>1, <2>3, Zenon DEF Shown
  <2>5. cpu = [r \in Registers |-> cpu[r]]
    BY Zenon DEF TaskInv, TypeOK
  <2>. QED  BY <1>2, <1>4, <2>2, <2>4, <2>5, SwitchEffect, Zenon DEF Shown
<1>5. CASE i = 2
  <2>1. 1 \in 1 .. n /\ order'[1] = t
    BY <1>1, <1>5, NewOrder, Sizes DEF Before
  <2>2. SeenBy(t)' = cpu'
    BY <1>3, <2>1, Zenon DEF Shown
  <2>3. Shown(2) = [r \in Registers |-> slots[slot(1)][word[r]]]
    BY DEF Shown
  <2>. QED  BY <1>2, <1>5, <2>2, <2>3, SwitchEffect, Zenon
<1>6. CASE i \in 3 .. n
  <2>1. i - 1 \in 1 .. n - 1 /\ i - 1 \in 1 .. n /\ i - 1 # 1 /\ (i - 1) + 1 = i
    BY <1>6, Sizes
  <2>2. order'[i - 1] = t
    BY <1>1, <2>1, NewOrder, Sizes DEF Before
  <2>3. SeenBy(t)' = Shown(i - 1)'
    BY <1>3, <2>1, <2>2, Zenon
  <2>4. slot((i - 1) - 1)' = slot(i - 1)
    BY <2>1, NewSlots, Zenon
  <2>5. Shown(i - 1)' = [r \in Registers |-> slots'[slot(i - 1)][word[r]]]
    BY <2>1, <2>4, Zenon DEF Shown
  <2>6. slots'[slot(i - 1)] = slots[slot(i - 1)]
    BY <2>1, SwitchEffect, Zenon
  <2>. QED  BY <1>2, <1>6, <2>3, <2>5, <2>6 DEF Shown
<1>. QED  BY <1>4, <1>5, <1>6, Sizes

LEMMA StepRefines ==
  TaskInv /\ TaskInv' /\ SeenInPlace /\ SeenInPlace' /\ [Next]_vars
    => [Virtual!Next]_(Virtual!vars)
<1>. SUFFICES ASSUME TaskInv, TaskInv', SeenInPlace, SeenInPlace', [Next]_vars
              PROVE  [Virtual!Next]_(Virtual!vars)
  BY Zenon
<1>. DEFINE regs == [t \in Range(Tasks) |-> SeenBy(t)]
<1>1. CASE switch_tasks
  <2>1. \A t \in Range(Tasks) : SeenBy(t)' = SeenBy(t)
    BY <1>1, SwitchHidden, Zenon
  <2>2. regs' = regs
    BY <2>1, Zenon
  <2>3. order' = Append(Tail(order), Head(order))
    BY <1>1, Zenon DEF switch_tasks
  <2>. QED  BY <2>2, <2>3, Zenon DEF Virtual!Next, Virtual!Switch
<1>2. ASSUME NEW r \in Mutable, Execute(r) PROVE Virtual!Execute
  <2>1. order' = order /\ slots' = slots /\ head' = head
    BY <1>2, Zenon DEF Execute
  <2>2. DOMAIN regs' = DOMAIN regs
    BY Zenon
  <2>3. 1 \in 1 .. n /\ order[1] \in Range(Tasks)
    BY RunningTask, Zenon
  <2>4. regs'[order[1]] \in [Registers -> Value]
    <3>1. SeenBy(order[1])' = cpu'
      BY <2>1, <2>3, Zenon DEF SeenInPlace, Shown
    <3>. QED  BY <2>1, <2>3, <3>1, Zenon DEF TaskInv, TypeOK
  <2>5. ASSUME NEW t \in Range(Tasks) \ {order[1]} PROVE SeenBy(t)' = SeenBy(t)
    <3>1. PICK i \in 1 .. n : order[i] = t
      BY Zenon DEF TaskInv
    <3>2. i # 1
      BY <3>1, Zenon
    <3>3. SeenBy(t) = Shown(i) /\ SeenBy(t)' = Shown(i)'
      BY <2>1, <3>1, Zenon DEF SeenInPlace
    <3>. QED  BY <2>1, <3>2, <3>3, Zenon DEF Shown, slot
  <2>. QED  BY <2>1, <2>2, <2>3, <2>4, <2>5, Zenon DEF Virtual!Execute
<1>3. CASE UNCHANGED vars
  BY <1>3 DEF vars, Virtual!vars, SeenBy, slot
<1>. QED  BY <1>1, <1>2, <1>3, Zenon DEF Next, Virtual!Next

LEMMA InitRefines == Init /\ TaskInv /\ SeenInPlace => Virtual!Init
<1>. SUFFICES ASSUME Init, TaskInv, SeenInPlace PROVE Virtual!Init
  BY Zenon
<1>1. order = Tasks
  BY Zenon DEF Init
<1>2. ASSUME NEW i \in 1 .. Len(Tasks) PROVE SeenBy(Tasks[i]) \in [Registers -> Value]
  <2>1. i \in 1 .. n /\ SeenBy(Tasks[i]) = Shown(i)
    BY <1>1, Sizes, Zenon DEF SeenInPlace
  <2>2. CASE i = 1
    BY <2>1, <2>2, Zenon DEF Shown, TaskInv, TypeOK
  <2>3. CASE i # 1
    <3>1. i - 1 \in 1 .. n - 1
      BY <2>1, <2>3, Sizes
    <3>. QED  BY <2>1, <2>3, <3>1 DEF Shown, TaskInv
  <2>. QED  BY <2>2, <2>3, Zenon
<1>3. \A i \in 1 .. Len(Tasks) : Tasks[i] \in Range(Tasks)
  BY Sizes
<1>. QED  BY <1>1, <1>2, <1>3, Zenon DEF Virtual!Init

(* Preemption is invisible for any number of tasks and any capacity of the  *)
(* deque: switch_tasks, with the assembly of switch_context, implements     *)
(* tasks that each have registers of their own and run in turn.             *)
THEOREM PreemptionInvisible == Spec => ImplementsTasks
<1>1. Spec => [](TaskInv /\ SeenInPlace)
  BY Invariant, Places, PTL
<1>2. Init /\ TaskInv /\ SeenInPlace => Virtual!Init
  BY InitRefines, Zenon
<1>3. TaskInv /\ TaskInv' /\ SeenInPlace /\ SeenInPlace' /\ [Next]_vars => [Virtual!Next]_(Virtual!vars)
  BY StepRefines, Zenon
<1>. QED  BY <1>1, <1>2, <1>3, PTL DEF Spec, ImplementsTasks, Virtual!Spec
=============================================================================
