--------------------------- MODULE EncodingProofs ---------------------------
(***************************************************************************)
(* Proofs that a processor reads from the code of the primitives what was  *)
(* meant, for any registers of the JIT, any displacements and immediates   *)
(* of four bytes, and any number of primitives in a row.                   *)
(***************************************************************************)
EXTENDS Encoding, NaturalFacts, SequenceTheorems, TLAPS

ByteValue == 0 .. 255

-----------------------------------------------------------------------------
(* Numbers and their bytes                                                 *)

LEMMA Powers ==
    /\ 256^0 = 1 /\ 256^1 = 256 /\ 256^2 = 65536 /\ 256^3 = 16777216
    /\ 2^0 = 1 /\ 2^1 = 2 /\ 2^2 = 4
    /\ 2^WordBits = 16777216
  BY SMT DEF WordBits

LEMMA FirstByte ==
    ASSUME NEW n \in Int
    PROVE  Byte(n, 0) = n % 256
<1>1. n \div 1 = n
  OBVIOUS
<1> QED
  BY <1>1, Powers DEF Byte

LEMMA SecondByte ==
    ASSUME NEW n \in Int
    PROVE  Byte(n, 1) = (n \div 256) % 256
  BY Powers DEF Byte

LEMMA ThirdByte ==
    ASSUME NEW n \in Int
    PROVE  Byte(n, 2) = (n \div 65536) % 256
  BY Powers, SMT DEF Byte

LEMMA FourthByte ==
    ASSUME NEW n \in Int
    PROVE  Byte(n, 3) = (n \div 16777216) % 256
  BY Powers, SMT DEF Byte

LEMMA ByteTypes ==
    ASSUME NEW n \in Int
    PROVE  /\ Byte(n, 0) \in ByteValue /\ Byte(n, 1) \in ByteValue
           /\ Byte(n, 2) \in ByteValue /\ Byte(n, 3) \in ByteValue
<1>1. \A m \in Int : m % 256 \in ByteValue
  BY DEF ByteValue
<1>2. n \div 256 \in Int /\ n \div 65536 \in Int /\ n \div 16777216 \in Int
  BY SMT
<1>3. Byte(n, 0) \in ByteValue
  BY <1>1, FirstByte
<1>4. Byte(n, 1) \in ByteValue
  BY <1>1, <1>2, SecondByte
<1>5. Byte(n, 2) \in ByteValue
  BY <1>1, <1>2, ThirdByte, SMT
<1>6. Byte(n, 3) \in ByteValue
  BY <1>1, <1>2, FourthByte, SMT
<1> QED
  BY <1>3, <1>4, <1>5, <1>6

\* A number of one byte is read again with its sign.
LEMMA ByteIsRead ==
    ASSUME NEW n \in Int, is8Bit(n)
    PROVE  Signed(Byte(n, 0)) = n
<1>1. Byte(n, 0) = n % 256
  BY FirstByte
<1>2. n \in (-128) .. 127
  BY DEF is8Bit
<1> QED
  BY <1>1, <1>2 DEF Signed

LEMMA LowThreeBytes ==
    ASSUME NEW n \in Int
    PROVE  Byte(n, 0) + 256 * Byte(n, 1) + 65536 * Byte(n, 2) = n % 16777216
<1>1. PICK a \in 0 .. 255, p \in Int : a = n % 256 /\ p = n \div 256 /\ n = 256 * p + a
  BY SMT
<1>2. PICK b \in 0 .. 255, q \in Int : b = p % 256 /\ q = p \div 256 /\ p = 256 * q + b
  BY SMT
<1>3. PICK c \in 0 .. 255, r \in Int : c = q % 256 /\ r = q \div 256 /\ q = 256 * r + c
  BY SMT
<1>4. n \div 65536 = q
  BY <1>1, <1>2, SMT
<1>5. Byte(n, 0) = a
  BY <1>1, FirstByte
<1>6. Byte(n, 1) = b
  BY <1>1, <1>2, SecondByte
<1>7. Byte(n, 2) = c
  BY <1>3, <1>4, ThirdByte, SMT
<1>8. a + 256 * b + 65536 * c = n % 16777216
  <2>1. n = 16777216 * r + (a + 256 * b + 65536 * c)
    BY <1>1, <1>2, <1>3, SMT
  <2>2. PICK low \in Int : low = a + 256 * b + 65536 * c /\ 0 <= low /\ low < 16777216
    BY SMT
  <2>3. n % 16777216 = low
    BY <2>1, <2>2, SMT
  <2> QED
    BY <2>2, <2>3, SMT
<1> QED
  BY <1>5, <1>6, <1>7, <1>8, SMT

\* A number of four bytes is read again with its sign.
LEMMA LongIsRead ==
    ASSUME NEW n \in Int, isLong(n)
    PROVE  Byte(n, 0) + 256 * Byte(n, 1) + 65536 * Byte(n, 2)
              + 16777216 * Signed(Byte(n, 3)) = n
<1>1. -2147483648 <= n /\ n <= 2147483647
  BY SMT DEF isLong
<1>2. PICK high \in Int, low \in Int :
         /\ high = n \div 16777216 /\ low = n % 16777216
         /\ n = 16777216 * high + low
  BY SMT
<1>3. high \in (-128) .. 127
  BY <1>1, <1>2, SMT
<1>4. Signed(Byte(n, 3)) = high
  <2>1. Byte(n, 3) = high % 256
    BY <1>2, FourthByte, SMT
  <2> QED
    BY <1>3, <2>1 DEF Signed
<1>5. PICK rest : rest = Byte(n, 0) + 256 * Byte(n, 1) + 65536 * Byte(n, 2) /\ rest = low
  BY <1>2, LowThreeBytes, SMT
<1>6. rest + 16777216 * high = n
  BY <1>2, <1>5, SMT
<1> QED
  BY <1>4, <1>5, <1>6, SMT

\* A word is read again, cut to its width.
LEMMA WordIsRead ==
    ASSUME NEW n \in Int
    PROVE  Byte(n, 0) + 256 * Byte(n, 1) + 65536 * Byte(n, 2) = InWord(n)
  BY LowThreeBytes, Powers, SMT DEF InWord

\* The fields of a ModRM and of a SIB byte.
LEMMA FieldsAreRead ==
    ASSUME NEW mod \in 0 .. 3, NEW r \in Nat, NEW m \in Nat
    PROVE  LET byte == mod * 64 + (r % 8) * 8 + (m % 8) IN
           /\ byte \in ByteValue
           /\ byte \div 64 = mod /\ (byte \div 8) % 8 = r % 8 /\ byte % 8 = m % 8
<1>1. PICK a \in 0 .. 7, b \in 0 .. 7 : a = r % 8 /\ b = m % 8
  OBVIOUS
<1>2. LET byte == mod * 64 + a * 8 + b IN
      /\ byte \in ByteValue
      /\ byte \div 64 = mod /\ (byte \div 8) % 8 = a /\ byte % 8 = b
  BY DEF ByteValue
<1> QED
  BY <1>1, <1>2

\* The bits of a REX prefix that extend a register.
LEMMA RexIsRead ==
    ASSUME NEW r \in Registers, NEW m \in Registers
    PROVE  LET rex == 72 + (r \div 8) * 4 + m \div 8 IN
           /\ rex \in ByteValue /\ rex \div 16 = 4
           /\ (r % 8) + 8 * Bit(rex, 2) = r /\ Bit(rex, 1) = 0
           /\ (m % 8) + 8 * Bit(rex, 0) = m
<1>1. PICK a \in 0 .. 1, b \in 0 .. 1 : a = r \div 8 /\ b = m \div 8
  BY DEF Registers
<1>2. LET rex == 72 + a * 4 + b IN
      /\ rex \in ByteValue /\ rex \div 16 = 4
      /\ (rex \div 4) % 2 = a /\ (rex \div 2) % 2 = 0 /\ (rex \div 1) % 2 = b
  BY DEF ByteValue
<1>3. (r % 8) + 8 * (r \div 8) = r /\ (m % 8) + 8 * (m \div 8) = m
  BY DEF Registers
<1> QED
  BY <1>1, <1>2, <1>3, Powers DEF Bit

-----------------------------------------------------------------------------
(* Operands                                                                *)

Rex(r, m) == 72 + (r \div 8) * 4 + m \div 8

\* The bytes of s are those of c after the first p.
Holds(c, p, s) == \A j \in 1 .. Len(s) : c[p + j] = s[j]

LEMMA HoldsParts ==
    ASSUME NEW s \in Seq(Int), NEW t \in Seq(Int)
    PROVE  /\ s \o t \in Seq(Int) /\ Len(s \o t) = Len(s) + Len(t)
           /\ \A c : \A p \in Int :
                 Holds(c, p, s \o t) <=> Holds(c, p, s) /\ Holds(c, p + Len(s), t)
<1>1. /\ s \o t \in Seq(Int) /\ Len(s \o t) = Len(s) + Len(t)
      /\ \A i \in 1 .. Len(s) + Len(t) :
            (s \o t)[i] = IF i <= Len(s) THEN s[i] ELSE t[i - Len(s)]
  BY ConcatProperties
<1> SUFFICES ASSUME NEW c, NEW p \in Int
             PROVE  Holds(c, p, s \o t) <=> Holds(c, p, s) /\ Holds(c, p + Len(s), t)
  BY <1>1
<1>2. Len(s) \in Nat /\ Len(t) \in Nat
  OBVIOUS
<1> HIDE DEF Holds
<1>3. ASSUME Holds(c, p, s \o t) PROVE Holds(c, p, s)
  <2> SUFFICES ASSUME NEW j \in 1 .. Len(s) PROVE c[p + j] = s[j]
    BY DEF Holds
  <2> QED
    BY <1>1, <1>2, <1>3 DEF Holds
<1>4. ASSUME Holds(c, p, s \o t) PROVE Holds(c, p + Len(s), t)
  <2> SUFFICES ASSUME NEW j \in 1 .. Len(t) PROVE c[p + Len(s) + j] = t[j]
    BY DEF Holds
  <2>1. Len(s) + j \in 1 .. Len(s) + Len(t) /\ ~ (Len(s) + j <= Len(s)) /\ (Len(s) + j) - Len(s) = j
    BY <1>2
  <2>2. c[p + (Len(s) + j)] = t[j]
    BY <1>1, <1>4, <2>1 DEF Holds
  <2> QED
    BY <1>2, <2>2
<1>5. ASSUME Holds(c, p, s), Holds(c, p + Len(s), t) PROVE Holds(c, p, s \o t)
  <2> SUFFICES ASSUME NEW j \in 1 .. Len(s) + Len(t) PROVE c[p + j] = (s \o t)[j]
    BY <1>1 DEF Holds
  <2>1. CASE j <= Len(s)
    BY <1>1, <1>2, <1>5, <2>1 DEF Holds
  <2>2. CASE ~ (j <= Len(s))
    <3>1. j - Len(s) \in 1 .. Len(t) /\ p + Len(s) + (j - Len(s)) = p + j
      BY <1>2, <2>2
    <3> QED
      BY <1>1, <1>5, <2>2, <3>1 DEF Holds
  <2> QED
    BY <2>1, <2>2
<1> QED
  BY <1>3, <1>4, <1>5

LEMMA HoldsOne ==
    ASSUME NEW c, NEW p \in Int, NEW byte \in Int
    PROVE  /\ <<byte>> \in Seq(Int) /\ Len(<<byte>>) = 1
           /\ Holds(c, p, <<byte>>) <=> c[p + 1] = byte
  BY DEF Holds

LEMMA JoinTwo ==
    ASSUME NEW a \in Int, NEW b \in Int
    PROVE  <<a>> \o <<b>> = <<a, b>>
<1> DEFINE s == <<a>>  t == <<b>>  whole == <<a, b>>
<1>1. /\ s \in Seq(Int) /\ Len(s) = 1 /\ s[1] = a
      /\ t \in Seq(Int) /\ Len(t) = 1 /\ t[1] = b
      /\ whole \in Seq(Int) /\ Len(whole) = 2 /\ whole[1] = a /\ whole[2] = b
  OBVIOUS
<1> HIDE DEF s, t, whole
<1>2. /\ s \o t \in Seq(Int) /\ Len(s \o t) = Len(s) + Len(t)
      /\ \A i \in 1 .. Len(s) + Len(t) :
            (s \o t)[i] = IF i <= Len(s) THEN s[i] ELSE t[i - Len(s)]
  BY <1>1, ConcatProperties
<1>3. \A i \in 1 .. 2 : (s \o t)[i] = whole[i]
  BY <1>1, <1>2
<1>4. s \o t = whole
  BY <1>1, <1>2, <1>3, SeqEqual
<1> QED
  BY <1>4 DEF s, t, whole

LEMMA JoinThree ==
    ASSUME NEW a \in Int, NEW b \in Int, NEW c \in Int
    PROVE  <<a, b>> \o <<c>> = <<a, b, c>>
<1> DEFINE s == <<a, b>>  t == <<c>>  whole == <<a, b, c>>
<1>1. /\ s \in Seq(Int) /\ Len(s) = 2 /\ s[1] = a /\ s[2] = b
      /\ t \in Seq(Int) /\ Len(t) = 1 /\ t[1] = c
      /\ whole \in Seq(Int) /\ Len(whole) = 3
      /\ whole[1] = a /\ whole[2] = b /\ whole[3] = c
  OBVIOUS
<1> HIDE DEF s, t, whole
<1>2. /\ s \o t \in Seq(Int) /\ Len(s \o t) = Len(s) + Len(t)
      /\ \A i \in 1 .. Len(s) + Len(t) :
            (s \o t)[i] = IF i <= Len(s) THEN s[i] ELSE t[i - Len(s)]
  BY <1>1, ConcatProperties
<1>3. /\ Len(s \o t) = Len(whole)
      /\ \A i \in 1 .. Len(s \o t) : (s \o t)[i] = whole[i]
  <2>1. Len(s \o t) = 3
    BY <1>1, <1>2
  <2>2. \A i \in 1 .. 3 : (s \o t)[i] = whole[i]
    BY <1>1, <1>2
  <2> QED
    BY <1>1, <2>1, <2>2
<1>4. s \o t = whole
  BY <1>1, <1>2, <1>3, SeqEqual
<1> QED
  BY <1>4 DEF s, t, whole

LEMMA RexBytes ==
    ASSUME NEW r \in Registers, NEW m \in Registers
    PROVE  emitRex(r, NoX, m) = <<Rex(r, m)>> /\ Rex(r, m) \in Int
<1>1. (0 \div 8) * 2 = 0
  OBVIOUS
<1>2. r \div 8 \in Int /\ m \div 8 \in Int
  BY DEF Registers
<1> QED
  BY <1>1, <1>2, \h48 = 72 DEF emitRex, NoX, Rex

LEMMA RegisterBytes ==
    ASSUME NEW opcode \in Int, NEW r \in Registers, NEW m \in Registers
    PROVE  /\ OnRegister(opcode, r, m) = <<Rex(r, m), opcode, 192 + (r % 8) * 8 + (m % 8)>>
           /\ OnRegister(opcode, r, m) \in Seq(Int) /\ Len(OnRegister(opcode, r, m)) = 3
<1> DEFINE modrm == 192 + (r % 8) * 8 + (m % 8)
           rex == Rex(r, m)
<1>1. emitModRm(Register, r, m, NoIndex) = <<modrm>> \o <<>> /\ modrm \in Int
  BY DEF emitModRm, Register, Registers
<1>2. <<modrm>> \o <<>> = <<modrm>>
  OBVIOUS
<1>3. rex \in Int
  BY RexBytes
<1> HIDE DEF modrm, rex
<1>4. OnRegister(opcode, r, m) = <<rex>> \o <<opcode>> \o <<modrm>>
  BY <1>1, <1>2, RexBytes DEF OnRegister, rex
<1>5. OnRegister(opcode, r, m) = <<rex, opcode, modrm>>
  BY <1>1, <1>3, <1>4, JoinTwo, JoinThree
<1>6. <<rex, opcode, modrm>> \in Seq(Int) /\ Len(<<rex, opcode, modrm>>) = 3
  BY <1>1, <1>3
<1> QED
  BY <1>5, <1>6 DEF rex, modrm

\* What OperandsAt() finds, by its parts.
IsOperand(o, reg, direct, base, index, disp, end) ==
    /\ o.reg = reg /\ o.direct = direct /\ o.base = base
    /\ o.index = index /\ o.disp = disp /\ o.end = end

\* A ModRM byte that stands for a register.
LEMMA DirectOperand ==
    ASSUME NEW c, NEW at \in Nat, NEW r \in Registers, NEW m \in Registers,
           c[at] = 192 + (r % 8) * 8 + (m % 8)
    PROVE  IsOperand(OperandsAt(c, at, Rex(r, m)), r, TRUE, m, NoIndex, 0, at + 1)
<1>1. /\ c[at] \div 64 = 3 /\ (c[at] \div 8) % 8 = r % 8 /\ c[at] % 8 = m % 8
  <2>1. PICK byte : byte = c[at] /\ byte = 3 * 64 + (r % 8) * 8 + (m % 8)
    BY 3 * 64 = 192
  <2>2. r \in Nat /\ m \in Nat
    BY DEF Registers
  <2> QED
    BY <2>1, <2>2, FieldsAreRead
<1>2. (r % 8) + 8 * Bit(Rex(r, m), 2) = r /\ (m % 8) + 8 * Bit(Rex(r, m), 0) = m
  BY RexIsRead DEF Rex
<1> DEFINE o == OperandsAt(c, at, Rex(r, m))
<1>3. o.reg = ((c[at] \div 8) % 8) + 8 * Bit(Rex(r, m), 2)
  BY DEF OperandsAt
<1>4. o.base = (c[at] % 8) + 8 * Bit(Rex(r, m), 0)
  BY <1>1 DEF OperandsAt
<1>5. o.direct = TRUE /\ o.index = NoIndex
  BY <1>1 DEF OperandsAt
<1>6. o.disp = 0 /\ o.end = at + 1
  BY <1>1 DEF OperandsAt
<1> QED
  BY <1>1, <1>2, <1>3, <1>4, <1>5, <1>6 DEF IsOperand

LEMMA JITRegisterNumbers ==
    /\ JITRegisters = (0 .. 8) \ {3}
    /\ JITRegisters \subseteq Registers /\ tmpRegister \in Registers /\ r8 = 8
  BY DEF JITRegisters, Registers, regA0, regA1, regA2, regA3, regA4, regR0, regCFR, regSP,
         tmpRegister, rdi, rsi, rdx, rcx, rax, rbp, rsp, r8, r9

\* The ModRM byte of an address in memory, and its SIB byte if the address has
\* an index or its base is the stack pointer.
LEMMA ModRmBytes ==
    ASSUME NEW r \in Registers, NEW b \in JITRegisters, NEW x \in 0 .. 7, NEW mod \in 0 .. 2
    PROVE  LET sib == b = rsp \/ x # NoIndex IN
           /\ sib => emitModRm(mod, r, b, x) =
                       <<mod * 64 + (r % 8) * 8 + (4 % 8), 0 * 64 + (x % 8) * 8 + (b % 8)>>
           /\ ~ sib => emitModRm(mod, r, b, x) = <<mod * 64 + (r % 8) * 8 + (b % 8)>>
           /\ emitModRm(mod, r, b, x) \in Seq(Int)
           /\ Len(emitModRm(mod, r, b, x)) = IF sib THEN 2 ELSE 1
<1> DEFINE sib == b = rsp \/ x # NoIndex
           direct == mod * 64 + (r % 8) * 8 + (b % 8)
           modrm == mod * 64 + (r % 8) * 8 + (4 % 8)
           second == 0 * 64 + (x % 8) * 8 + (b % 8)
<1>1. direct \in Int /\ modrm \in Int /\ second \in Int
  BY JITRegisterNumbers DEF Registers
<1>2. sib => emitModRm(mod, r, b, x) = <<modrm>> \o <<second>>
  BY DEF emitModRm, emitSib, Register, rsp
<1>3. ~ sib => emitModRm(mod, r, b, x) = <<direct>> \o <<>>
  BY DEF emitModRm, Register
<1>4. <<direct>> \o <<>> = <<direct>>
  OBVIOUS
<1> HIDE DEF direct, modrm, second, sib
<1>5. sib => emitModRm(mod, r, b, x) = <<modrm, second>>
  BY <1>1, <1>2, JoinTwo
<1>6. /\ <<modrm, second>> \in Seq(Int) /\ Len(<<modrm, second>>) = 2
      /\ <<direct>> \in Seq(Int) /\ Len(<<direct>>) = 1
  BY <1>1
<1> QED
  BY <1>3, <1>4, <1>5, <1>6 DEF sib, direct, modrm, second

\* An address in memory, read from its bytes: a displacement of no bytes, one,
\* or four follows them.
LEMMA AddressOperand ==
    ASSUME NEW c, NEW at \in Nat, NEW r \in Registers, NEW b \in JITRegisters,
           NEW x \in 0 .. 7, NEW mod \in 0 .. 2, mod = 0 => b # rbp,
           Holds(c, at - 1, emitModRm(mod, r, b, x))
    PROVE  LET next == at + Len(emitModRm(mod, r, b, x)) IN
           /\ mod = 0 =>
                 IsOperand(OperandsAt(c, at, Rex(r, b)), r, FALSE, b, x, 0, next)
           /\ mod = 1 =>
                 IsOperand(OperandsAt(c, at, Rex(r, b)), r, FALSE, b, x, Signed(c[next]), next + 1)
           /\ mod = 2 =>
                 IsOperand(OperandsAt(c, at, Rex(r, b)), r, FALSE, b, x, LongAt(c, next), next + 4)
<1> DEFINE bytes == emitModRm(mod, r, b, x)
           rex == Rex(r, b)
           o == OperandsAt(c, at, rex)
<1>1. b \in Registers /\ (b % 8 = 4 <=> b = rsp) /\ (b % 8 = 5 <=> b = rbp)
  BY JITRegisterNumbers DEF Registers, rsp, rbp
<1>2. /\ (r % 8) + 8 * Bit(rex, 2) = r /\ Bit(rex, 1) = 0
      /\ (b % 8) + 8 * Bit(rex, 0) = b
  BY <1>1, RexIsRead DEF Rex
<1>3. x % 8 = x /\ 4 % 8 = 4 /\ r \in Nat /\ b \in Nat /\ x \in Nat
  BY <1>1 DEF Registers
<1>4. at - 1 \in Int /\ (at - 1) + 1 = at /\ (at - 1) + 2 = at + 1
  OBVIOUS
<1> HIDE DEF rex
<1>5. CASE b = rsp \/ x # NoIndex
  <2> DEFINE modrm == mod * 64 + (r % 8) * 8 + (4 % 8)
             second == 0 * 64 + (x % 8) * 8 + (b % 8)
  <2>1. bytes = <<modrm, second>> /\ Len(bytes) = 2
    BY <1>5, ModRmBytes
  <2>2. c[at] = modrm /\ c[at + 1] = second
    <3> HIDE DEF modrm, second
    <3> QED
      BY <1>4, <2>1 DEF Holds
  <2>3. modrm \div 64 = mod /\ (modrm \div 8) % 8 = r % 8 /\ modrm % 8 = 4
    <3>1. mod \in 0 .. 3 /\ 4 \in Nat
      OBVIOUS
    <3> QED
      BY <1>3, <3>1, FieldsAreRead
  <2>4. (second \div 8) % 8 = x /\ second % 8 = b % 8
    <3>1. 0 \in 0 .. 3
      OBVIOUS
    <3> QED
      BY <1>3, <3>1, FieldsAreRead
  <2>5. ~ (mod = 0 /\ b % 8 = 5) /\ mod # 3
    BY <1>1
  <2> HIDE DEF modrm, second, bytes
  <2>6. o.reg = ((c[at] \div 8) % 8) + 8 * Bit(rex, 2)
    BY DEF OperandsAt
  <2>7. o.base = (c[at + 1] % 8) + 8 * Bit(rex, 0)
    BY <2>2, <2>3, <2>4, <2>5 DEF OperandsAt
  <2>8. o.direct = FALSE /\ o.index = ((c[at + 1] \div 8) % 8) + 8 * Bit(rex, 1)
    BY <2>2, <2>3, <2>5 DEF OperandsAt
  <2>9. o.disp = IF mod = 1 THEN Signed(c[at + 2])
                 ELSE IF mod = 2 THEN LongAt(c, at + 2) ELSE 0
    BY <2>2, <2>3, <2>4, <2>5 DEF OperandsAt
  <2>10. o.end = IF mod = 1 THEN at + 2 + 1 ELSE IF mod = 2 THEN at + 2 + 4 ELSE at + 2
    BY <2>2, <2>3, <2>4, <2>5 DEF OperandsAt
  <2>11. o.index = x
    BY <1>2, <1>3, <2>2, <2>4, <2>8
  <2>12. o.reg = r /\ o.base = b
    BY <1>2, <2>2, <2>3, <2>4, <2>6, <2>7
  <2> HIDE DEF o
  <2> QED
    BY <2>1, <2>8, <2>9, <2>10, <2>11, <2>12 DEF IsOperand, bytes, rex, o
<1>6. CASE ~ (b = rsp \/ x # NoIndex)
  <2> DEFINE modrm == mod * 64 + (r % 8) * 8 + (b % 8)
  <2>1. bytes = <<modrm>> /\ Len(bytes) = 1
    BY <1>6, ModRmBytes
  <2>2. c[at] = modrm
    <3> HIDE DEF modrm
    <3> QED
      BY <1>4, <2>1 DEF Holds
  <2>3. modrm \div 64 = mod /\ (modrm \div 8) % 8 = r % 8 /\ modrm % 8 = b % 8
    <3>1. mod \in 0 .. 3
      OBVIOUS
    <3> QED
      BY <1>3, <3>1, FieldsAreRead
  <2>4. b % 8 # 4 /\ ~ (mod = 0 /\ b % 8 = 5) /\ mod # 3 /\ x = NoIndex
    BY <1>1, <1>6
  <2> HIDE DEF modrm, bytes
  <2>6. o.reg = ((c[at] \div 8) % 8) + 8 * Bit(rex, 2)
    BY DEF OperandsAt
  <2>7. o.base = (c[at] % 8) + 8 * Bit(rex, 0)
    BY <2>2, <2>3, <2>4 DEF OperandsAt
  <2>8. o.direct = FALSE /\ o.index = NoIndex
    BY <2>2, <2>3, <2>4 DEF OperandsAt
  <2>9. o.disp = IF mod = 1 THEN Signed(c[at + 1])
                 ELSE IF mod = 2 THEN LongAt(c, at + 1) ELSE 0
    BY <2>2, <2>3, <2>4 DEF OperandsAt
  <2>10. o.end = IF mod = 1 THEN at + 1 + 1 ELSE IF mod = 2 THEN at + 1 + 4 ELSE at + 1
    BY <2>2, <2>3, <2>4 DEF OperandsAt
  <2>11. o.reg = r /\ o.base = b
    BY <1>2, <2>2, <2>3, <2>6, <2>7
  <2> HIDE DEF o
  <2> QED
    BY <2>1, <2>4, <2>8, <2>9, <2>10, <2>11 DEF IsOperand, bytes, rex, o
<1> QED
  BY <1>5, <1>6

-----------------------------------------------------------------------------
(* Displacements and immediates                                            *)

LEMMA LongBytes ==
    ASSUME NEW n \in Int
    PROVE  emitLong(n) \in Seq(Int) /\ Len(emitLong(n)) = 4
<1>1. ASSUME NEW k \in 1 .. 4 PROVE Byte(n, k - 1) \in Int
  <2>1. k - 1 \in {0, 1, 2, 3}
    OBVIOUS
  <2> QED
    BY <2>1, ByteTypes DEF ByteValue
<1> QED
  BY <1>1 DEF emitLong

LEMMA LongRead ==
    ASSUME NEW c, NEW at \in Nat, NEW n \in Int, isLong(n), Holds(c, at - 1, emitLong(n))
    PROVE  LongAt(c, at) = n
<1>1. /\ at - 1 + 1 = at /\ at - 1 + 2 = at + 1 /\ at - 1 + 3 = at + 2
      /\ at - 1 + 4 = at + 3
  OBVIOUS
<1>2. \A j \in 1 .. 4 : c[at - 1 + j] = Byte(n, j - 1)
  BY LongBytes DEF Holds, emitLong
<1>3. /\ c[at - 1 + 1] = Byte(n, 0) /\ c[at - 1 + 2] = Byte(n, 1)
      /\ c[at - 1 + 3] = Byte(n, 2) /\ c[at - 1 + 4] = Byte(n, 3)
  <2>1. 1 - 1 = 0 /\ 2 - 1 = 1 /\ 3 - 1 = 2 /\ 4 - 1 = 3
    OBVIOUS
  <2>2. 1 \in 1 .. 4 /\ 2 \in 1 .. 4 /\ 3 \in 1 .. 4 /\ 4 \in 1 .. 4
    OBVIOUS
  <2> QED
    BY <1>2, <2>1, <2>2
<1>4. /\ c[at] = Byte(n, 0) /\ c[at + 1] = Byte(n, 1)
      /\ c[at + 2] = Byte(n, 2) /\ c[at + 3] = Byte(n, 3)
  BY <1>1, <1>3
<1> QED
  BY <1>4, LongIsRead, SMT DEF LongAt

LEMMA QuadBytes ==
    ASSUME NEW n \in Int
    PROVE  emitQuad(n) \in Seq(Int) /\ Len(emitQuad(n)) = 8
<1>1. ASSUME NEW k \in 1 .. 8 PROVE emitQuad(n)[k] \in Int
  <2>1. CASE k <= 4
    <3>1. k - 1 \in {0, 1, 2, 3} /\ emitQuad(n)[k] = Byte(n, k - 1)
      BY <2>1 DEF emitQuad
    <3> QED
      BY <3>1, ByteTypes DEF ByteValue
  <2>2. CASE ~ (k <= 4)
    BY <2>2 DEF emitQuad
  <2> QED
    BY <2>1, <2>2
<1>2. emitQuad(n) = [k \in 1 .. 8 |-> emitQuad(n)[k]]
  BY DEF emitQuad
<1> QED
  BY <1>1, <1>2

LEMMA WordRead ==
    ASSUME NEW c, NEW at \in Nat, NEW n \in Int, Holds(c, at - 1, emitQuad(n))
    PROVE  WordAt(c, at) = InWord(n)
<1>1. at - 1 + 1 = at /\ at - 1 + 2 = at + 1 /\ at - 1 + 3 = at + 2
  OBVIOUS
<1>2. \A j \in 1 .. 8 : c[at - 1 + j] = emitQuad(n)[j]
  BY QuadBytes DEF Holds
<1>3. /\ emitQuad(n)[1] = Byte(n, 0) /\ emitQuad(n)[2] = Byte(n, 1)
      /\ emitQuad(n)[3] = Byte(n, 2)
  BY DEF emitQuad
<1>4. c[at] = Byte(n, 0) /\ c[at + 1] = Byte(n, 1) /\ c[at + 2] = Byte(n, 2)
  <2>1. 1 \in 1 .. 8 /\ 2 \in 1 .. 8 /\ 3 \in 1 .. 8
    OBVIOUS
  <2> QED
    BY <1>1, <1>2, <1>3, <2>1
<1> QED
  BY <1>4, WordIsRead, SMT DEF WordAt

\* The operand of a primitive that moves from or to memory, read from its bytes.
LEMMA MemoryOperandRead ==
    ASSUME NEW r \in Registers, NEW o \in Addresses
    PROVE  /\ MemoryOperand(r, o) \in Seq(Int)
           /\ \A c : \A at \in Nat : Holds(c, at - 1, MemoryOperand(r, o)) =>
                 IsOperand(OperandsAt(c, at, Rex(r, o.base)), r, FALSE, o.base, o.index, o.disp,
                           at + Len(MemoryOperand(r, o)))
<1>1. o.base \in JITRegisters /\ o.index \in 0 .. 7 /\ o.disp \in Int /\ isLong(o.disp)
  BY EncodingAssumption DEF Addresses, isLong
<1>2. \A mod \in 0 .. 2 :
         /\ emitModRm(mod, r, o.base, o.index) \in Seq(Int)
         /\ Len(emitModRm(mod, r, o.base, o.index)) \in Nat
  <2> SUFFICES ASSUME NEW mod \in 0 .. 2
               PROVE  emitModRm(mod, r, o.base, o.index) \in Seq(Int)
    OBVIOUS
  <2> QED
    BY <1>1, ModRmBytes
<1>3. CASE o.disp = 0 /\ o.base # rbp
  <2>1. MemoryOperand(r, o) = emitModRm(0, r, o.base, o.index)
    BY <1>3 DEF MemoryOperand, MemoryMods
  <2>2. MemoryOperand(r, o) \in Seq(Int)
    BY <1>2, <2>1
  <2> SUFFICES ASSUME NEW c, NEW at \in Nat, Holds(c, at - 1, MemoryOperand(r, o))
               PROVE  IsOperand(OperandsAt(c, at, Rex(r, o.base)), r, FALSE, o.base, o.index,
                                o.disp, at + Len(MemoryOperand(r, o)))
    BY <2>2
  <2>3. 0 \in 0 .. 2 /\ o.base # rbp /\ o.disp = 0
    BY <1>3
  <2>4. Holds(c, at - 1, emitModRm(0, r, o.base, o.index))
    BY <2>1
  <2>5. IsOperand(OperandsAt(c, at, Rex(r, o.base)), r, FALSE, o.base, o.index, 0,
                  at + Len(emitModRm(0, r, o.base, o.index)))
    BY <1>1, <2>3, <2>4, AddressOperand
  <2> QED
    BY <2>1, <2>3, <2>5
<1>4. CASE ~ (o.disp = 0 /\ o.base # rbp) /\ is8Bit(o.disp)
  <2> DEFINE modrm == emitModRm(1, r, o.base, o.index)
             byte == <<Byte(o.disp, 0)>>
  <2>1. MemoryOperand(r, o) = modrm \o byte
    BY <1>4 DEF MemoryOperand, MemoryMods
  <2>2. modrm \in Seq(Int) /\ Len(modrm) \in Nat
    BY <1>2
  <2>3. byte \in Seq(Int) /\ Len(byte) = 1 /\ byte[1] = Byte(o.disp, 0)
    <3>1. Byte(o.disp, 0) \in Int
      <4>1. o.disp \in Int
        BY <1>1
      <4>2. Byte(o.disp, 0) \in ByteValue
        BY <4>1, ByteTypes
      <4> QED
        BY <4>2 DEF ByteValue
    <3> QED
      BY <3>1
  <2> HIDE DEF modrm, byte
  <2>4. MemoryOperand(r, o) \in Seq(Int) /\ Len(MemoryOperand(r, o)) = Len(modrm) + Len(byte)
    BY <2>1, <2>2, <2>3, HoldsParts
  <2> SUFFICES ASSUME NEW c, NEW at \in Nat, Holds(c, at - 1, MemoryOperand(r, o))
               PROVE  IsOperand(OperandsAt(c, at, Rex(r, o.base)), r, FALSE, o.base, o.index,
                                o.disp, at + Len(MemoryOperand(r, o)))
    BY <2>4
  <2>5. Holds(c, at - 1, modrm) /\ Holds(c, at - 1 + Len(modrm), byte)
    <3>1. at - 1 \in Int
      OBVIOUS
    <3> QED
      BY <2>1, <2>2, <2>3, <3>1, HoldsParts
  <2>6. c[at + Len(modrm)] = Byte(o.disp, 0)
    <3>1. at - 1 + Len(modrm) + 1 = at + Len(modrm)
      BY <2>2
    <3> QED
      BY <2>3, <2>5, <3>1 DEF Holds
  <2>7. Signed(c[at + Len(modrm)]) = o.disp
    BY <1>1, <1>4, <2>6, ByteIsRead
  <2>8. IsOperand(OperandsAt(c, at, Rex(r, o.base)), r, FALSE, o.base, o.index,
                  Signed(c[at + Len(modrm)]), at + Len(modrm) + 1)
    <3>1. 1 \in 0 .. 2 /\ (1 = 0 => o.base # rbp)
      OBVIOUS
    <3> QED
      BY <1>1, <2>5, <3>1, AddressOperand DEF modrm
  <2>9. at + Len(MemoryOperand(r, o)) = at + Len(modrm) + 1
    BY <2>2, <2>3, <2>4
  <2> QED
    BY <2>7, <2>8, <2>9
<1>5. CASE ~ (o.disp = 0 /\ o.base # rbp) /\ ~ is8Bit(o.disp)
  <2> DEFINE modrm == emitModRm(2, r, o.base, o.index)
             long == emitLong(o.disp)
  <2>1. MemoryOperand(r, o) = modrm \o long
    BY <1>5 DEF MemoryOperand, MemoryMods
  <2>2. modrm \in Seq(Int) /\ Len(modrm) \in Nat
    BY <1>2
  <2>3. long \in Seq(Int) /\ Len(long) = 4
    BY <1>1, LongBytes
  <2> HIDE DEF modrm, long
  <2>4. MemoryOperand(r, o) \in Seq(Int) /\ Len(MemoryOperand(r, o)) = Len(modrm) + Len(long)
    BY <2>1, <2>2, <2>3, HoldsParts
  <2> SUFFICES ASSUME NEW c, NEW at \in Nat, Holds(c, at - 1, MemoryOperand(r, o))
               PROVE  IsOperand(OperandsAt(c, at, Rex(r, o.base)), r, FALSE, o.base, o.index,
                                o.disp, at + Len(MemoryOperand(r, o)))
    BY <2>4
  <2>5. Holds(c, at - 1, modrm) /\ Holds(c, at - 1 + Len(modrm), long)
    <3>1. at - 1 \in Int
      OBVIOUS
    <3> QED
      BY <2>1, <2>2, <2>3, <3>1, HoldsParts
  <2>6. LongAt(c, at + Len(modrm)) = o.disp
    <3>1. at - 1 + Len(modrm) = at + Len(modrm) - 1 /\ at + Len(modrm) \in Nat
      BY <2>2
    <3>2. Holds(c, at + Len(modrm) - 1, long)
      BY <2>5, <3>1
    <3> QED
      BY <1>1, <3>1, <3>2, LongRead DEF long
  <2>8. IsOperand(OperandsAt(c, at, Rex(r, o.base)), r, FALSE, o.base, o.index,
                  LongAt(c, at + Len(modrm)), at + Len(modrm) + 4)
    <3>1. 2 \in 0 .. 2 /\ (2 = 0 => o.base # rbp)
      OBVIOUS
    <3> QED
      BY <1>1, <2>5, <3>1, AddressOperand DEF modrm
  <2>9. at + Len(MemoryOperand(r, o)) = at + Len(modrm) + 4
    BY <2>2, <2>3, <2>4
  <2> QED
    BY <2>6, <2>8, <2>9
<1> QED
  BY <1>3, <1>4, <1>5

-----------------------------------------------------------------------------
(* Decoding                                                                *)

\* An instruction, by its parts.
IsInstruction(i, meant, end) == AsMeant(i) = meant /\ i.end = end

LEMMA DirectIsMeant ==
    ASSUME NEW op, NEW o, NEW reg, NEW base, NEW end, NEW imm, NEW after,
           IsOperand(o, reg, TRUE, base, NoIndex, 0, end)
    PROVE  IsInstruction(Instruction(op, o, imm, after), Direct(op, reg, base, imm), after)
  BY DEF IsOperand, IsInstruction, Instruction, Direct, AsMeant

LEMMA MemoryIsMeant ==
    ASSUME NEW op, NEW o, NEW reg, NEW a, NEW end, NEW after,
           IsOperand(o, reg, FALSE, a.base, a.index, a.disp, end)
    PROVE  IsInstruction(Instruction(op, o, 0, after), Memory(op, reg, a), after)
  BY DEF IsOperand, IsInstruction, Instruction, Memory, AsMeant

\* The opcodes that only differ in what they do with their operands.
Named == {"store", "load", "lea", "cmp", "sub", "and", "or"}

LEMMA MnemonicNumbers ==
    /\ \h89 = 137 /\ \h8B = 139 /\ \h8D = 141 /\ \h39 = 57 /\ \h29 = 41 /\ \h21 = 33 /\ \h09 = 9
    /\ \hC3 = 195 /\ \hE9 = 233 /\ \h0F = 15 /\ \hC1 = 193 /\ \h81 = 129 /\ \hFF = 255
    /\ \hB8 = 184 /\ \h50 = 80 /\ \h58 = 88 /\ \h84 = 132 /\ \h94 = 148 /\ \h90 = 144 /\ \h40 = 64
  OBVIOUS

LEMMA MnemonicsAre ==
    /\ DOMAIN Mnemonics = Named
    /\ Mnemonics["store"] = 137 /\ Mnemonics["load"] = 139 /\ Mnemonics["lea"] = 141
    /\ Mnemonics["cmp"] = 57 /\ Mnemonics["sub"] = 41 /\ Mnemonics["and"] = 33
    /\ Mnemonics["or"] = 9
  BY MnemonicNumbers DEF Mnemonics, Named

LEMMA MnemonicFound ==
    ASSUME NEW m \in Named
    PROVE  LET known == {k \in DOMAIN Mnemonics : Mnemonics[k] = Mnemonics[m]} IN
           known = {m} /\ (CHOOSE k \in known : TRUE) = m
<1>1. {k \in DOMAIN Mnemonics : Mnemonics[k] = Mnemonics[m]} = {m}
  BY MnemonicsAre DEF Named
<1> QED
  BY <1>1

\* An opcode after a prefix and of one without.
PrefixedOpcode(c, at, rex) == DecodeOpcode(c, at, rex, TRUE)
PlainOpcode(c, at) == DecodeOpcode(c, at, 64, FALSE)

\* What DecodeOpcode() makes of them.
OnOperand(op, o) == Instruction(op, o, 0, o.end)

LEMMA NamedDecoded ==
    ASSUME NEW m \in Named, NEW c, NEW at \in Nat, NEW rex \in Int,
           c[at] = Mnemonics[m]
    PROVE  PrefixedOpcode(c, at, rex) = OnOperand(m, OperandsAt(c, at + 1, rex))
<1>1. Mnemonics[m] \in {137, 139, 141, 57, 41, 33, 9}
  BY MnemonicsAre DEF Named
<1>2. PICK byte \in {137, 139, 141, 57, 41, 33, 9} : byte = c[at] /\ byte = Mnemonics[m]
  BY <1>1
<1>3. /\ byte \div 8 # \h50 \div 8 /\ byte \div 8 # \h58 \div 8 /\ byte \div 8 # \hB8 \div 8
      /\ byte # \hC3 /\ byte # \hE9 /\ byte # \h0F /\ byte # \hC1 /\ byte # \h81
      /\ byte # \hFF
  BY MnemonicNumbers
<1> DEFINE known == {k \in DOMAIN Mnemonics : Mnemonics[k] = c[at]}
           o == OperandsAt(c, at + 1, rex)
<1>4. known = {m} /\ (CHOOSE k \in known : TRUE) = m
  BY <1>2, MnemonicFound
<1>5. known # {}
  BY <1>4
<1>6. PrefixedOpcode(c, at, rex) =
        Instruction(IF known = {} THEN "illegal" ELSE CHOOSE k \in known : TRUE, o, 0, o.end)
  <2>1. /\ c[at] \div 8 # \h50 \div 8 /\ c[at] \div 8 # \h58 \div 8 /\ c[at] \div 8 # \hB8 \div 8
        /\ c[at] # \hC3 /\ c[at] # \hE9 /\ c[at] # \h0F /\ c[at] # \hC1 /\ c[at] # \h81
        /\ c[at] # \hFF
    BY <1>2, <1>3
  <2> QED
    BY <2>1, SMT DEF DecodeOpcode, PrefixedOpcode
<1> QED
  BY <1>4, <1>5, <1>6 DEF OnOperand

\* An opcode after a prefix.
LEMMA PrefixDecoded ==
    ASSUME NEW c, NEW p \in Nat, NEW r \in Registers, NEW m \in Registers, c[p + 1] = Rex(r, m)
    PROVE  Decode(c, p + 1) = PrefixedOpcode(c, p + 2, Rex(r, m))
<1>1. c[p + 1] \div 16 = 4
  BY RexIsRead DEF Rex
<1>2. p + 1 + 1 = p + 2
  OBVIOUS
<1> QED
  BY <1>1, <1>2 DEF Decode, PrefixedOpcode

LEMMA NamedAfterPrefix ==
    ASSUME NEW m \in Named, NEW c, NEW p \in Nat, NEW r \in Registers, NEW b \in Registers,
           c[p + 1] = Rex(r, b), c[p + 2] = Mnemonics[m]
    PROVE  Decode(c, p + 1) = OnOperand(m, OperandsAt(c, p + 3, Rex(r, b)))
<1>1. PICK at \in Nat : at = p + 2 /\ at + 1 = p + 3
  OBVIOUS
<1>2. c[at] = Mnemonics[m]
  BY <1>1
<1>3. PrefixedOpcode(c, at, Rex(r, b)) = OnOperand(m, OperandsAt(c, at + 1, Rex(r, b)))
  <2>1. PICK rex \in Int : rex = Rex(r, b)
    BY RexBytes
  <2>2. PrefixedOpcode(c, at, rex) = OnOperand(m, OperandsAt(c, at + 1, rex))
    BY <1>2, NamedDecoded
  <2> QED
    BY <2>1, <2>2
<1>4. Decode(c, p + 1) = PrefixedOpcode(c, p + 2, Rex(r, b))
  BY PrefixDecoded
<1> QED
  BY <1>1, <1>3, <1>4

\* What is found n bytes long after the first p bytes.
Reads(c, p, n, meant) == IsInstruction(Decode(c, p + 1), meant, p + n + 1)

LEMMA OneRegisterIs ==
    ASSUME NEW r
    PROVE  IsOperand(OneRegister(r), r, TRUE, 0, NoIndex, 0, 0)
  BY DEF OneRegister, NoOperands, IsOperand

LEMMA NoOperandsAre == IsOperand(NoOperands, 0, TRUE, 0, NoIndex, 0, 0)
  BY DEF NoOperands, IsOperand

\* An instruction with a prefix, an opcode and a register operand.
HasRegister(opcode, r, b, c, p) ==
    /\ c[p + 1] = Rex(r, b) /\ c[p + 2] = opcode
    /\ Decode(c, p + 1) = PrefixedOpcode(c, p + 2, Rex(r, b))
    /\ IsOperand(OperandsAt(c, p + 3, Rex(r, b)), r, TRUE, b, NoIndex, 0, p + 4)

LEMMA OnRegisterRead ==
    ASSUME NEW opcode \in Int, NEW r \in Registers, NEW b \in Registers, NEW c, NEW p \in Nat,
           Holds(c, p, OnRegister(opcode, r, b))
    PROVE  HasRegister(opcode, r, b, c, p)
<1> DEFINE bytes == <<Rex(r, b), opcode, 192 + (r % 8) * 8 + (b % 8)>>
<1>0. \A j \in 1 .. 3 : c[p + j] = bytes[j]
  <2>1. OnRegister(opcode, r, b) = bytes /\ Len(OnRegister(opcode, r, b)) = 3
    BY RegisterBytes
  <2> HIDE DEF bytes
  <2> QED
    BY <2>1 DEF Holds
<1>1. /\ c[p + 1] = Rex(r, b) /\ c[p + 2] = opcode
      /\ c[p + 3] = 192 + (r % 8) * 8 + (b % 8)
  BY <1>0
<1>2. p + 3 \in Nat /\ p + 3 + 1 = p + 4
  OBVIOUS
<1>3. IsOperand(OperandsAt(c, p + 3, Rex(r, b)), r, TRUE, b, NoIndex, 0, p + 3 + 1)
  BY <1>1, <1>2, DirectOperand
<1>4. Decode(c, p + 1) = PrefixedOpcode(c, p + 2, Rex(r, b))
  BY <1>1, PrefixDecoded
<1> QED
  BY <1>1, <1>2, <1>3, <1>4 DEF HasRegister

\* An instruction on a register and a register.
LEMMA RegisterRead ==
    ASSUME NEW m \in Named, NEW r \in Registers, NEW b \in Registers, NEW c, NEW p \in Nat,
           Holds(c, p, OnRegister(Mnemonics[m], r, b))
    PROVE  Reads(c, p, 3, Direct(m, r, b, 0))
<1> DEFINE o == OperandsAt(c, p + 3, Rex(r, b))
<1>1. Mnemonics[m] \in Int
  BY MnemonicsAre DEF Named
<1>2. /\ c[p + 1] = Rex(r, b) /\ c[p + 2] = Mnemonics[m]
      /\ IsOperand(o, r, TRUE, b, NoIndex, 0, p + 4)
  <2>1. PICK opcode \in Int : opcode = Mnemonics[m]
    BY <1>1
  <2>2. Holds(c, p, OnRegister(opcode, r, b))
    BY <2>1
  <2>3. HasRegister(opcode, r, b, c, p)
    BY <2>2, OnRegisterRead
  <2> QED
    BY <2>1, <2>3 DEF HasRegister
<1>3. Decode(c, p + 1) = Instruction(m, o, 0, o.end)
  BY <1>2, NamedAfterPrefix DEF OnOperand
<1>4. o.end = p + 3 + 1
  BY <1>2 DEF IsOperand
<1>5. IsInstruction(Instruction(m, o, 0, p + 3 + 1), Direct(m, r, b, 0), p + 3 + 1)
  BY <1>2, DirectIsMeant
<1> QED
  BY <1>3, <1>4, <1>5 DEF Reads

\* An instruction on a register and memory.
LEMMA MemoryRead ==
    ASSUME NEW m \in Named, NEW r \in Registers, NEW a \in Addresses
    PROVE  /\ MoveMemory(Mnemonics[m], r, a) \in Seq(Int)
           /\ Len(MoveMemory(Mnemonics[m], r, a)) > 0
           /\ \A c : \A p \in Nat : Holds(c, p, MoveMemory(Mnemonics[m], r, a)) =>
                 Reads(c, p, Len(MoveMemory(Mnemonics[m], r, a)), Memory(m, r, a))
<1> DEFINE operand == MemoryOperand(r, a)
           first == <<Rex(r, a.base), Mnemonics[m]>>
           code1 == MoveMemory(Mnemonics[m], r, a)
<1>1. Mnemonics[m] \in Int
  BY MnemonicsAre DEF Named
<1>2. a.base \in Registers
  BY JITRegisterNumbers DEF Addresses
<1>3. code1 = first \o operand
  BY <1>1, <1>2, RexBytes, JoinTwo DEF MoveMemory
<1>4. operand \in Seq(Int) /\ Len(operand) \in Nat
  <2>1. operand \in Seq(Int)
    BY MemoryOperandRead
  <2> HIDE DEF operand
  <2> QED
    BY <2>1
<1>5. first \in Seq(Int) /\ Len(first) = 2 /\ first[1] = Rex(r, a.base) /\ first[2] = Mnemonics[m]
  BY <1>1, <1>2, RexBytes
<1> HIDE DEF operand, first, code1
<1>6. /\ code1 \in Seq(Int) /\ Len(code1) = Len(first) + Len(operand)
      /\ \A c : \A p \in Int :
            Holds(c, p, code1) <=> Holds(c, p, first) /\ Holds(c, p + Len(first), operand)
  BY <1>3, <1>4, <1>5, HoldsParts
<1>7. ASSUME NEW c, NEW p \in Nat, Holds(c, p, code1)
      PROVE  Reads(c, p, Len(code1), Memory(m, r, a))
  <2> DEFINE o == OperandsAt(c, p + 3, Rex(r, a.base))
             end == p + 3 + Len(operand)
  <2>1. /\ p + 1 \in Nat /\ p + 2 \in Nat /\ p + 3 \in Nat /\ p + 1 + 1 = p + 2
        /\ p + 2 + 1 = p + 3 /\ p + 3 - 1 = p + 2 /\ p \in Int
    OBVIOUS
  <2>2. Holds(c, p, first) /\ Holds(c, p + 3 - 1, operand)
    BY <1>5, <1>6, <1>7, <2>1
  <2>3. c[p + 1] = Rex(r, a.base) /\ c[p + 2] = Mnemonics[m]
    BY <1>5, <2>2 DEF Holds
  <2>4. IsOperand(o, r, FALSE, a.base, a.index, a.disp, end)
    <3>1. PICK at \in Nat : at = p + 3
      BY <2>1
    <3>2. Holds(c, at - 1, MemoryOperand(r, a))
      BY <2>2, <3>1 DEF operand
    <3>3. IsOperand(OperandsAt(c, at, Rex(r, a.base)), r, FALSE, a.base, a.index, a.disp,
                    at + Len(MemoryOperand(r, a)))
      BY <3>2, MemoryOperandRead
    <3> QED
      BY <3>1, <3>3 DEF operand
  <2>5. PICK base \in Registers : base = a.base
    BY <1>2
  <2>6. Decode(c, p + 1) = Instruction(m, o, 0, o.end)
    BY <2>3, <2>5, NamedAfterPrefix DEF OnOperand
  <2>7. o.end = end
    BY <2>4 DEF IsOperand
  <2>8. end = p + Len(code1) + 1
    BY <1>4, <1>5, <1>6
  <2>9. IsInstruction(Instruction(m, o, 0, end), Memory(m, r, a), end)
    BY <2>4, MemoryIsMeant
  <2> QED
    BY <2>6, <2>7, <2>8, <2>9 DEF Reads
<1>8. Len(code1) > 0
  BY <1>4, <1>5, <1>6
<1> QED
  BY <1>6, <1>7, <1>8 DEF code1

LEMMA EightRegisters ==
    ASSUME NEW r \in Registers
    PROVE  /\ r % 8 \in 0 .. 7
           /\ (184 + (r % 8)) \div 8 = 23 /\ (80 + (r % 8)) \div 8 = 10
           /\ (88 + (r % 8)) \div 8 = 11
           /\ (184 + (r % 8)) % 8 = r % 8 /\ (80 + (r % 8)) % 8 = r % 8
           /\ (88 + (r % 8)) % 8 = r % 8
<1>1. PICK low \in 0 .. 7 : low = r % 8
  BY DEF Registers
<1> QED
  BY <1>1

\* An immediate into a register.
HasImmediate(n, r, c, p) ==
    /\ c[p + 1] = Rex(rax, r) /\ c[p + 2] = 184 + (r % 8)
    /\ Holds(c, p + 2, emitQuad(n))

LEMMA ImmediateBytes ==
    ASSUME NEW n \in Int, NEW r \in Registers
    PROVE  /\ moveImmediate(n, r) \in Seq(Int) /\ Len(moveImmediate(n, r)) = 10
           /\ \A c : \A p \in Int :
                 Holds(c, p, moveImmediate(n, r)) => HasImmediate(n, r, c, p)
<1> DEFINE quad == emitQuad(n)
           rex == Rex(rax, r)
           opcode == 184 + (r % 8)
           first == <<rex, opcode>>
           code1 == moveImmediate(n, r)
<1>1. rax \in Registers /\ rax = 0
  BY DEF Registers, rax
<1>2. rex \in Int /\ opcode \in Int /\ emitRex(rax, NoX, r) = <<rex>>
  BY <1>1, EightRegisters, RexBytes
<1>3. emitRex(0, NoX, r) = <<rex>>
  BY <1>1, <1>2
<1> HIDE DEF rex
<1>4. code1 = <<rex>> \o <<opcode>> \o quad
  BY <1>3, MnemonicNumbers DEF moveImmediate
<1> HIDE DEF opcode
<1>5. code1 = first \o quad
  BY <1>2, <1>4, JoinTwo
<1>6. quad \in Seq(Int) /\ Len(quad) = 8
  BY QuadBytes
<1>7. first \in Seq(Int) /\ Len(first) = 2 /\ first[1] = rex /\ first[2] = opcode
  BY <1>2
<1> HIDE DEF quad, first, code1
<1>8. /\ code1 \in Seq(Int) /\ Len(code1) = Len(first) + Len(quad)
      /\ \A c : \A p \in Int :
            Holds(c, p, code1) <=> Holds(c, p, first) /\ Holds(c, p + Len(first), quad)
  BY <1>5, <1>6, <1>7, HoldsParts
<1>9. ASSUME NEW c, NEW p \in Int, Holds(c, p, code1)
      PROVE  c[p + 1] = rex /\ c[p + 2] = opcode /\ Holds(c, p + 2, quad)
  <2>1. Holds(c, p, first) /\ Holds(c, p + 2, quad)
    BY <1>7, <1>8, <1>9
  <2> QED
    BY <1>7, <2>1 DEF Holds
<1>10. Len(code1) = 10
  BY <1>6, <1>7, <1>8
<1> QED
  BY <1>8, <1>9, <1>10 DEF code1, rex, opcode, quad, HasImmediate

LEMMA ImmediateRead ==
    ASSUME NEW n \in Int, NEW r \in Registers, NEW c, NEW p \in Nat,
           Holds(c, p, moveImmediate(n, r))
    PROVE  Reads(c, p, 10, LoadImmediate(n, r))
<1>1. rax \in Registers
  BY DEF Registers, rax
<1>2. c[p + 1] = Rex(rax, r) /\ c[p + 2] = 184 + (r % 8) /\ Holds(c, p + 2, emitQuad(n))
  <2>1. p \in Int
    OBVIOUS
  <2>2. HasImmediate(n, r, c, p)
    BY <2>1, ImmediateBytes
  <2> QED
    BY <2>2 DEF HasImmediate
<1>3. /\ p + 3 \in Nat /\ p + 3 - 1 = p + 2 /\ p + 2 + 1 = p + 3 /\ p + 2 + 9 = p + 10 + 1
  OBVIOUS
<1>4. WordAt(c, p + 3) = InWord(n)
  <2>1. Holds(c, p + 3 - 1, emitQuad(n))
    BY <1>2, <1>3
  <2> QED
    BY <1>3, <2>1, WordRead
<1>5. Decode(c, p + 1) = PrefixedOpcode(c, p + 2, Rex(rax, r))
  BY <1>1, <1>2, PrefixDecoded
<1>6. c[p + 2] \div 8 = 23 /\ c[p + 2] % 8 = r % 8
  BY <1>2, EightRegisters
<1>7. \h50 \div 8 = 10 /\ \h58 \div 8 = 11 /\ \hB8 \div 8 = 23
  BY MnemonicNumbers
<1>8. (r % 8) + 8 * Bit(Rex(rax, r), 0) = r
  BY <1>1, RexIsRead DEF Rex
<1> DEFINE rex == Rex(rax, r)
<1> HIDE DEF rex
<1>9. PrefixedOpcode(c, p + 2, rex) =
          Instruction("mov", OneRegister((c[p + 2] % 8) + 8 * Bit(rex, 0)),
                      WordAt(c, p + 2 + 1), p + 2 + 9)
  BY <1>6, <1>7, SMT DEF DecodeOpcode, PrefixedOpcode
<1>10. Decode(c, p + 1) = Instruction("mov", OneRegister(r), InWord(n), p + 10 + 1)
  BY <1>3, <1>4, <1>5, <1>6, <1>8, <1>9 DEF rex
<1>11. IsInstruction(Instruction("mov", OneRegister(r), InWord(n), p + 10 + 1),
                     Direct("mov", r, 0, InWord(n)), p + 10 + 1)
  BY OneRegisterIs, DirectIsMeant
<1> QED
  BY <1>10, <1>11 DEF Reads, LoadImmediate

\* A call through the register of temporaries.
LEMMA CallRead ==
    ASSUME NEW c, NEW p \in Nat, Holds(c, p, OnRegister(\hFF, 2, tmpRegister))
    PROVE  Reads(c, p, 3, Direct("call", 2, tmpRegister, 0))
<1>1. PICK two \in Registers, opcode \in Int : two = 2 /\ opcode = \hFF
  BY DEF Registers
<1>2. PICK b \in Registers : b = tmpRegister
  BY JITRegisterNumbers
<1> DEFINE rex == Rex(two, b)
           o == OperandsAt(c, p + 3, rex)
<1>3. Holds(c, p, OnRegister(opcode, two, b))
  BY <1>1, <1>2
<1>4. /\ c[p + 2] = opcode
      /\ Decode(c, p + 1) = PrefixedOpcode(c, p + 2, rex)
      /\ IsOperand(o, two, TRUE, b, NoIndex, 0, p + 4)
  <2>1. HasRegister(opcode, two, b, c, p)
    BY <1>3, OnRegisterRead
  <2> QED
    BY <2>1 DEF HasRegister
<1>5. c[p + 2] = 255 /\ c[p + 2] \div 8 = 31
  BY <1>1, <1>4, MnemonicNumbers
<1> HIDE DEF rex, o
<1>6. PrefixedOpcode(c, p + 2, rex) =
        LET operands == OperandsAt(c, p + 2 + 1, rex)
        IN  Instruction("call", operands, 0, operands.end)
  BY <1>5, SMT DEF DecodeOpcode, PrefixedOpcode
<1>7. p + 2 + 1 = p + 3 /\ p + 4 = p + 3 + 1
  OBVIOUS
<1>8. PrefixedOpcode(c, p + 2, rex) = Instruction("call", o, 0, o.end)
  BY <1>6, <1>7 DEF o
<1>9. o.end = p + 3 + 1
  BY <1>4, <1>7 DEF IsOperand
<1>10. IsInstruction(Instruction("call", o, 0, p + 3 + 1), Direct("call", two, b, 0), p + 3 + 1)
  BY <1>4, DirectIsMeant
<1> QED
  BY <1>1, <1>2, <1>4, <1>8, <1>9, <1>10 DEF Reads

\* Some bytes are an instruction wherever they are.
OneInstruction(bytes, n, meant) ==
    /\ bytes \in Seq(Int) /\ n > 0 /\ Len(bytes) = n
    /\ \A c : \A p \in Nat : Holds(c, p, bytes) => Reads(c, p, n, meant)

\* A shift by an immediate.
LEMMA ShiftRead ==
    ASSUME NEW n \in Int, NEW r \in Registers
    PROVE  OneInstruction(shiftl(n, r), 4, Direct("shl", 4, r, n))
<1>1. PICK four \in Registers, opcode \in Int : four = 4 /\ opcode = \hC1
  BY DEF Registers
<1> DEFINE first == OnRegister(opcode, four, r)
           byte == <<n>>
           code1 == shiftl(n, r)
<1>2. code1 = first \o byte
  BY <1>1 DEF shiftl
<1>3. first \in Seq(Int) /\ Len(first) = 3
  BY RegisterBytes
<1>4. byte \in Seq(Int) /\ Len(byte) = 1 /\ byte[1] = n
  OBVIOUS
<1> HIDE DEF first, byte, code1
<1>5. /\ code1 \in Seq(Int) /\ Len(code1) = Len(first) + Len(byte)
      /\ \A c : \A p \in Int :
            Holds(c, p, code1) <=> Holds(c, p, first) /\ Holds(c, p + Len(first), byte)
  BY <1>2, <1>3, <1>4, HoldsParts
<1>6. ASSUME NEW c, NEW p \in Nat, Holds(c, p, code1)
      PROVE  Reads(c, p, 4, Direct("shl", 4, r, n))
  <2> DEFINE rex == Rex(four, r)
             o == OperandsAt(c, p + 3, rex)
  <2>1. Holds(c, p, first) /\ Holds(c, p + 3, byte)
    BY <1>3, <1>5, <1>6
  <2>2. HasRegister(opcode, four, r, c, p)
    BY <2>1, OnRegisterRead DEF first
  <2>3. c[p + 3 + 1] = n
    BY <1>4, <2>1 DEF Holds
  <2>4. /\ c[p + 2] = opcode
        /\ Decode(c, p + 1) = PrefixedOpcode(c, p + 2, rex)
        /\ IsOperand(o, four, TRUE, r, NoIndex, 0, p + 4)
    BY <2>2 DEF HasRegister
  <2>5. c[p + 2] = 193 /\ c[p + 2] \div 8 = 24
    BY <1>1, <2>4, MnemonicNumbers
  <2> HIDE DEF rex, o
  <2>6. PrefixedOpcode(c, p + 2, rex) =
          LET operands == OperandsAt(c, p + 2 + 1, rex)
          IN  Instruction("shl", operands, c[operands.end], operands.end + 1)
    BY <2>5, SMT DEF DecodeOpcode, PrefixedOpcode
  <2>7. p + 2 + 1 = p + 3 /\ p + 4 = p + 3 + 1
    OBVIOUS
  <2>8. PrefixedOpcode(c, p + 2, rex) = Instruction("shl", o, c[o.end], o.end + 1)
    BY <2>6, <2>7 DEF o
  <2>9. o.end = p + 4
    BY <2>4 DEF IsOperand
  <2>10. IsInstruction(Instruction("shl", o, n, p + 4 + 1), Direct("shl", four, r, n), p + 4 + 1)
    BY <2>4, DirectIsMeant
  <2> QED
    BY <1>1, <2>3, <2>4, <2>7, <2>8, <2>9, <2>10 DEF Reads
<1>7. code1 \in Seq(Int) /\ 4 > 0 /\ Len(code1) = 4
  BY <1>3, <1>4, <1>5
<1>8. OneInstruction(code1, 4, Direct("shl", 4, r, n))
  BY <1>6, <1>7 DEF OneInstruction
<1> QED
  BY <1>8 DEF code1

\* A byte set to the zero flag, of a register that the prefix names.
LEMMA SetEqualRead ==
    ASSUME NEW r \in Registers
    PROVE  OneInstruction(setEqual(r), 4, Direct("sete", 0, r, 0))
<1>1. rax \in Registers /\ rax = 0
  BY DEF Registers, rax
<1> DEFINE rex == Rex(rax, r)
           modrm == 192 + (rax % 8) * 8 + (r % 8)
           first == <<rex, 15, 148>>
           last == <<modrm>>
           code1 == setEqual(r)
<1>2. emitRex(rax, NoX, r) = <<rex>> /\ rex \in Int
  BY <1>1, RexBytes
<1>3. emitModRm(Register, rax, r, NoIndex) = <<modrm>> \o <<>> /\ modrm \in Int
  BY <1>1 DEF emitModRm, Register, Registers
<1>4. <<modrm>> \o <<>> = <<modrm>>
  OBVIOUS
<1> HIDE DEF rex, modrm
<1>5. <<rex>> \o <<15, 148>> = first
  <2> DEFINE s == <<rex>>  t == <<15, 148>>
  <2>1. /\ s \in Seq(Int) /\ Len(s) = 1 /\ s[1] = rex
        /\ t \in Seq(Int) /\ Len(t) = 2 /\ t[1] = 15 /\ t[2] = 148
        /\ first \in Seq(Int) /\ Len(first) = 3
        /\ first[1] = rex /\ first[2] = 15 /\ first[3] = 148
    BY <1>2
  <2> HIDE DEF s, t, first
  <2>2. /\ s \o t \in Seq(Int) /\ Len(s \o t) = Len(s) + Len(t)
        /\ \A i \in 1 .. Len(s) + Len(t) :
              (s \o t)[i] = IF i <= Len(s) THEN s[i] ELSE t[i - Len(s)]
    <3>1. s \in Seq(Int) /\ t \in Seq(Int)
      BY <2>1
    <3> QED
      BY <3>1, ConcatProperties
  <2>3. Len(s \o t) = 3
    BY <2>1, <2>2
  <2>4. \A i \in 1 .. 3 : (s \o t)[i] = first[i]
    BY <2>1, <2>2
  <2>5. Len(s \o t) = Len(first) /\ \A i \in 1 .. Len(s \o t) : (s \o t)[i] = first[i]
    BY <2>1, <2>3, <2>4
  <2>6. s \o t = first
    BY <2>1, <2>2, <2>5, SeqEqual
  <2> QED
    BY <2>6 DEF s, t
<1>6. code1 = first \o last
  BY <1>1, <1>2, <1>3, <1>4, <1>5, MnemonicNumbers, 144 + 4 = 148 DEF setEqual
<1>7. first \in Seq(Int) /\ Len(first) = 3 /\ first[1] = rex /\ first[2] = 15 /\ first[3] = 148
  BY <1>2
<1>8. last \in Seq(Int) /\ Len(last) = 1 /\ last[1] = modrm
  BY <1>3
<1> HIDE DEF first, last, code1
<1>9. /\ code1 \in Seq(Int) /\ Len(code1) = Len(first) + Len(last)
      /\ \A c : \A p \in Int :
            Holds(c, p, code1) <=> Holds(c, p, first) /\ Holds(c, p + Len(first), last)
  BY <1>6, <1>7, <1>8, HoldsParts
<1>10. ASSUME NEW c, NEW p \in Nat, Holds(c, p, code1)
       PROVE  Reads(c, p, 4, Direct("sete", 0, r, 0))
  <2> DEFINE o == OperandsAt(c, p + 4, rex)
  <2>1. Holds(c, p, first) /\ Holds(c, p + 3, last)
    BY <1>7, <1>9, <1>10
  <2>2. c[p + 1] = rex /\ c[p + 2] = 15 /\ c[p + 3] = 148
    BY <1>7, <2>1 DEF Holds
  <2>3. p + 3 + 1 = p + 4 /\ p + 2 + 2 = p + 4 /\ p + 2 + 1 = p + 3 /\ p + 4 \in Nat
    OBVIOUS
  <2>4. c[p + 4] = modrm
    BY <1>8, <2>1, <2>3 DEF Holds
  <2>5. IsOperand(o, rax, TRUE, r, NoIndex, 0, p + 4 + 1)
    BY <1>1, <2>3, <2>4, DirectOperand DEF rex, modrm
  <2>6. Decode(c, p + 1) = PrefixedOpcode(c, p + 2, rex)
    BY <1>1, <2>2, PrefixDecoded DEF rex
  <2>7. c[p + 2] \div 8 = 1 /\ c[p + 2 + 1] = 148
    BY <2>2, <2>3
  <2> HIDE DEF o
  <2>8. PrefixedOpcode(c, p + 2, rex) =
          LET set == OperandsAt(c, p + 2 + 2, rex)
          IN  Instruction(IF TRUE THEN "sete" ELSE "setelegacy", set, 0, set.end)
    BY <2>2, <2>7, SMT DEF DecodeOpcode, PrefixedOpcode
  <2>9. PrefixedOpcode(c, p + 2, rex) = Instruction("sete", o, 0, o.end)
    BY <2>3, <2>8 DEF o
  <2>10. o.end = p + 4 + 1
    BY <2>5 DEF IsOperand
  <2>11. IsInstruction(Instruction("sete", o, 0, p + 4 + 1), Direct("sete", rax, r, 0), p + 4 + 1)
    BY <2>5, DirectIsMeant
  <2> QED
    BY <1>1, <2>6, <2>9, <2>10, <2>11 DEF Reads
<1>11. code1 \in Seq(Int) /\ 4 > 0 /\ Len(code1) = 4
  BY <1>7, <1>8, <1>9
<1>12. OneInstruction(code1, 4, Direct("sete", 0, r, 0))
  BY <1>10, <1>11 DEF OneInstruction
<1> QED
  BY <1>12 DEF code1

\* An opcode without a prefix.
LEMMA PlainDecoded ==
    ASSUME NEW c, NEW p \in Nat, c[p + 1] \div 16 # 4
    PROVE  Decode(c, p + 1) = PlainOpcode(c, p + 1)
  BY MnemonicNumbers DEF Decode, PlainOpcode

LEMMA PlainBits == Bit(64, 0) = 0 /\ Bit(64, 1) = 0 /\ Bit(64, 2) = 0
<1>1. 64 \div 1 = 64 /\ 64 \div 2 = 32 /\ 64 \div 4 = 16
  OBVIOUS
<1> QED
  BY <1>1, Powers DEF Bit

\* Without a prefix, the registers before the ninth.
LEMMA StackRead ==
    ASSUME NEW r \in 0 .. 7
    PROVE  /\ OneInstruction(push(r), 1, Direct("push", r, 0, 0))
           /\ OneInstruction(pop(r), 1, Direct("pop", r, 0, 0))
<1>1. push(r) = <<80 + r>> /\ pop(r) = <<88 + r>>
  <2>1. r % 8 = r
    OBVIOUS
  <2> QED
    BY <2>1, MnemonicNumbers DEF push, pop
<1>2. /\ (80 + r) \div 8 = 10 /\ (88 + r) \div 8 = 11 /\ (80 + r) \div 16 = 5
      /\ (88 + r) \div 16 = 5 /\ (80 + r) % 8 = r /\ (88 + r) % 8 = r
  OBVIOUS
<1>3. \h50 \div 8 = 10 /\ \h58 \div 8 = 11
  BY MnemonicNumbers
<1>4. r + 8 * 0 = r
  OBVIOUS
<1>5. ASSUME NEW c, NEW p \in Nat, c[p + 1] = 80 + r
      PROVE  Reads(c, p, 1, Direct("push", r, 0, 0))
  <2>1. c[p + 1] \div 8 = 10 /\ c[p + 1] \div 16 = 5 /\ c[p + 1] % 8 = r
    BY <1>2, <1>5
  <2>2. Decode(c, p + 1) = PlainOpcode(c, p + 1)
    BY <2>1, PlainDecoded
  <2>3. PlainOpcode(c, p + 1) =
          Instruction("push", OneRegister((c[p + 1] % 8) + 8 * Bit(64, 0)), 0, p + 1 + 1)
    BY <1>3, <2>1, SMT DEF DecodeOpcode, PlainOpcode
  <2>4. Decode(c, p + 1) = Instruction("push", OneRegister(r), 0, p + 1 + 1)
    BY <1>4, <2>1, <2>2, <2>3, PlainBits
  <2>5. IsInstruction(Instruction("push", OneRegister(r), 0, p + 1 + 1), Direct("push", r, 0, 0),
                      p + 1 + 1)
    BY OneRegisterIs, DirectIsMeant
  <2> QED
    BY <2>4, <2>5 DEF Reads
<1>6. ASSUME NEW c, NEW p \in Nat, c[p + 1] = 88 + r
      PROVE  Reads(c, p, 1, Direct("pop", r, 0, 0))
  <2>1. c[p + 1] \div 8 = 11 /\ c[p + 1] \div 16 = 5 /\ c[p + 1] % 8 = r
    BY <1>2, <1>6
  <2>2. Decode(c, p + 1) = PlainOpcode(c, p + 1)
    BY <2>1, PlainDecoded
  <2>3. PlainOpcode(c, p + 1) =
          Instruction("pop", OneRegister((c[p + 1] % 8) + 8 * Bit(64, 0)), 0, p + 1 + 1)
    BY <1>3, <2>1, SMT DEF DecodeOpcode, PlainOpcode
  <2>4. Decode(c, p + 1) = Instruction("pop", OneRegister(r), 0, p + 1 + 1)
    BY <1>4, <2>1, <2>2, <2>3, PlainBits
  <2>5. IsInstruction(Instruction("pop", OneRegister(r), 0, p + 1 + 1), Direct("pop", r, 0, 0),
                      p + 1 + 1)
    BY OneRegisterIs, DirectIsMeant
  <2> QED
    BY <2>4, <2>5 DEF Reads
<1>7. ASSUME NEW c, NEW p \in Nat
      PROVE  /\ Holds(c, p, push(r)) => c[p + 1] = 80 + r
             /\ Holds(c, p, pop(r)) => c[p + 1] = 88 + r
  BY <1>1, HoldsOne
<1>8. push(r) \in Seq(Int) /\ Len(push(r)) = 1 /\ pop(r) \in Seq(Int) /\ Len(pop(r)) = 1
  BY <1>1
<1> QED
  BY <1>5, <1>6, <1>7, <1>8 DEF OneInstruction

LEMMA ReturnRead == OneInstruction(ret, 1, Direct("ret", 0, 0, 0))
<1>1. ret = <<195>>
  BY MnemonicNumbers DEF ret
<1>2. ASSUME NEW c, NEW p \in Nat, Holds(c, p, ret)
      PROVE  Reads(c, p, 1, Direct("ret", 0, 0, 0))
  <2>1. c[p + 1] = 195
    BY <1>1, <1>2, HoldsOne
  <2>2. c[p + 1] \div 8 = 24 /\ c[p + 1] \div 16 = 12
    BY <2>1
  <2>3. Decode(c, p + 1) = PlainOpcode(c, p + 1)
    BY <2>2, PlainDecoded
  <2>4. PlainOpcode(c, p + 1) = Instruction("ret", NoOperands, 0, p + 1 + 1)
    BY <2>1, <2>2, SMT DEF DecodeOpcode, PlainOpcode
  <2>5. IsInstruction(Instruction("ret", NoOperands, 0, p + 1 + 1), Direct("ret", 0, 0, 0),
                      p + 1 + 1)
    BY NoOperandsAre, DirectIsMeant
  <2> QED
    BY <2>3, <2>4, <2>5 DEF Reads
<1>3. ret \in Seq(Int) /\ Len(ret) = 1
  BY <1>1
<1> QED
  BY <1>2, <1>3 DEF OneInstruction

\* An immediate compared with the low half of a register.
LEMMA Compare32Read ==
    ASSUME NEW n \in Int, isLong(n), NEW r \in 0 .. 7
    PROVE  OneInstruction(compare32(r, n), 6, Direct("cmpi32", 7, r, n))
<1> DEFINE modrm == 3 * 64 + (7 % 8) * 8 + (r % 8)
           first == <<129, modrm>>
           long == emitLong(n)
           code1 == compare32(r, n)
<1>1. emitModRm(Register, 7, r, NoIndex) = <<modrm>> \o <<>> /\ modrm \in Int
  BY DEF emitModRm, Register
<1>2. <<modrm>> \o <<>> = <<modrm>>
  OBVIOUS
<1>3. modrm \div 64 = 3 /\ (modrm \div 8) % 8 = 7 /\ modrm % 8 = r
  BY 7 % 8 = 7, r % 8 = r
<1> HIDE DEF modrm
<1>4. <<129>> \o <<modrm>> = first
  BY <1>1, JoinTwo
<1>5. code1 = first \o long
  BY <1>1, <1>2, <1>4, MnemonicNumbers DEF compare32
<1>6. first \in Seq(Int) /\ Len(first) = 2 /\ first[1] = 129 /\ first[2] = modrm
  BY <1>1
<1>7. long \in Seq(Int) /\ Len(long) = 4
  BY LongBytes
<1> HIDE DEF first, long, code1
<1>8. /\ code1 \in Seq(Int) /\ Len(code1) = Len(first) + Len(long)
      /\ \A c : \A p \in Int :
            Holds(c, p, code1) <=> Holds(c, p, first) /\ Holds(c, p + Len(first), long)
  <2>1. first \in Seq(Int) /\ long \in Seq(Int)
    BY <1>6, <1>7
  <2> QED
    BY <1>5, <2>1, HoldsParts
<1>9. ASSUME NEW c, NEW p \in Nat, Holds(c, p, code1)
      PROVE  Reads(c, p, 6, Direct("cmpi32", 7, r, n))
  <2> DEFINE o == OperandsAt(c, p + 2, 64)
  <2>1. Holds(c, p, first) /\ Holds(c, p + 2, long)
    BY <1>6, <1>8, <1>9
  <2>2. c[p + 1] = 129 /\ c[p + 2] = modrm
    BY <1>6, <2>1 DEF Holds
  <2>3. /\ c[p + 2] \div 64 = 3 /\ (c[p + 2] \div 8) % 8 = 7 /\ c[p + 2] % 8 = r
    BY <1>3, <2>2
  <2>4. o.reg = ((c[p + 2] \div 8) % 8) + 8 * Bit(64, 2)
    BY DEF OperandsAt
  <2>5. o.base = (c[p + 2] % 8) + 8 * Bit(64, 0)
    BY <2>3 DEF OperandsAt
  <2>6. o.direct = TRUE /\ o.index = NoIndex
    BY <2>3 DEF OperandsAt
  <2>7. o.disp = 0 /\ o.end = p + 2 + 1
    BY <2>3 DEF OperandsAt
  <2> HIDE DEF o
  <2>8. IsOperand(o, 7, TRUE, r, NoIndex, 0, p + 3)
    <3>1. o.reg = 7 /\ o.base = r
      BY <2>3, <2>4, <2>5, PlainBits
    <3>2. p + 2 + 1 = p + 3
      OBVIOUS
    <3> QED
      BY <2>6, <2>7, <3>1, <3>2 DEF IsOperand
  <2>9. LongAt(c, p + 3) = n
    <3>1. PICK at \in Nat : at = p + 3 /\ at - 1 = p + 2
      OBVIOUS
    <3>2. Holds(c, at - 1, emitLong(n))
      BY <2>1, <3>1 DEF long
    <3> QED
      BY <3>1, <3>2, LongRead
  <2>10. c[p + 1] \div 8 = 16 /\ c[p + 1] \div 16 = 8
    BY <2>2
  <2>11. Decode(c, p + 1) = PlainOpcode(c, p + 1)
    BY <2>10, PlainDecoded
  <2>12. PlainOpcode(c, p + 1) =
           LET operands == OperandsAt(c, p + 1 + 1, 64)
           IN  Instruction(IF FALSE THEN "cmpi" ELSE "cmpi32", operands,
                           LongAt(c, operands.end), operands.end + 4)
    BY <2>2, <2>10, SMT DEF DecodeOpcode, PlainOpcode
  <2>13. p + 1 + 1 = p + 2 /\ p + 3 + 4 = p + 6 + 1
    OBVIOUS
  <2>14. PlainOpcode(c, p + 1) = Instruction("cmpi32", o, LongAt(c, o.end), o.end + 4)
    BY <2>12, <2>13 DEF o
  <2>15. o.end = p + 3
    BY <2>8 DEF IsOperand
  <2>16. IsInstruction(Instruction("cmpi32", o, n, p + 6 + 1), Direct("cmpi32", 7, r, n), p + 6 + 1)
    BY <2>8, DirectIsMeant
  <2> QED
    BY <2>9, <2>11, <2>13, <2>14, <2>15, <2>16 DEF Reads
<1>10. code1 \in Seq(Int) /\ 6 > 0 /\ Len(code1) = 6
  BY <1>6, <1>7, <1>8
<1>11. OneInstruction(code1, 6, Direct("cmpi32", 7, r, n))
  BY <1>9, <1>10 DEF OneInstruction
<1> QED
  BY <1>11 DEF code1

-----------------------------------------------------------------------------
(* A primitive                                                             *)

\* A primitive is one instruction, or an immediate and an instruction that
\* uses it.
IsRead(c, p, bytes, meant) ==
    \/ Len(meant) = 1 /\ Reads(c, p, Len(bytes), meant[1])
    \/ /\ Len(meant) = 2 /\ Len(bytes) > 10
       /\ Reads(c, p, 10, meant[1]) /\ Reads(c, p + 10, Len(bytes) - 10, meant[2])

\* What is to be shown of a primitive.
IsReadAnywhere(bytes, meant) ==
    /\ bytes \in Seq(Int) /\ Len(bytes) > 0
    /\ \A c : \A p \in Nat : Holds(c, p, bytes) => IsRead(c, p, bytes, meant)

LEMMA OneIsRead ==
    ASSUME NEW bytes, NEW n \in Nat, NEW i, OneInstruction(bytes, n, i)
    PROVE  IsReadAnywhere(bytes, <<i>>)
<1>1. Len(<<i>>) = 1 /\ <<i>>[1] = i
  OBVIOUS
<1> QED
  BY <1>1 DEF IsReadAnywhere, IsRead, OneInstruction

LEMMA TwoAreRead ==
    ASSUME NEW n \in Int, NEW bytes, NEW m \in Nat, NEW i, OneInstruction(bytes, m, i)
    PROVE  IsReadAnywhere(moveImmediate(n, tmpRegister) \o bytes,
                          <<LoadImmediate(n, tmpRegister), i>>)
<1> DEFINE load == moveImmediate(n, tmpRegister)
           both == load \o bytes
           meant == <<LoadImmediate(n, tmpRegister), i>>
<1>0. /\ bytes \in Seq(Int) /\ Len(bytes) = m /\ m > 0
      /\ \A c : \A p \in Nat : Holds(c, p, bytes) => Reads(c, p, m, i)
  BY DEF OneInstruction
<1>1. tmpRegister \in Registers
  BY JITRegisterNumbers
<1>2. load \in Seq(Int) /\ Len(load) = 10
  BY <1>1, ImmediateBytes
<1>3. Len(meant) = 2 /\ meant[1] = LoadImmediate(n, tmpRegister) /\ meant[2] = i
  OBVIOUS
<1> HIDE DEF load, meant
<1>4. /\ both \in Seq(Int) /\ Len(both) = Len(load) + Len(bytes)
      /\ \A c : \A p \in Int :
            Holds(c, p, both) <=> Holds(c, p, load) /\ Holds(c, p + Len(load), bytes)
  BY <1>0, <1>2, HoldsParts
<1> HIDE DEF both
<1>5. Len(both) > 10 /\ Len(both) - 10 = m
  BY <1>0, <1>2, <1>4
<1>6. ASSUME NEW c, NEW p \in Nat, Holds(c, p, both)
      PROVE  IsRead(c, p, both, meant)
  <2>1. Holds(c, p, load) /\ Holds(c, p + 10, bytes)
    BY <1>2, <1>4, <1>6
  <2>2. Reads(c, p, 10, LoadImmediate(n, tmpRegister))
    BY <1>1, <2>1, ImmediateRead DEF load
  <2>3. Reads(c, p + 10, m, i)
    <3>1. p + 10 \in Nat
      OBVIOUS
    <3> QED
      BY <1>0, <2>1, <3>1
  <2> QED
    BY <1>3, <1>5, <2>2, <2>3 DEF IsRead
<1>7. IsReadAnywhere(both, meant)
  BY <1>4, <1>5, <1>6 DEF IsReadAnywhere
<1> QED
  BY <1>7 DEF both, load, meant

LEMMA RegisterIsRead ==
    ASSUME NEW m \in Named, NEW r \in Registers, NEW b \in Registers
    PROVE  OneInstruction(OnRegister(Mnemonics[m], r, b), 3, Direct(m, r, b, 0))
<1>1. PICK opcode \in Int : opcode = Mnemonics[m]
  BY MnemonicsAre DEF Named
<1>2. OnRegister(opcode, r, b) \in Seq(Int) /\ Len(OnRegister(opcode, r, b)) = 3
  BY RegisterBytes
<1>3. ASSUME NEW c, NEW p \in Nat, Holds(c, p, OnRegister(Mnemonics[m], r, b))
      PROVE  Reads(c, p, 3, Direct(m, r, b, 0))
  BY <1>3, RegisterRead
<1>4. /\ OnRegister(Mnemonics[m], r, b) \in Seq(Int)
      /\ Len(OnRegister(Mnemonics[m], r, b)) = 3
  BY <1>1, <1>2
<1> QED
  BY <1>3, <1>4 DEF OneInstruction

LEMMA MemoryIsRead ==
    ASSUME NEW m \in Named, NEW r \in Registers, NEW a \in Addresses
    PROVE  IsReadAnywhere(MoveMemory(Mnemonics[m], r, a), <<Memory(m, r, a)>>)
<1> DEFINE bytes == MoveMemory(Mnemonics[m], r, a)
<1>1. bytes \in Seq(Int) /\ Len(bytes) > 0
  BY MemoryRead
<1>2. ASSUME NEW c, NEW p \in Nat, Holds(c, p, bytes)
      PROVE  Reads(c, p, Len(bytes), Memory(m, r, a))
  BY <1>2, MemoryRead
<1> HIDE DEF bytes
<1>3. PICK n \in Nat : n = Len(bytes) /\ n > 0
  BY <1>1
<1>4. OneInstruction(bytes, n, Memory(m, r, a))
  BY <1>1, <1>2, <1>3 DEF OneInstruction
<1>5. IsReadAnywhere(bytes, <<Memory(m, r, a)>>)
  BY <1>4, OneIsRead
<1> QED
  BY <1>5 DEF bytes

LEMMA PrimitiveParts ==
    ASSUME NEW p \in Primitives
    PROVE  \/ p[1] \in {"moveRegister", "compareRegisters", "subRegister"}
              /\ p[2] \in Registers /\ p[3] \in Registers
           \/ p[1] \in {"moveFrom", "moveTo", "leaOffset"}
              /\ p[2] \in Addresses /\ p[3] \in Registers
           \/ p[1] \in {"moveImmediate", "subImmediate", "bitAnd", "bitOr", "compareValue"}
              /\ p[2] \in Int /\ p[3] \in Registers
           \/ p[1] = "compare32" /\ p[2] \in Int /\ isLong(p[2]) /\ p[3] \in 0 .. 7
           \/ p[1] = "setEqual" /\ p[3] \in Registers
           \/ p[1] = "shiftl" /\ p[2] \in Int /\ p[3] \in Registers
           \/ p[1] \in {"push", "pop"} /\ p[3] \in 0 .. 7
           \/ p[1] = "callTarget" /\ p[2] \in Int
           \/ p[1] = "ret"
<1>1. \A n \in Immediates : n \in Int /\ isLong(n)
  BY EncodingAssumption DEF isLong
<1>2. \A r \in JITRegisters : r \in Registers
  BY JITRegisterNumbers
<1>3. \A r \in JITRegisters \ {r8} : r \in 0 .. 7
  BY JITRegisterNumbers
<1>4. CASE p \in {"moveRegister", "compareRegisters", "subRegister"} \X JITRegisters \X JITRegisters
  BY <1>2, <1>4
<1>5. CASE p \in {"moveFrom", "moveTo", "leaOffset"} \X Addresses \X JITRegisters
  BY <1>2, <1>5
<1>6. CASE p \in {"moveImmediate", "subImmediate", "bitAnd", "bitOr", "compareValue"}
                 \X Immediates \X JITRegisters
  BY <1>1, <1>2, <1>6
<1>7. CASE p \in {"compare32"} \X Immediates \X (JITRegisters \ {r8})
  BY <1>1, <1>3, <1>7
<1>8. CASE p \in {"setEqual"} \X {0} \X JITRegisters
  BY <1>2, <1>8
<1>9. CASE p \in {"shiftl"} \X {3} \X JITRegisters
  BY <1>2, <1>9
<1>10. CASE p \in {"push", "pop"} \X {0} \X (JITRegisters \ {r8})
  BY <1>3, <1>10
<1>11. CASE p \in {"callTarget"} \X Immediates \X {0}
  BY <1>1, <1>11
<1>12. CASE p = <<"ret", 0, 0>>
  BY <1>12
<1> QED
  BY <1>4, <1>5, <1>6, <1>7, <1>8, <1>9, <1>10, <1>11, <1>12 DEF Primitives

\* A processor reads of each primitive what was meant by it.
THEOREM PrimitiveIsRead ==
    ASSUME NEW p \in Primitives
    PROVE  IsReadAnywhere(Encoded(p), Meant(p))
<1>1. tmpRegister \in Registers
  BY JITRegisterNumbers
<1>2. CASE p[1] = "moveRegister"
  <2>1. p[2] \in Registers /\ p[3] \in Registers
    BY <1>2, PrimitiveParts
  <2>2. Encoded(p) = OnRegister(Mnemonics["store"], p[2], p[3])
    BY <1>2, MnemonicsAre, MnemonicNumbers DEF Encoded, moveRegister
  <2>3. Meant(p) = <<Direct("store", p[2], p[3], 0)>>
    BY <1>2 DEF Meant
  <2>4. "store" \in Named
    BY DEF Named
  <2> QED
    BY <2>1, <2>2, <2>3, <2>4, RegisterIsRead, OneIsRead
<1>3. CASE p[1] = "compareRegisters"
  <2>1. p[2] \in Registers /\ p[3] \in Registers
    BY <1>3, PrimitiveParts
  <2>2. Encoded(p) = OnRegister(Mnemonics["cmp"], p[3], p[2])
    BY <1>3, MnemonicsAre, MnemonicNumbers DEF Encoded, compareRegisters
  <2>3. Meant(p) = <<Direct("cmp", p[3], p[2], 0)>>
    BY <1>3 DEF Meant
  <2>4. "cmp" \in Named
    BY DEF Named
  <2> QED
    BY <2>1, <2>2, <2>3, <2>4, RegisterIsRead, OneIsRead
<1>4. CASE p[1] = "subRegister"
  <2>1. p[2] \in Registers /\ p[3] \in Registers
    BY <1>4, PrimitiveParts
  <2>2. Encoded(p) = OnRegister(Mnemonics["sub"], p[2], p[3])
    BY <1>4, MnemonicsAre, MnemonicNumbers DEF Encoded, subRegister
  <2>3. Meant(p) = <<Direct("sub", p[2], p[3], 0)>>
    BY <1>4 DEF Meant
  <2>4. "sub" \in Named
    BY DEF Named
  <2> QED
    BY <2>1, <2>2, <2>3, <2>4, RegisterIsRead, OneIsRead
<1>5. CASE p[1] = "moveFrom"
  <2>1. p[2] \in Addresses /\ p[3] \in Registers
    BY <1>5, PrimitiveParts
  <2>2. Encoded(p) = MoveMemory(Mnemonics["load"], p[3], p[2])
    BY <1>5, MnemonicsAre, MnemonicNumbers DEF Encoded, moveFrom
  <2>3. Meant(p) = <<Memory("load", p[3], p[2])>>
    BY <1>5 DEF Meant
  <2>4. "load" \in Named
    BY DEF Named
  <2> QED
    BY <2>1, <2>2, <2>3, <2>4, MemoryIsRead
<1>6. CASE p[1] = "moveTo"
  <2>1. p[2] \in Addresses /\ p[3] \in Registers
    BY <1>6, PrimitiveParts
  <2>2. Encoded(p) = MoveMemory(Mnemonics["store"], p[3], p[2])
    BY <1>6, MnemonicsAre, MnemonicNumbers DEF Encoded, moveTo
  <2>3. Meant(p) = <<Memory("store", p[3], p[2])>>
    BY <1>6 DEF Meant
  <2>4. "store" \in Named
    BY DEF Named
  <2> QED
    BY <2>1, <2>2, <2>3, <2>4, MemoryIsRead
<1>7. CASE p[1] = "leaOffset"
  <2>1. p[2] \in Addresses /\ p[3] \in Registers
    BY <1>7, PrimitiveParts
  <2>2. Encoded(p) = MoveMemory(Mnemonics["lea"], p[3], p[2])
    BY <1>7, MnemonicsAre, MnemonicNumbers DEF Encoded, leaOffset
  <2>3. Meant(p) = <<Memory("lea", p[3], p[2])>>
    BY <1>7 DEF Meant
  <2>4. "lea" \in Named
    BY DEF Named
  <2> QED
    BY <2>1, <2>2, <2>3, <2>4, MemoryIsRead
<1>8. CASE p[1] = "moveImmediate"
  <2>1. p[2] \in Int /\ p[3] \in Registers
    BY <1>8, PrimitiveParts
  <2>2. Encoded(p) = moveImmediate(p[2], p[3])
    BY <1>8 DEF Encoded
  <2>3. Meant(p) = <<LoadImmediate(p[2], p[3])>>
    BY <1>8 DEF Meant
  <2>4. moveImmediate(p[2], p[3]) \in Seq(Int) /\ Len(moveImmediate(p[2], p[3])) = 10
    BY <2>1, ImmediateBytes
  <2>5. ASSUME NEW c, NEW q \in Nat, Holds(c, q, moveImmediate(p[2], p[3]))
        PROVE  Reads(c, q, 10, LoadImmediate(p[2], p[3]))
    BY <2>1, <2>5, ImmediateRead
  <2>6. OneInstruction(moveImmediate(p[2], p[3]), 10, LoadImmediate(p[2], p[3]))
    BY <2>4, <2>5 DEF OneInstruction
  <2> QED
    BY <2>2, <2>3, <2>6, OneIsRead
<1>9. CASE p[1] = "subImmediate"
  <2>1. p[2] \in Int /\ p[3] \in Registers
    BY <1>9, PrimitiveParts
  <2>2. Encoded(p) = moveImmediate(p[2], tmpRegister) \o OnRegister(Mnemonics["sub"], tmpRegister, p[3])
    BY <1>9, MnemonicsAre, MnemonicNumbers DEF Encoded, subImmediate, subRegister
  <2>3. Meant(p) = <<LoadImmediate(p[2], tmpRegister), Direct("sub", tmpRegister, p[3], 0)>>
    BY <1>9 DEF Meant
  <2>4. "sub" \in Named
    BY DEF Named
  <2> QED
    BY <1>1, <2>1, <2>2, <2>3, <2>4, RegisterIsRead, TwoAreRead
<1>10. CASE p[1] = "bitAnd"
  <2>1. p[2] \in Int /\ p[3] \in Registers
    BY <1>10, PrimitiveParts
  <2>2. Encoded(p) = moveImmediate(p[2], tmpRegister) \o OnRegister(Mnemonics["and"], tmpRegister, p[3])
    BY <1>10, MnemonicsAre, MnemonicNumbers DEF Encoded, bitAnd
  <2>3. Meant(p) = <<LoadImmediate(p[2], tmpRegister), Direct("and", tmpRegister, p[3], 0)>>
    BY <1>10 DEF Meant
  <2>4. "and" \in Named
    BY DEF Named
  <2> QED
    BY <1>1, <2>1, <2>2, <2>3, <2>4, RegisterIsRead, TwoAreRead
<1>11. CASE p[1] = "bitOr"
  <2>1. p[2] \in Int /\ p[3] \in Registers
    BY <1>11, PrimitiveParts
  <2>2. Encoded(p) = moveImmediate(p[2], tmpRegister) \o OnRegister(Mnemonics["or"], tmpRegister, p[3])
    BY <1>11, MnemonicsAre, MnemonicNumbers DEF Encoded, bitOr
  <2>3. Meant(p) = <<LoadImmediate(p[2], tmpRegister), Direct("or", tmpRegister, p[3], 0)>>
    BY <1>11 DEF Meant
  <2>4. "or" \in Named
    BY DEF Named
  <2> QED
    BY <1>1, <2>1, <2>2, <2>3, <2>4, RegisterIsRead, TwoAreRead
<1>12. CASE p[1] = "compareValue"
  <2>1. p[2] \in Int /\ p[3] \in Registers
    BY <1>12, PrimitiveParts
  <2>2. Encoded(p) = moveImmediate(p[2], tmpRegister) \o OnRegister(Mnemonics["cmp"], tmpRegister, p[3])
    BY <1>12, MnemonicsAre, MnemonicNumbers DEF Encoded, compareValue, compareRegisters
  <2>3. Meant(p) = <<LoadImmediate(p[2], tmpRegister), Direct("cmp", tmpRegister, p[3], 0)>>
    BY <1>12 DEF Meant
  <2>4. "cmp" \in Named
    BY DEF Named
  <2> QED
    BY <1>1, <2>1, <2>2, <2>3, <2>4, RegisterIsRead, TwoAreRead
<1>13. CASE p[1] = "callTarget"
  <2>1. p[2] \in Int
    BY <1>13, PrimitiveParts
  <2> DEFINE target == OnRegister(\hFF, 2, tmpRegister)
  <2>2. Encoded(p) = moveImmediate(p[2], tmpRegister) \o target
    BY <1>13 DEF Encoded, callTarget
  <2>3. Meant(p) = <<LoadImmediate(p[2], tmpRegister), Direct("call", 2, tmpRegister, 0)>>
    BY <1>13 DEF Meant
  <2>4. target \in Seq(Int) /\ Len(target) = 3
    <3>1. PICK two \in Registers, opcode \in Int : two = 2 /\ opcode = \hFF
      BY DEF Registers
    <3>2. OnRegister(opcode, two, tmpRegister) \in Seq(Int) /\ Len(OnRegister(opcode, two, tmpRegister)) = 3
      BY <1>1, RegisterBytes
    <3> QED
      BY <3>1, <3>2
  <2>5. ASSUME NEW c, NEW q \in Nat, Holds(c, q, target)
        PROVE  Reads(c, q, 3, Direct("call", 2, tmpRegister, 0))
    BY <2>5, CallRead
  <2> HIDE DEF target
  <2>6. OneInstruction(target, 3, Direct("call", 2, tmpRegister, 0))
    BY <2>4, <2>5 DEF OneInstruction
  <2> QED
    BY <2>1, <2>2, <2>3, <2>6, TwoAreRead
<1>14. CASE p[1] = "compare32"
  <2>1. p[2] \in Int /\ isLong(p[2]) /\ p[3] \in 0 .. 7
    BY <1>14, PrimitiveParts
  <2>2. Encoded(p) = compare32(p[3], p[2])
    BY <1>14 DEF Encoded
  <2>3. Meant(p) = <<Direct("cmpi32", 7, p[3], p[2])>>
    BY <1>14 DEF Meant
  <2> QED
    BY <2>1, <2>2, <2>3, Compare32Read, OneIsRead
<1>15. CASE p[1] = "setEqual"
  <2>1. p[3] \in Registers
    BY <1>15, PrimitiveParts
  <2>2. Encoded(p) = setEqual(p[3])
    BY <1>15 DEF Encoded
  <2>3. Meant(p) = <<Direct("sete", 0, p[3], 0)>>
    BY <1>15 DEF Meant
  <2> QED
    BY <2>1, <2>2, <2>3, SetEqualRead, OneIsRead
<1>16. CASE p[1] = "shiftl"
  <2>1. p[2] \in Int /\ p[3] \in Registers
    BY <1>16, PrimitiveParts
  <2>2. Encoded(p) = shiftl(p[2], p[3])
    BY <1>16 DEF Encoded
  <2>3. Meant(p) = <<Direct("shl", 4, p[3], p[2])>>
    BY <1>16 DEF Meant
  <2> QED
    BY <2>1, <2>2, <2>3, ShiftRead, OneIsRead
<1>17. CASE p[1] = "push"
  <2>1. p[3] \in 0 .. 7
    BY <1>17, PrimitiveParts
  <2>2. Encoded(p) = push(p[3])
    BY <1>17 DEF Encoded
  <2>3. Meant(p) = <<Direct("push", p[3], 0, 0)>>
    BY <1>17 DEF Meant
  <2> QED
    BY <2>1, <2>2, <2>3, StackRead, OneIsRead
<1>18. CASE p[1] = "pop"
  <2>1. p[3] \in 0 .. 7
    BY <1>18, PrimitiveParts
  <2>2. Encoded(p) = pop(p[3])
    BY <1>18 DEF Encoded
  <2>3. Meant(p) = <<Direct("pop", p[3], 0, 0)>>
    BY <1>18 DEF Meant
  <2> QED
    BY <2>1, <2>2, <2>3, StackRead, OneIsRead
<1>19. CASE p[1] = "ret"
  <2>1. Encoded(p) = ret
    BY <1>19 DEF Encoded
  <2>2. Meant(p) = <<Direct("ret", 0, 0, 0)>>
    BY <1>19 DEF Meant
  <2> QED
    BY <2>1, <2>2, ReturnRead, OneIsRead
<1> QED
  BY <1>2, <1>3, <1>4, <1>5, <1>6, <1>7, <1>8, <1>9, <1>10, <1>11, <1>12, <1>13, <1>14,
     <1>15, <1>16, <1>17, <1>18, <1>19, PrimitiveParts

-----------------------------------------------------------------------------
(* Every address of some code                                              *)

\* Whatever is found at an address ends after it.
EndsAfter(i, at) ==
    \E op, o, imm : \E end \in Nat : end > at /\ i = Instruction(op, o, imm, end)

LEMMA InstructionEndsAfter ==
    ASSUME NEW op, NEW o, NEW imm, NEW at \in Nat, NEW end \in Nat, end > at
    PROVE  EndsAfter(Instruction(op, o, imm, end), at)
  BY DEF EndsAfter

LEMMA OperandsEnd ==
    ASSUME NEW c, NEW at \in Nat, NEW rex \in Int
    PROVE  OperandsAt(c, at, rex).end \in Nat /\ OperandsAt(c, at, rex).end > at
<1> DEFINE o == OperandsAt(c, at, rex)
           mod == c[at] \div 64
           sib == mod # 3 /\ c[at] % 8 = 4
           base == IF sib THEN c[at + 1] % 8 ELSE c[at] % 8
           q == IF sib THEN at + 2 ELSE at + 1
<1>1. o.end = CASE mod = 1 -> q + 1
                [] mod = 2 \/ (mod = 0 /\ base = 5) -> q + 4
                [] OTHER -> q
  BY Zenon DEF OperandsAt
<1> HIDE DEF o, mod, base
<1>2. o.end \in {q, q + 1, q + 4}
  BY <1>1
<1>3. q \in Nat /\ q > at
  OBVIOUS
<1> QED
  BY <1>2, <1>3 DEF o

LEMMA OpcodeEnds ==
    ASSUME NEW c, NEW at \in Nat, NEW rex \in Int, NEW prefixed \in BOOLEAN
    PROVE  EndsAfter(DecodeOpcode(c, at, rex, prefixed), at)
<1> DEFINE operands == OperandsAt(c, at + 1, rex)
           set == OperandsAt(c, at + 2, rex)
<1>1. /\ operands.end \in Nat /\ operands.end > at /\ set.end \in Nat /\ set.end > at
  <2>1. at + 1 \in Nat /\ at + 2 \in Nat
    OBVIOUS
  <2>2. /\ operands.end \in Nat /\ operands.end > at + 1
        /\ set.end \in Nat /\ set.end > at + 2
    BY <2>1, OperandsEnd
  <2> QED
    BY <2>2
<1> HIDE DEF operands, set
<1>2. /\ at + 1 \in Nat /\ at + 1 > at /\ at + 9 \in Nat /\ at + 9 > at
      /\ at + 5 \in Nat /\ at + 5 > at /\ at + 6 \in Nat /\ at + 6 > at
  OBVIOUS
<1>3. /\ operands.end + 1 \in Nat /\ operands.end + 1 > at
      /\ operands.end + 4 \in Nat /\ operands.end + 4 > at
  BY <1>1
<1> QED
  BY <1>1, <1>2, <1>3, InstructionEndsAfter DEF DecodeOpcode, operands, set

LEMMA DecodeEnds ==
    ASSUME NEW c, NEW at \in Nat, c[at] \in Int
    PROVE  EndsAfter(Decode(c, at), at)
<1>1. EndsAfter(DecodeOpcode(c, at, \h40, FALSE), at)
  <2>1. PICK rex \in Int : rex = \h40
    OBVIOUS
  <2>2. EndsAfter(DecodeOpcode(c, at, rex, FALSE), at)
    BY OpcodeEnds
  <2> QED
    BY <2>1, <2>2
<1>2. EndsAfter(DecodeOpcode(c, at + 1, c[at], TRUE), at)
  <2>1. PICK rex \in Int, next \in Nat : rex = c[at] /\ next = at + 1
    OBVIOUS
  <2>2. EndsAfter(DecodeOpcode(c, next, rex, TRUE), next)
    BY OpcodeEnds
  <2>3. \A end \in Nat : end > next => end > at
    BY <2>1
  <2> QED
    BY <2>1, <2>2, <2>3 DEF EndsAfter
<1> QED
  BY <1>1, <1>2 DEF Decode

\* What follows the code is not part of it.
LEMMA PaddedHolds ==
    ASSUME NEW bytes \in Seq(Int)
    PROVE  /\ \A i \in 1 .. Len(bytes) : Padded(bytes)[i] = bytes[i] /\ Padded(bytes)[i] \in Int
           /\ \A p \in Nat, s \in Seq(Int) :
                 Holds(bytes, p, s) /\ p + Len(s) <= Len(bytes) => Holds(Padded(bytes), p, s)
<1> DEFINE zeros == [n \in 1 .. 16 |-> 0]
<1>1. zeros \in Seq(Int)
  OBVIOUS
<1>2. \A i \in 1 .. Len(bytes) + Len(zeros) :
         (bytes \o zeros)[i] = IF i <= Len(bytes) THEN bytes[i] ELSE zeros[i - Len(bytes)]
  BY <1>1, ConcatProperties
<1>3. Padded(bytes) = bytes \o zeros
  BY DEF Padded
<1>4. Len(zeros) = 16 /\ Len(bytes) \in Nat
  OBVIOUS
<1> HIDE DEF zeros
<1>5. \A i \in 1 .. Len(bytes) : Padded(bytes)[i] = bytes[i] /\ Padded(bytes)[i] \in Int
  BY <1>2, <1>3, <1>4
<1>6. ASSUME NEW p \in Nat, NEW s \in Seq(Int), Holds(bytes, p, s), p + Len(s) <= Len(bytes)
      PROVE  Holds(Padded(bytes), p, s)
  <2> SUFFICES ASSUME NEW j \in 1 .. Len(s) PROVE Padded(bytes)[p + j] = s[j]
    BY DEF Holds
  <2>1. p + j \in 1 .. Len(bytes)
    BY <1>4, <1>6
  <2>2. bytes[p + j] = s[j]
    BY <1>6 DEF Holds
  <2> QED
    BY <1>5, <2>1, <2>2
<1> QED
  BY <1>5, <1>6

\* What the processor finds at an address of some code.
LEMMA DisassembledAt ==
    ASSUME NEW bytes \in Seq(Int), NEW p \in 0 .. Len(bytes) - 1
    PROVE  LET i == Disassembled(bytes)[p] IN
           /\ i.end \in Nat /\ i.end > p
           /\ AsMeant(i) = AsMeant(Decode(Padded(bytes), p + 1))
           /\ i.end = Decode(Padded(bytes), p + 1).end - 1
<1> DEFINE c == Padded(bytes)
           i == Disassembled(bytes)[p]
<1>1. p + 1 \in Nat /\ p + 1 \in 1 .. Len(bytes) /\ p \in Nat
  OBVIOUS
<1>2. c[p + 1] \in Int
  BY <1>1, PaddedHolds
<1>3. i = [Decode(c, p + 1) EXCEPT !.end = @ - 1]
  BY DEF Disassembled, InstructionsOf
<1>4. EndsAfter(Decode(c, p + 1), p + 1)
  BY <1>1, <1>2, DecodeEnds
<1> HIDE DEF c, i
<1>5. PICK op, o, imm : \E end \in Nat :
         end > p + 1 /\ Decode(c, p + 1) = Instruction(op, o, imm, end)
  BY <1>4 DEF EndsAfter
<1>6. PICK end \in Nat : end > p + 1 /\ Decode(c, p + 1) = Instruction(op, o, imm, end)
  BY <1>5
<1>7. Decode(c, p + 1) = [op |-> op, reg |-> o.reg, rm |-> o, imm |-> imm, end |-> end]
  BY <1>6 DEF Instruction
<1>8. i = [op |-> op, reg |-> o.reg, rm |-> o, imm |-> imm, end |-> end - 1]
  BY <1>3, <1>7
<1>9. end - 1 \in Nat /\ end - 1 > p
  BY <1>1, <1>6
<1>10. AsMeant(i) = AsMeant(Decode(c, p + 1))
  BY <1>7, <1>8 DEF AsMeant
<1> QED
  BY <1>7, <1>8, <1>9, <1>10 DEF c, i

\* An instruction found by a processor, in the code.
LEMMA ReadInCode ==
    ASSUME NEW bytes \in Seq(Int), NEW p \in 0 .. Len(bytes) - 1, NEW n \in Nat, NEW meant,
           Reads(Padded(bytes), p, n, meant)
    PROVE  AsMeant(Disassembled(bytes)[p]) = meant /\ Disassembled(bytes)[p].end = p + n
<1>1. p \in Nat /\ p + n + 1 - 1 = p + n
  OBVIOUS
<1>2. /\ AsMeant(Decode(Padded(bytes), p + 1)) = meant
      /\ Decode(Padded(bytes), p + 1).end = p + n + 1
  BY DEF Reads, IsInstruction
<1>3. /\ AsMeant(Disassembled(bytes)[p]) = AsMeant(Decode(Padded(bytes), p + 1))
      /\ Disassembled(bytes)[p].end = Decode(Padded(bytes), p + 1).end - 1
  BY DisassembledAt
<1> QED
  BY <1>1, <1>2, <1>3

-----------------------------------------------------------------------------
(* The instructions from an address on, and the primitives in a row        *)

\* The function that ReadAll() defines.
ReadStep(f, program, size, p) ==
    IF p = size THEN <<>>
    ELSE IF program[p].end > size THEN <<"truncated">>
    ELSE <<AsMeant(program[p])>> \o f[program[p].end]

LEMMA ReadAllIs ==
    ASSUME NEW program, NEW size \in Nat,
           \A p \in 0 .. size - 1 : program[p].end \in Nat /\ program[p].end > p
    PROVE  \E f : /\ f = [p \in 0 .. size |-> ReadStep(f, program, size, p)]
                  /\ ReadAll(program, size) = f[0]
<1> DEFINE D(m) == {p \in 0 .. size : size - p <= m}
           Total == {m \in Nat : \E f : f = [p \in D(m) |-> ReadStep(f, program, size, p)]}
<1>1. 0 \in Total
  <2> DEFINE f == [p \in D(0) |-> <<>>]
  <2>1. \A p \in D(0) : p = size
    OBVIOUS
  <2>2. f = [p \in D(0) |-> ReadStep(f, program, size, p)]
    BY <2>1 DEF ReadStep
  <2> QED
    BY <2>2
<1>2. ASSUME NEW m \in Total PROVE m + 1 \in Total
  <2>1. PICK f : f = [p \in D(m) |-> ReadStep(f, program, size, p)]
    OBVIOUS
  <2>2. m \in Nat
    OBVIOUS
  <2> DEFINE h == [p \in D(m + 1) |-> ReadStep(f, program, size, p)]
  <2>3. \A p \in D(m) : p \in D(m + 1) /\ h[p] = f[p]
    <3>1. \A p \in D(m) : p \in D(m + 1)
      BY <2>2
    <3>2. \A p \in D(m) : f[p] = ReadStep(f, program, size, p)
      BY <2>1
    <3> HIDE DEF D
    <3> QED
      BY <3>1, <3>2
  <2>4. ASSUME NEW p \in D(m + 1)
        PROVE  ReadStep(f, program, size, p) = ReadStep(h, program, size, p)
    <3>1. CASE p = size \/ program[p].end > size
      BY <3>1 DEF ReadStep
    <3>2. CASE ~ (p = size \/ program[p].end > size)
      <4>1. p \in 0 .. size - 1 /\ size - p <= m + 1
        BY <3>2
      <4>2. PICK end \in Nat : end = program[p].end /\ end > p /\ end <= size
        BY <3>2, <4>1
      <4>3. end \in D(m)
        BY <2>2, <4>1, <4>2
      <4> HIDE DEF D, h
      <4>4. h[end] = f[end]
        BY <2>3, <4>3
      <4> QED
        BY <3>2, <4>2, <4>4 DEF ReadStep
    <3> QED
      BY <3>1, <3>2
  <2>5. h = [p \in D(m + 1) |-> ReadStep(h, program, size, p)]
    <3> HIDE DEF D
    <3> QED
      BY <2>4
  <2> HIDE DEF h, D
  <2> QED
    BY <2>2, <2>5
<1>3. \E f : f = [p \in 0 .. size |-> ReadStep(f, program, size, p)]
  <2>1. Total = Nat
    <3> HIDE DEF Total
    <3>1. Total \in SUBSET Nat
      BY DEF Total
    <3> QED
      BY <1>1, <1>2, <3>1, SetInduction
  <2>2. D(size) = 0 .. size
    OBVIOUS
  <2>3. size \in Total
    BY <2>1
  <2> HIDE DEF D
  <2> QED
    BY <2>2, <2>3
<1>4. (\E f : f = [p \in 0 .. size |-> ReadStep(f, program, size, p)])
      => \E f : /\ f = [p \in 0 .. size |-> ReadStep(f, program, size, p)]
                /\ ReadAll(program, size) = f[0]
  BY DEF ReadAll, ReadStep
<1> QED
  BY <1>3, <1>4

-----------------------------------------------------------------------------
(* The primitives emitted so far                                           *)

\* Each primitive has its bytes where the one before it ends; the code ends
\* with the last of them.
InARow(starts) ==
    /\ starts \in [1 .. Len(emitted) + 1 -> 0 .. Len(code)]
    /\ starts[1] = 0 /\ starts[Len(emitted) + 1] = Len(code)
    /\ \A k \in 1 .. Len(emitted) :
          /\ starts[k + 1] = starts[k] + Len(Encoded(emitted[k]))
          /\ Holds(code, starts[k], Encoded(emitted[k]))

EncodingInv ==
    /\ emitted \in Seq(Primitives) /\ code \in Seq(Int)
    /\ \E starts : InARow(starts)

LEMMA EncodedBytes ==
    ASSUME NEW p \in Primitives
    PROVE  Encoded(p) \in Seq(Int) /\ Len(Encoded(p)) \in Nat /\ Len(Encoded(p)) > 0
<1>1. Encoded(p) \in Seq(Int) /\ Len(Encoded(p)) > 0
  BY PrimitiveIsRead DEF IsReadAnywhere
<1> QED
  BY <1>1

LEMMA InitEncoding == Init => EncodingInv
<1> SUFFICES ASSUME Init PROVE EncodingInv
  OBVIOUS
<1> DEFINE starts == [k \in 1 .. 1 |-> 0]
<1>1. emitted = <<>> /\ code = <<>> /\ Len(emitted) = 0 /\ Len(code) = 0
  BY DEF Init
<1>2. InARow(starts)
  BY <1>1 DEF InARow
<1> QED
  BY <1>1, <1>2 DEF EncodingInv

LEMMA EmitKeepsRow ==
    ASSUME EncodingInv, NEW p \in Primitives,
           emitted' = Append(emitted, p), code' = code \o Encoded(p)
    PROVE  EncodingInv'
<1> DEFINE bytes == Encoded(p)
           n == Len(emitted)
           size == Len(code)
<1>1. emitted \in Seq(Primitives) /\ code \in Seq(Int) /\ n \in Nat /\ size \in Nat
  BY DEF EncodingInv
<1>2. PICK starts : InARow(starts)
  BY DEF EncodingInv
<1>3. /\ starts \in [1 .. n + 1 -> 0 .. size]
      /\ starts[1] = 0 /\ starts[n + 1] = size
      /\ \A k \in 1 .. n : /\ starts[k + 1] = starts[k] + Len(Encoded(emitted[k]))
                           /\ Holds(code, starts[k], Encoded(emitted[k]))
  BY <1>2 DEF InARow
<1>4. bytes \in Seq(Int) /\ Len(bytes) \in Nat /\ Len(bytes) > 0
  BY EncodedBytes
<1>5. /\ emitted' \in Seq(Primitives) /\ Len(emitted') = n + 1 /\ emitted'[n + 1] = p
      /\ \A k \in 1 .. n : emitted'[k] = emitted[k]
  BY <1>1
<1> HIDE DEF bytes, n, size
<1>6. code' = code \o bytes
  BY DEF bytes
<1>7. code' \in Seq(Int) /\ Len(code') = size + Len(bytes)
  BY <1>1, <1>4, <1>6, ConcatProperties DEF size
<1>8. \A i \in 1 .. size : code'[i] = code[i]
  <2>1. \A i \in 1 .. Len(code) + Len(bytes) :
           (code \o bytes)[i] = IF i <= Len(code) THEN code[i] ELSE bytes[i - Len(code)]
    BY <1>1, <1>4, ConcatProperties
  <2> QED
    BY <1>1, <1>4, <1>6, <2>1 DEF size
<1>9. Holds(code', size, bytes)
  <2>1. \A c : \A q \in Int :
           Holds(c, q, code \o bytes) <=> Holds(c, q, code) /\ Holds(c, q + Len(code), bytes)
    BY <1>1, <1>4, HoldsParts
  <2>2. Holds(code', 0, code')
    <3> SUFFICES ASSUME NEW j \in 1 .. Len(code') PROVE code'[0 + j] = code'[j]
      BY DEF Holds
    <3>1. 0 + j = j
      BY <1>1, <1>4, <1>7
    <3> QED
      BY <3>1
  <2>3. 0 + Len(code) = size
    BY <1>1 DEF size
  <2>4. Holds(code', 0, code \o bytes)
    BY <1>6, <2>2
  <2>5. Holds(code', 0 + Len(code), bytes)
    BY <2>1, <2>4
  <2> QED
    BY <2>3, <2>5
<1> DEFINE next == [k \in 1 .. n + 2 |-> IF k = n + 2 THEN size + Len(bytes) ELSE starts[k]]
<1>10. /\ next \in [1 .. n + 2 -> 0 .. size + Len(bytes)]
       /\ next[1] = 0 /\ next[n + 2] = size + Len(bytes)
       /\ \A k \in 1 .. n + 1 : next[k] = starts[k]
  <2>1. \A k \in 1 .. n + 2 : k # n + 2 => k \in 1 .. n + 1
    BY <1>1
  <2>2. \A k \in 1 .. n + 1 : k \in 1 .. n + 2 /\ k # n + 2
    BY <1>1
  <2>3. 1 \in 1 .. n + 1 /\ n + 2 \in 1 .. n + 2
    BY <1>1
  <2>4. \A k \in 1 .. n + 1 : starts[k] \in 0 .. size + Len(bytes)
    BY <1>1, <1>3, <1>4
  <2>5. size + Len(bytes) \in 0 .. size + Len(bytes)
    BY <1>1, <1>4
  <2>6. \A k \in 1 .. n + 1 : next[k] = starts[k]
    BY <2>2
  <2>7. \A k \in 1 .. n + 2 :
           (IF k = n + 2 THEN size + Len(bytes) ELSE starts[k]) \in 0 .. size + Len(bytes)
    BY <2>1, <2>4, <2>5
  <2> QED
    BY <1>3, <2>3, <2>6, <2>7
<1> HIDE DEF next
<1>11. ASSUME NEW k \in 1 .. n + 1
       PROVE  /\ next[k + 1] = next[k] + Len(Encoded(emitted'[k]))
              /\ Holds(code', next[k], Encoded(emitted'[k]))
  <2>1. CASE k = n + 1
    <3>1. emitted'[k] = p /\ next[k] = size /\ next[k + 1] = size + Len(bytes)
      <4>1. k + 1 = n + 2
        BY <1>1, <2>1
      <4> QED
        BY <1>3, <1>5, <1>10, <2>1, <4>1
    <3> QED
      BY <1>9, <3>1 DEF bytes
  <2>2. CASE k # n + 1
    <3>1. k \in 1 .. n /\ k + 1 \in 1 .. n + 1
      BY <1>1, <2>2
    <3>2. emitted'[k] = emitted[k] /\ next[k] = starts[k] /\ next[k + 1] = starts[k + 1]
      BY <1>5, <1>10, <3>1
    <3>3. PICK s : s = Encoded(emitted[k])
      OBVIOUS
    <3>4. s \in Seq(Int)
      <4>1. emitted[k] \in Primitives
        BY <1>1, <3>1 DEF n
      <4> QED
        BY <3>3, <4>1, EncodedBytes
    <3>5. /\ starts[k + 1] = starts[k] + Len(s) /\ Holds(code, starts[k], s)
          /\ starts[k] \in Nat /\ starts[k + 1] <= size /\ Len(s) \in Nat
      BY <1>1, <1>3, <3>1, <3>3, <3>4
    <3>6. Holds(code', starts[k], s)
      <4> SUFFICES ASSUME NEW j \in 1 .. Len(s) PROVE code'[starts[k] + j] = s[j]
        BY DEF Holds
      <4>1. starts[k] + j \in 1 .. size
        BY <1>1, <3>5
      <4>2. code[starts[k] + j] = s[j]
        BY <3>5 DEF Holds
      <4> QED
        BY <1>8, <4>1, <4>2
    <3> QED
      BY <3>2, <3>3, <3>5, <3>6
  <2> QED
    BY <2>1, <2>2
<1>12. n + 1 + 1 = n + 2
  BY <1>1
<1>13. PICK row : row = next
  OBVIOUS
<1>14. InARow(row)'
  BY <1>5, <1>7, <1>10, <1>11, <1>12, <1>13 DEF InARow
<1> QED
  BY <1>5, <1>7, <1>14 DEF EncodingInv

LEMMA EncodingInvHolds == Spec => []EncodingInv
<1>1. EncodingInv /\ [Next]_vars => EncodingInv'
  <2> SUFFICES ASSUME EncodingInv, [Next]_vars PROVE EncodingInv'
    OBVIOUS
  <2>1. CASE UNCHANGED vars
    BY <2>1 DEF vars, EncodingInv, InARow
  <2>2. CASE Next
    <3>1. PICK p \in IF emitted = <<>> THEN Primitives ELSE Followers :
             emitted' = Append(emitted, p) /\ code' = code \o Encoded(p)
      BY <2>2 DEF Next, EmitPrimitive
    <3>2. p \in Primitives
      BY <3>1, EncodingAssumption
    <3> QED
      BY <3>1, <3>2, EmitKeepsRow
  <2> QED
    BY <2>1, <2>2
<1> QED
  BY <1>1, InitEncoding, PTL DEF Spec

\* What is read of a primitive, in the function that ReadAll() defines.
IsReading(f, bytes, T) ==
    /\ f \in [0 .. Len(bytes) -> Seq(T)]
    /\ \A q \in 0 .. Len(bytes) : f[q] = ReadStep(f, Disassembled(bytes), Len(bytes), q)

LEMMA ReadPrimitive ==
    ASSUME NEW bytes \in Seq(Int), NEW T, NEW f, IsReading(f, bytes, T), NEW encoding,
           NEW meant \in Seq(T), IsReadAnywhere(encoding, meant),
           NEW p \in Nat, p + Len(encoding) <= Len(bytes), Holds(bytes, p, encoding)
    PROVE  f[p] = meant \o f[p + Len(encoding)]
<1> DEFINE size == Len(bytes)
           D == Disassembled(bytes)
           n == Len(encoding)
<1>1. encoding \in Seq(Int) /\ n \in Nat /\ n > 0 /\ size \in Nat /\ p + n <= size
  BY DEF IsReadAnywhere
<1>2. \A q \in 0 .. size : f[q] \in Seq(T) /\ f[q] = ReadStep(f, D, size, q)
  BY DEF IsReading
<1>3. ASSUME NEW q \in Nat, NEW m \in Nat, NEW i, m > 0, q + m <= size,
             Reads(Padded(bytes), q, m, i)
      PROVE  f[q] = <<i>> \o f[q + m]
  <2>1. q \in 0 .. size - 1 /\ q \in 0 .. size /\ q # size
    BY <1>1, <1>3
  <2>2. AsMeant(D[q]) = i /\ D[q].end = q + m
    BY <1>3, <2>1, ReadInCode
  <2>3. f[q] = ReadStep(f, D, size, q)
    BY <1>2, <2>1
  <2> HIDE DEF size, D
  <2>4. ~ (D[q].end > size)
    BY <1>1, <1>3, <2>2
  <2> QED
    BY <2>1, <2>2, <2>3, <2>4 DEF ReadStep
<1>4. IsRead(Padded(bytes), p, encoding, meant)
  BY <1>1, PaddedHolds DEF IsReadAnywhere
<1> HIDE DEF size, D, n
<1>5. CASE Len(meant) = 1 /\ Reads(Padded(bytes), p, n, meant[1])
  <2>1. f[p] = <<meant[1]>> \o f[p + n]
    BY <1>1, <1>3, <1>5
  <2>2. <<meant[1]>> = meant
    BY <1>5
  <2> QED
    BY <2>1, <2>2 DEF n
<1>6. CASE /\ Len(meant) = 2 /\ n > 10
           /\ Reads(Padded(bytes), p, 10, meant[1]) /\ Reads(Padded(bytes), p + 10, n - 10, meant[2])
  <2>1. p + 10 \in Nat /\ n - 10 \in Nat /\ n - 10 > 0 /\ p + 10 + (n - 10) = p + n
        /\ p + 10 <= size
    BY <1>1, <1>6
  <2>2. f[p] = <<meant[1]>> \o f[p + 10]
    <3>1. 10 \in Nat /\ 10 > 0
      OBVIOUS
    <3> QED
      BY <1>3, <1>6, <2>1, <3>1
  <2>3. f[p + 10] = <<meant[2]>> \o f[p + n]
    <3>1. PICK q \in Nat, m \in Nat : q = p + 10 /\ m = n - 10 /\ m > 0 /\ q + m = p + n
      BY <2>1
    <3>2. q + m <= size /\ Reads(Padded(bytes), q, m, meant[2])
      BY <1>1, <1>6, <3>1
    <3>3. f[q] = <<meant[2]>> \o f[q + m]
      BY <1>3, <3>1, <3>2
    <3> QED
      BY <3>1, <3>3
  <2>4. meant[1] \in T /\ meant[2] \in T /\ f[p + n] \in Seq(T)
    <3>1. p + n \in 0 .. size
      BY <1>1
    <3>2. f[p + n] \in Seq(T)
      BY <1>2, <3>1
    <3>3. meant[1] \in T /\ meant[2] \in T
      <4>1. Len(meant) = 2
        BY <1>6
      <4>2. \A i \in 1 .. Len(meant) : meant[i] \in T
        OBVIOUS
      <4>3. 1 \in 1 .. 2 /\ 2 \in 1 .. 2
        OBVIOUS
      <4> QED
        BY <4>1, <4>2, <4>3
    <3> QED
      BY <3>2, <3>3
  <2> DEFINE a == <<meant[1]>>
             b == <<meant[2]>>
             rest == f[p + n]
  <2>5. a \in Seq(T) /\ b \in Seq(T) /\ rest \in Seq(T)
    BY <2>4
  <2>6. a \o b = meant
    <3>1. Len(a) = 1 /\ Len(b) = 1 /\ a[1] = meant[1] /\ b[1] = meant[2]
      OBVIOUS
    <3> HIDE DEF a, b
    <3>2. /\ a \o b \in Seq(T) /\ Len(a \o b) = Len(a) + Len(b)
          /\ \A i \in 1 .. Len(a) + Len(b) :
                (a \o b)[i] = IF i <= Len(a) THEN a[i] ELSE b[i - Len(a)]
      BY <2>5, ConcatProperties
    <3>3. Len(a \o b) = 2
      BY <3>1, <3>2
    <3>4. \A i \in 1 .. 2 : (a \o b)[i] = meant[i]
      BY <3>1, <3>2
    <3>5. Len(a \o b) = Len(meant) /\ \A i \in 1 .. Len(a \o b) : (a \o b)[i] = meant[i]
      BY <1>6, <3>3, <3>4
    <3> QED
      BY <3>2, <3>5, SeqEqual
  <2> HIDE DEF a, b, rest
  <2>7. (a \o b) \o rest = a \o (b \o rest)
    BY <2>5, ConcatAssociative
  <2>8. f[p] = a \o (b \o rest)
    BY <2>2, <2>3 DEF a, b, rest
  <2> QED
    BY <2>6, <2>7, <2>8 DEF rest, n
<1> QED
  BY <1>4, <1>5, <1>6 DEF IsRead, n

\* What is meant by a primitive is instructions of the processor.
LEMMA MeantIsSequence ==
    ASSUME NEW p \in Primitives, NEW T, \A i \in DOMAIN Meant(p) : Meant(p)[i] \in T
    PROVE  Meant(p) \in Seq(T)
<1>1. ASSUME NEW i, Meant(p) = <<i>> PROVE Meant(p) \in Seq(T)
  BY <1>1
<1>2. ASSUME NEW i, NEW j, Meant(p) = <<i, j>> PROVE Meant(p) \in Seq(T)
  BY <1>2
<1>3. (\E i : Meant(p) = <<i>>) \/ (\E i, j : Meant(p) = <<i, j>>)
  BY PrimitiveParts DEF Meant
<1> QED
  BY <1>1, <1>2, <1>3

\* Whatever the bytes are, reading them gives a sequence.
LEMMA ReadingIs ==
    ASSUME NEW bytes \in Seq(Int), NEW T, "truncated" \in T,
           \A q \in 0 .. Len(bytes) - 1 : AsMeant(Disassembled(bytes)[q]) \in T
    PROVE  \E f : IsReading(f, bytes, T) /\ ReadAll(Disassembled(bytes), Len(bytes)) = f[0]
<1> DEFINE D == Disassembled(bytes)
           size == Len(bytes)
<1>1. size \in Nat
  OBVIOUS
<1>2. \A q \in 0 .. size - 1 : D[q].end \in Nat /\ D[q].end > q
  BY DisassembledAt
<1>3. \A q \in 0 .. size - 1 : AsMeant(D[q]) \in T
  OBVIOUS
<1> HIDE DEF D, size
<1>4. PICK f : /\ f = [p \in 0 .. size |-> ReadStep(f, D, size, p)]
               /\ ReadAll(D, size) = f[0]
  BY <1>1, <1>2, ReadAllIs
<1>5. \A q \in 0 .. size : f[q] = ReadStep(f, D, size, q)
  BY <1>4
<1>6. DOMAIN f = 0 .. size
  BY <1>4
<1> DEFINE Typed == {m \in Nat : \A q \in 0 .. size : size - q <= m => f[q] \in Seq(T)}
<1>7. 0 \in Typed
  <2> SUFFICES ASSUME NEW q \in 0 .. size, size - q <= 0 PROVE f[q] \in Seq(T)
    OBVIOUS
  <2>1. q = size
    BY <1>1
  <2>2. f[q] = <<>>
    BY <1>5, <2>1 DEF ReadStep
  <2> QED
    BY <2>2
<1>8. ASSUME NEW m \in Typed PROVE m + 1 \in Typed
  <2>1. m \in Nat /\ m + 1 \in Nat
    OBVIOUS
  <2> SUFFICES ASSUME NEW q \in 0 .. size, size - q <= m + 1 PROVE f[q] \in Seq(T)
    BY <2>1
  <2>2. f[q] = ReadStep(f, D, size, q)
    BY <1>5
  <2>3. CASE q = size
    <3>1. f[q] = <<>>
      BY <2>2, <2>3 DEF ReadStep
    <3> QED
      BY <3>1
  <2>4. CASE q # size /\ D[q].end > size
    <3>1. f[q] = <<"truncated">>
      BY <2>2, <2>4 DEF ReadStep
    <3> QED
      BY <3>1
  <2>5. CASE q # size /\ ~ (D[q].end > size)
    <3>1. q \in 0 .. size - 1
      BY <1>1, <2>5
    <3>2. PICK end \in Nat : end = D[q].end /\ end > q
      BY <1>2, <3>1
    <3>3. end \in 0 .. size /\ size - end <= m
      BY <1>1, <2>1, <2>5, <3>1, <3>2
    <3>4. f[end] \in Seq(T)
      BY <3>3
    <3>5. PICK i \in T : i = AsMeant(D[q])
      BY <1>3, <3>1
    <3>6. f[q] = <<i>> \o f[end]
      BY <2>2, <2>5, <3>2, <3>5 DEF ReadStep
    <3>7. <<i>> \in Seq(T)
      OBVIOUS
    <3> QED
      BY <3>4, <3>6, <3>7, ConcatProperties
  <2> QED
    BY <2>3, <2>4, <2>5
<1>9. size \in Typed
  <2>1. Typed = Nat
    <3>1. Typed \in SUBSET Nat
      OBVIOUS
    <3> HIDE DEF Typed
    <3> QED
      BY <1>7, <1>8, <3>1, SetInduction
  <2> HIDE DEF Typed
  <2> QED
    BY <1>1, <2>1
<1>10. \A q \in 0 .. size : f[q] \in Seq(T)
  BY <1>1, <1>9
<1>11. f \in [0 .. size -> Seq(T)]
  <2>1. f = [q \in 0 .. size |-> f[q]]
    BY <1>4
  <2> QED
    BY <1>10, <2>1
<1>12. IsReading(f, bytes, T)
  BY <1>5, <1>11 DEF IsReading, size, D
<1> QED
  BY <1>4, <1>12 DEF size, D

-----------------------------------------------------------------------------
(* The code is what was meant                                              *)

LEMMA RowIsRead ==
    ASSUME EncodingInv, code # <<>>
    PROVE  ReadAll(Disassembled(code), Len(code))
           = FlattenSeq([k \in DOMAIN emitted |-> Meant(emitted[k])])
<1> DEFINE n == Len(emitted)
           size == Len(code)
           seqs == [k \in DOMAIN emitted |-> Meant(emitted[k])]
           M(k) == Meant(emitted[k])
           T == {"truncated"} \cup {AsMeant(Disassembled(code)[q]) : q \in 0 .. Len(code) - 1}
                \cup UNION {{Meant(emitted[k])[i] : i \in DOMAIN Meant(emitted[k])} :
                            k \in 1 .. Len(emitted)}
<1>1. emitted \in Seq(Primitives) /\ code \in Seq(Int) /\ n \in Nat /\ size \in Nat
      /\ DOMAIN emitted = 1 .. n
  BY DEF EncodingInv
<1>2. PICK starts : InARow(starts)
  BY DEF EncodingInv
<1>3. \A k \in 1 .. n : emitted[k] \in Primitives
  BY <1>1
<1>4. n > 0
  <2>1. size # 0
    BY <1>1
  <2> QED
    BY <1>1, <1>2, <2>1 DEF InARow
<1>5. PICK f : IsReading(f, code, T) /\ ReadAll(Disassembled(code), size) = f[0]
  <2>1. "truncated" \in T
    OBVIOUS
  <2>2. \A q \in 0 .. Len(code) - 1 : AsMeant(Disassembled(code)[q]) \in T
    OBVIOUS
  <2>3. code \in Seq(Int)
    BY <1>1
  <2> HIDE DEF T
  <2> QED
    BY <2>1, <2>2, <2>3, ReadingIs
<1>6. \A k \in 1 .. n : M(k) \in Seq(T)
  <2> SUFFICES ASSUME NEW k \in 1 .. n PROVE M(k) \in Seq(T)
    OBVIOUS
  <2>1. emitted[k] \in Primitives
    BY <1>3
  <2>2. \A i \in DOMAIN Meant(emitted[k]) : Meant(emitted[k])[i] \in T
    OBVIOUS
  <2> HIDE DEF T
  <2> QED
    BY <2>1, <2>2, MeantIsSequence
<1> HIDE DEF T
<1>7. PICK g : g = [i \in 1 .. n |-> FlattenStep(g, seqs, i)] /\ FlattenSeq(seqs) = g[n]
  <2>1. Len(seqs) = n
    BY <1>1
  <2> HIDE DEF seqs, n
  <2> QED
    BY <1>1, <1>4, <2>1, FlattenSeqIs
<1>8. /\ starts \in [1 .. n + 1 -> 0 .. size] /\ starts[1] = 0 /\ starts[n + 1] = size
      /\ \A k \in 1 .. n : /\ starts[k + 1] = starts[k] + Len(Encoded(emitted[k]))
                           /\ Holds(code, starts[k], Encoded(emitted[k]))
  BY <1>2 DEF InARow
<1>9. ASSUME NEW k \in 1 .. n
      PROVE  f[starts[k]] = M(k) \o f[starts[k + 1]]
  <2> DEFINE bytes == Encoded(emitted[k])
  <2>1. IsReadAnywhere(bytes, M(k))
    BY <1>3, PrimitiveIsRead
  <2>2. starts[k + 1] = starts[k] + Len(bytes) /\ Holds(code, starts[k], bytes)
    BY <1>8
  <2>3. k \in 1 .. n + 1 /\ k + 1 \in 1 .. n + 1
    BY <1>1
  <2> HIDE DEF n
  <2>4. starts[k] \in 0 .. size /\ starts[k + 1] \in 0 .. size
    BY <1>8, <2>3
  <2>5. PICK p \in Nat : p = starts[k]
    BY <1>1, <2>4
  <2>6. PICK meant \in Seq(T) : meant = M(k)
    BY <1>6
  <2>7. p + Len(bytes) <= Len(code)
    BY <2>2, <2>4, <2>5
  <2> HIDE DEF bytes, M
  <2>8. f[p] = meant \o f[p + Len(bytes)]
    <3>1. Holds(code, p, bytes) /\ IsReadAnywhere(bytes, meant) /\ code \in Seq(Int)
      BY <1>1, <2>1, <2>2, <2>5, <2>6
    <3> QED
      BY <1>5, <2>7, <3>1, ReadPrimitive
  <2> QED
    BY <2>2, <2>5, <2>6, <2>8
<1>10. \A k \in 1 .. n : seqs[k] = M(k)
  BY <1>1
<1>11. \A k \in 1 .. n : g[k] = FlattenStep(g, seqs, k)
  BY <1>7
<1>12. \A q \in 0 .. size : f[q] \in Seq(T)
  BY <1>5 DEF IsReading
<1> HIDE DEF n, size, seqs, M
<1> DEFINE Joined == {k \in Nat : k + 1 <= n =>
                        g[k + 1] \in Seq(T) /\ f[0] = g[k + 1] \o f[starts[k + 2]]}
<1>13. 0 \in Joined
  <2>1. 1 \in 1 .. n
    BY <1>1, <1>4
  <2>2. g[1] = M(1)
    BY <1>10, <1>11, <2>1 DEF FlattenStep
  <2>3. f[starts[1]] = M(1) \o f[starts[1 + 1]]
    BY <1>9, <2>1
  <2>4. g[1] \in Seq(T) /\ f[0] = g[1] \o f[starts[2]]
    BY <1>6, <1>8, <2>1, <2>2, <2>3
  <2>5. 0 + 1 = 1 /\ 0 + 2 = 2 /\ 0 \in Nat
    OBVIOUS
  <2> QED
    BY <2>4, <2>5
<1>14. ASSUME NEW k \in Joined PROVE k + 1 \in Joined
  <2> SUFFICES ASSUME k + 2 <= n
               PROVE  g[k + 2] \in Seq(T) /\ f[0] = g[k + 2] \o f[starts[k + 3]]
    <3>1. k \in Nat /\ k + 1 \in Nat /\ k + 1 + 1 = k + 2 /\ k + 1 + 2 = k + 3
      OBVIOUS
    <3> QED
      BY <3>1
  <2>1. k \in Nat /\ k + 1 <= n
    BY <1>1
  <2>2. g[k + 1] \in Seq(T) /\ f[0] = g[k + 1] \o f[starts[k + 2]]
    BY <2>1
  <2>3. PICK j \in 1 .. n : j = k + 2 /\ j - 1 = k + 1 /\ j + 1 = k + 3 /\ j # 1
    BY <1>1, <2>1
  <2>4. g[j] = g[j - 1] \o M(j)
    BY <1>10, <1>11, <2>3 DEF FlattenStep
  <2>5. f[starts[j]] = M(j) \o f[starts[j + 1]]
    BY <1>9
  <2>6. PICK a \in Seq(T) : a = g[k + 1]
    BY <2>2
  <2>7. PICK b \in Seq(T) : b = M(j)
    BY <1>6
  <2>8. PICK rest \in Seq(T) : rest = f[starts[j + 1]]
    <3>1. j + 1 \in 1 .. n + 1
      BY <1>1
    <3>2. starts[j + 1] \in 0 .. size
      BY <1>8, <3>1
    <3> QED
      BY <1>12, <3>2
  <2>9. a \o b \in Seq(T)
    BY ConcatProperties
  <2>10. (a \o b) \o rest = a \o (b \o rest)
    BY ConcatAssociative
  <2>11. g[j] = a \o b
    BY <2>3, <2>4, <2>6, <2>7
  <2>12. f[0] = a \o (b \o rest)
    BY <2>2, <2>3, <2>5, <2>6, <2>7, <2>8
  <2>13. f[0] = g[j] \o f[starts[j + 1]]
    BY <2>8, <2>10, <2>11, <2>12
  <2> QED
    BY <2>3, <2>9, <2>11, <2>13
<1>15. n - 1 \in Joined
  <2>1. Joined = Nat
    <3>1. Joined \in SUBSET Nat
      OBVIOUS
    <3> HIDE DEF Joined
    <3> QED
      BY <1>13, <1>14, <3>1, SetInduction
  <2>2. n - 1 \in Nat
    BY <1>1, <1>4
  <2> HIDE DEF Joined
  <2> QED
    BY <2>1, <2>2
<1>16. g[n] \in Seq(T) /\ f[0] = g[n] \o f[size]
  <2>1. n - 1 + 1 = n /\ n - 1 + 2 = n + 1 /\ n - 1 + 1 <= n
    BY <1>1
  <2> QED
    BY <1>8, <1>15, <2>1
<1>17. f[size] = <<>>
  <2>1. size \in 0 .. size
    BY <1>1
  <2>2. f[size] = ReadStep(f, Disassembled(code), size, size)
    BY <1>5, <2>1 DEF IsReading, size
  <2> QED
    BY <2>2 DEF ReadStep
<1>18. g[n] \o <<>> = g[n]
  BY <1>16, ConcatEmptySeq
<1>19. f[0] = g[n]
  BY <1>16, <1>17, <1>18
<1> QED
  BY <1>5, <1>7, <1>19 DEF seqs, size

\* The row of primitives of EncodingInv is read as what was meant: the JIT's
\* encodings (X64.tla: REX, ModRM, SIB, displacements and immediates) of any
\* operands, one after the other, are the instructions they stand for, and
\* none of them takes bytes of the next.
THEOREM CodeAlwaysMeant == Spec => []CodeIsWhatWasMeant
<1>1. EncodingInv => CodeIsWhatWasMeant
  BY RowIsRead DEF CodeIsWhatWasMeant
<1> QED
  BY <1>1, EncodingInvHolds, PTL
=============================================================================
