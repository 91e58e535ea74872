-------------------------------- MODULE X64 ---------------------------------
(***************************************************************************)
(* The machine code of the JIT (jit/X64Primitives.cpp.inl): how each       *)
(* primitive is encoded, byte by byte, and, as the reference, how an       *)
(* x86-64 processor decodes and executes those bytes.                      *)
(*                                                                         *)
(* A word has WordBits bits instead of 64, and the "32 bit" operands of an *)
(* instruction without a REX prefix have HalfBits.  The bytes above them   *)
(* in an immediate only repeat its sign.                                   *)
(***************************************************************************)
EXTENDS Integers, Sequences, TLC

CONSTANT StackLimit   \* addresses from here on are the stack's

ASSUME StackAssumption == StackLimit \in Nat

WordBits == 24
HalfBits == 16
Word == 0 .. 2^WordBits - 1
InWord(n) == n % 2^WordBits

----------------------------------------------------------------------------
(* Registers, and what the JIT uses them for.                              *)
rax == 0
rcx == 1
rdx == 2
rbx == 3
rsp == 4
rbp == 5
rsi == 6
rdi == 7
r8 == 8
r9 == 9
Registers == 0 .. 15

regA0 == rdi
regA1 == rsi
regA2 == rdx
regA3 == rcx
regA4 == r8
regT0 == rdi
regT1 == rsi
regT2 == rdx
regR0 == rax
regCFR == rbp
regSP == rsp
tmpRegister == r9

\* In the System V ABI these survive a call; the others do not.
CalleeSaved == {rbx, rsp, rbp} \cup 12 .. 15

NoIndex == rsp      \* SIB::NoIndex: rsp cannot be an index
NoX == 0

\* JIT::Offset: offset(base, index)
Offset(disp, base) == [disp |-> disp, base |-> base, index |-> NoIndex]
IndexedOffset(disp, base, index) == [disp |-> disp, base |-> base, index |-> index]

----------------------------------------------------------------------------
(* The encoder.                                                            *)

\* Byte k of a two's complement number.
Byte(n, k) == (n \div 256^k) % 256
emitLong(n) == [k \in 1 .. 4 |-> Byte(n, k - 1)]
emitQuad(n) == [k \in 1 .. 8 |->
                  IF k <= 4 THEN Byte(n, k - 1) ELSE IF n < 0 THEN 255 ELSE 0]

is8Bit(n) == n \in (-128) .. 127

\* (A mutant: the extension bits of reg and base are swapped.)
emitRexSwapped(r, x, b) == <<\h48 + (b \div 8) * 4 + (x \div 8) * 2 + r \div 8>>
emitRex(r, x, b) == <<\h48 + (r \div 8) * 4 + (x \div 8) * 2 + b \div 8>>

emitSib(scale, index, base) == <<scale * 64 + (index % 8) * 8 + (base % 8)>>

MemoryMods == [None |-> 0, Offset8Bit |-> 1, Offset32Bit |-> 2]
Register == 3       \* ModRM::Register

emitModRm(mod, regOrOpcode, rm, index) ==
    LET hasSib == mod # Register /\ (rm = rsp \/ index # NoIndex)
        base == IF hasSib THEN rsp ELSE rm
    IN  <<mod * 64 + (regOrOpcode % 8) * 8 + (base % 8)>>
        \o IF hasSib THEN emitSib(0, index, rm) ELSE <<>>

\* The operands of move(Opcode, Register, Offset).
MemoryOperand(reg, o) ==
    IF o.disp = 0 /\ o.base # rbp
    THEN emitModRm(MemoryMods.None, reg, o.base, o.index)
    ELSE IF is8Bit(o.disp)
    THEN emitModRm(MemoryMods.Offset8Bit, reg, o.base, o.index) \o <<Byte(o.disp, 0)>>
    ELSE emitModRm(MemoryMods.Offset32Bit, reg, o.base, o.index) \o emitLong(o.disp)

MoveMemory(opcode, reg, o) ==
    emitRex(reg, NoX, o.base) \o <<opcode>> \o MemoryOperand(reg, o)

\* An instruction with REX.W, an opcode and a register operand.
OnRegister(opcode, regOrOpcode, rm) ==
    emitRex(regOrOpcode, NoX, rm) \o <<opcode>>
    \o emitModRm(Register, regOrOpcode, rm, NoIndex)

moveRegister(src, dst) == OnRegister(\h89, src, dst)
moveFrom(o, dst) == MoveMemory(\h8B, dst, o)
moveTo(src, o) == MoveMemory(\h89, src, o)
moveImmediate(n, dst) == emitRex(0, NoX, dst) \o <<\hB8 + (dst % 8)>> \o emitQuad(n)
leaOffset(o, dst) == MoveMemory(\h8D, dst, o)
callTarget(target) == moveImmediate(target, tmpRegister)
                      \o OnRegister(\hFF, 2, tmpRegister)
compareRegisters(lhs, rhs) == OnRegister(\h39, rhs, lhs)
compareValue(reg, value) == moveImmediate(value, tmpRegister)
                            \o compareRegisters(reg, tmpRegister)
\* No REX prefix: the low half of the register.
compare32(reg, n) == <<\h81>> \o emitModRm(Register, 7, reg, NoIndex) \o emitLong(n)
setEqual(dst) == emitRex(0, NoX, dst) \o <<\h0F, \h90 + 4>>
                 \o emitModRm(Register, 0, dst, NoIndex)
subRegister(lhs, rhs) == OnRegister(\h29, lhs, rhs)
subImmediate(n, reg) == moveImmediate(n, tmpRegister) \o subRegister(tmpRegister, reg)
shiftl(n, reg) == OnRegister(\hC1, 4, reg) \o <<n>>
bitAnd(n, reg) == moveImmediate(n, tmpRegister) \o OnRegister(\h21, tmpRegister, reg)
bitOr(n, reg) == moveImmediate(n, tmpRegister) \o OnRegister(\h09, tmpRegister, reg)
push(reg) == <<\h50 + (reg % 8)>>
pop(reg) == <<\h58 + (reg % 8)>>
ret == <<\hC3>>
\* Their targets follow, as four bytes.
jumpOpcode == <<\hE9>>
jumpIfEqualOpcode == <<\h0F, \h80 + 4>>

----------------------------------------------------------------------------
(* The processor: decoding.                                                *)

Signed(b) == IF b >= 128 THEN b - 256 ELSE b
LongAt(code, p) ==
    code[p] + 256 * code[p + 1] + 65536 * code[p + 2] + 16777216 * Signed(code[p + 3])
WordAt(code, p) == code[p] + 256 * code[p + 1] + 65536 * code[p + 2]

Bit(n, k) == (n \div 2^k) % 2
NoBase == -1        \* an address relative to rip, or absolute

\* The operands a ModRM byte at p describes, and where they end.
OperandsAt(code, p, rex) ==
    LET mod == code[p] \div 64
        low == code[p] % 8
        sib == mod # 3 /\ low = 4
        base == IF sib THEN code[p + 1] % 8 ELSE low
        q == IF sib THEN p + 2 ELSE p + 1
    IN  [reg |-> ((code[p] \div 8) % 8) + 8 * Bit(rex, 2),
         direct |-> mod = 3,
         base |-> IF mod = 0 /\ base = 5 THEN NoBase ELSE base + 8 * Bit(rex, 0),
         index |-> IF sib THEN ((code[p + 1] \div 8) % 8) + 8 * Bit(rex, 1) ELSE NoIndex,
         disp |-> CASE mod = 1 -> Signed(code[q])
                    [] mod = 2 \/ (mod = 0 /\ base = 5) -> LongAt(code, q)
                    [] OTHER -> 0,
         end |-> CASE mod = 1 -> q + 1
                   [] mod = 2 \/ (mod = 0 /\ base = 5) -> q + 4
                   [] OTHER -> q]

Mnemonics == [store |-> \h89, load |-> \h8B, lea |-> \h8D, cmp |-> \h39,
              sub |-> \h29, and |-> \h21, or |-> \h09]

Instruction(op, operands, imm, end) ==
    [op |-> op, reg |-> operands.reg, rm |-> operands, imm |-> imm, end |-> end]
NoOperands == [reg |-> 0, direct |-> TRUE, base |-> 0, index |-> NoIndex, disp |-> 0,
               end |-> 0]
OneRegister(r) == [NoOperands EXCEPT !.reg = r]

\* The opcode at p, after a REX prefix or without one.
DecodeOpcode(code, p, rex, prefixed) ==
    LET byte == code[p]
        register == OneRegister((byte % 8) + 8 * Bit(rex, 0))
        operands == OperandsAt(code, p + 1, rex)
    IN  CASE byte \div 8 = \h50 \div 8 -> Instruction("push", register, 0, p + 1)
          [] byte \div 8 = \h58 \div 8 -> Instruction("pop", register, 0, p + 1)
          [] byte \div 8 = \hB8 \div 8 ->
                Instruction("mov", register, WordAt(code, p + 1), p + 9)
          [] byte = \hC3 -> Instruction("ret", NoOperands, 0, p + 1)
          [] byte = \hE9 -> Instruction("jmp", NoOperands, LongAt(code, p + 1), p + 5)
          [] byte = \h0F /\ code[p + 1] = \h84 ->
                Instruction("je", NoOperands, LongAt(code, p + 2), p + 6)
          [] byte = \h0F /\ code[p + 1] = \h94 ->
                LET set == OperandsAt(code, p + 2, rex)
                IN  Instruction(IF prefixed THEN "sete" ELSE "setelegacy", set, 0, set.end)
          [] byte = \hC1 -> Instruction("shl", operands, code[operands.end], operands.end + 1)
          [] byte = \h81 -> Instruction(IF prefixed THEN "cmpi" ELSE "cmpi32", operands,
                                        LongAt(code, operands.end), operands.end + 4)
          [] byte = \hFF -> Instruction("call", operands, 0, operands.end)
          [] OTHER ->
                LET known == {m \in DOMAIN Mnemonics : Mnemonics[m] = byte}
                IN  Instruction(IF known = {} THEN "illegal" ELSE CHOOSE m \in known : TRUE,
                                operands, 0, operands.end)

\* The instruction at an address of the code.
Decode(code, at) ==
    IF code[at] \div 16 = 4
    THEN DecodeOpcode(code, at + 1, code[at], TRUE)
    ELSE DecodeOpcode(code, at, \h40, FALSE)

\* What a processor finds at each address of some code; what is behind the
\* code is not an instruction.
Padded(code) == code \o [n \in 1 .. 16 |-> 0]
InstructionsOf(code, size) == [p \in 0 .. size - 1 |-> [Decode(code, p + 1) EXCEPT !.end = @ - 1]]
Disassembled(code) == InstructionsOf(Padded(code), Len(code))

Illegal == Instruction("illegal", NoOperands, 0, 0)

----------------------------------------------------------------------------
(* The processor: execution.  Its state is a record: the registers, the    *)
(* zero flag, the memory (a function from some addresses to words) and rip.*)

Poison == 11259375      \* what is read where nothing was written (16#ABCDEF)

Read(mem, a) == IF a \in DOMAIN mem THEN mem[a] ELSE Poison
Written(mem, a, w) == (a :> w) @@ mem

Address(cpu, o) ==
    InWord((IF o.base = NoBase THEN 0 ELSE cpu.regs[o.base])
           + (IF o.index = NoIndex THEN 0 ELSE cpu.regs[o.index]) + o.disp)
Get(cpu, o) == IF o.direct THEN cpu.regs[o.base] ELSE Read(cpu.mem, Address(cpu, o))
Put(cpu, o, w) ==
    IF o.direct THEN [cpu EXCEPT !.regs[o.base] = w]
    ELSE [cpu EXCEPT !.mem = Written(@, Address(cpu, o), w)]

AndOf(m, n) ==
    LET sum[k \in 0 .. WordBits] ==
            IF k = 0 THEN 0 ELSE sum[k - 1] + 2^(k - 1) * (Bit(m, k - 1) * Bit(n, k - 1))
    IN  sum[WordBits]
OrOf(m, n) == m + n - AndOf(m, n)
Half(n) == n % 2^HalfBits

\* The zero flag follows the result.
Result(cpu, o, w) == [Put(cpu, o, w) EXCEPT !.zf = w = 0]
WithByte(w, k, byte) == w - Byte(w, k) * 256^k + byte * 256^k
Equal(cpu) == IF cpu.zf THEN 1 ELSE 0

\* What an instruction other than a call does; rip is already past it.
Effect(cpu, i) ==
    LET top == cpu.regs[rsp] IN
    CASE i.op = "mov" -> [cpu EXCEPT !.regs[i.reg] = i.imm]
      [] i.op = "store" -> Put(cpu, i.rm, cpu.regs[i.reg])
      [] i.op = "load" -> [cpu EXCEPT !.regs[i.reg] = Get(cpu, i.rm)]
      [] i.op = "lea" -> [cpu EXCEPT !.regs[i.reg] = Address(cpu, i.rm)]
      [] i.op = "cmp" -> [cpu EXCEPT !.zf = Get(cpu, i.rm) = cpu.regs[i.reg]]
      [] i.op = "cmpi" -> [cpu EXCEPT !.zf = Get(cpu, i.rm) = InWord(i.imm)]
      [] i.op = "cmpi32" -> [cpu EXCEPT !.zf = Half(Get(cpu, i.rm)) = Half(i.imm)]
      [] i.op = "sub" -> Result(cpu, i.rm, InWord(Get(cpu, i.rm) - cpu.regs[i.reg]))
      [] i.op = "and" -> Result(cpu, i.rm, AndOf(Get(cpu, i.rm), cpu.regs[i.reg]))
      [] i.op = "or" -> Result(cpu, i.rm, OrOf(Get(cpu, i.rm), cpu.regs[i.reg]))
      [] i.op = "shl" -> Result(cpu, i.rm, InWord(Get(cpu, i.rm) * 2^i.imm))
      [] i.op = "sete" -> Put(cpu, i.rm, WithByte(Get(cpu, i.rm), 0, Equal(cpu)))
      [] i.op = "setelegacy" ->      \* ah, ch, dh, bh
            IF i.rm.base < 4
            THEN Put(cpu, i.rm, WithByte(Get(cpu, i.rm), 0, Equal(cpu)))
            ELSE [cpu EXCEPT !.regs[i.rm.base - 4] = WithByte(@, 1, Equal(cpu))]
      [] i.op = "push" -> [cpu EXCEPT !.regs[rsp] = InWord(@ - 8),
                                      !.mem = Written(@, InWord(top - 8), cpu.regs[i.reg])]
      [] i.op = "pop" -> [cpu EXCEPT !.regs = [@ EXCEPT ![rsp] = InWord(top + 8),
                                                        ![i.reg] = Read(cpu.mem, top)]]
      [] i.op = "ret" -> [cpu EXCEPT !.regs[rsp] = InWord(@ + 8), !.rip = Read(cpu.mem, top)]
      [] i.op = "jmp" -> [cpu EXCEPT !.rip = @ + i.imm]
      [] i.op = "je" -> IF cpu.zf THEN [cpu EXCEPT !.rip = @ + i.imm] ELSE cpu

Execute(cpu, i) == Effect([cpu EXCEPT !.rip = i.end], i)

\* A function called through a register returns a word.  It may use what the
\* ABI lets it: the registers that are not saved, and the stack below rsp.
Returned(cpu, i, w) ==
    LET below == {a \in DOMAIN cpu.mem : StackLimit <= a /\ a < cpu.regs[rsp]} IN
    [regs |-> (rax :> w) @@ [r \in Registers \ CalleeSaved |-> Poison] @@ cpu.regs,
     zf |-> FALSE,
     mem |-> [a \in below |-> Poison] @@ cpu.mem,
     rip |-> i.end]
=============================================================================
