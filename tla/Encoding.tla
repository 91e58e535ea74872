------------------------------ MODULE Encoding ------------------------------
(***************************************************************************)
(* The primitives of the JIT against the processor: some code is emitted,  *)
(* a primitive at a time, and has to be, read from its start, what was     *)
(* meant.                                                                  *)
(***************************************************************************)
EXTENDS X64, SequencesExt

CONSTANTS
    Indices,        \* registers an address is indexed by
    Displacements,
    Immediates,
    Followers,      \* the primitives that come after the first one
    MaxPrimitives   \* bound: primitives in a row

VARIABLES emitted, code     \* the primitives, and m_buffer
vars == <<emitted, code>>

\* JIT::Register
JITRegisters == {regA0, regA1, regA2, regA3, regA4, regR0, regCFR, regSP}
Addresses ==
    {[disp |-> d, base |-> b, index |-> x] : d \in Displacements, b \in JITRegisters, x \in Indices}

\* Every primitive, by its name and operands.  (Without a REX prefix there is
\* no register after the eighth: the JIT uses none there.)
Primitives ==
    ({"moveRegister", "compareRegisters", "subRegister"} \X JITRegisters \X JITRegisters)
    \cup ({"moveFrom", "moveTo", "leaOffset"} \X Addresses \X JITRegisters)
    \cup ({"moveImmediate", "subImmediate", "bitAnd", "bitOr", "compareValue"} \X Immediates \X JITRegisters)
    \cup ({"compare32"} \X Immediates \X (JITRegisters \ {r8}))
    \cup ({"setEqual"} \X {0} \X JITRegisters)
    \cup ({"shiftl"} \X {3} \X JITRegisters)
    \cup ({"push", "pop"} \X {0} \X (JITRegisters \ {r8}))
    \cup ({"callTarget"} \X Immediates \X {0})
    \cup {<<"ret", 0, 0>>}

\* An immediate or a displacement has four bytes.
isLong(n) == n \in Int /\ -2147483647 - 1 <= n /\ n <= 2147483647

ASSUME EncodingAssumption ==
    /\ MaxPrimitives \in Nat
    \* emitRex() is never given an index: only the first eight can be one.
    /\ Indices \subseteq 0 .. 7
    /\ \A n \in Displacements \cup Immediates : isLong(n)
    /\ Followers \subseteq Primitives

Encoded(p) ==
    CASE p[1] = "moveRegister" -> moveRegister(p[2], p[3])
      [] p[1] = "compareRegisters" -> compareRegisters(p[2], p[3])
      [] p[1] = "subRegister" -> subRegister(p[2], p[3])
      [] p[1] = "moveFrom" -> moveFrom(p[2], p[3])
      [] p[1] = "moveTo" -> moveTo(p[3], p[2])
      [] p[1] = "leaOffset" -> leaOffset(p[2], p[3])
      [] p[1] = "moveImmediate" -> moveImmediate(p[2], p[3])
      [] p[1] = "subImmediate" -> subImmediate(p[2], p[3])
      [] p[1] = "bitAnd" -> bitAnd(p[2], p[3])
      [] p[1] = "bitOr" -> bitOr(p[2], p[3])
      [] p[1] = "compareValue" -> compareValue(p[3], p[2])
      [] p[1] = "compare32" -> compare32(p[3], p[2])
      [] p[1] = "setEqual" -> setEqual(p[3])
      [] p[1] = "shiftl" -> shiftl(p[2], p[3])
      [] p[1] = "push" -> push(p[3])
      [] p[1] = "pop" -> pop(p[3])
      [] p[1] = "callTarget" -> callTarget(p[2])
      [] p[1] = "ret" -> ret

Init == emitted = <<>> /\ code = <<>>

\* A primitive is appended to the buffer.
EmitPrimitive ==
    /\ Len(emitted) < MaxPrimitives
    /\ \E p \in IF emitted = <<>> THEN Primitives ELSE Followers :
          emitted' = Append(emitted, p) /\ code' = code \o Encoded(p)
Next == EmitPrimitive
Spec == Init /\ [][Next]_vars

----------------------------------------------------------------------------
(* What a primitive means, in instructions of the processor: an operation, *)
(* its register (or what extends the opcode), an operand, an immediate.    *)

Direct(op, reg, r, imm) == <<op, reg, [direct |-> TRUE, base |-> r, index |-> NoIndex,
                                       disp |-> 0], imm>>
Memory(op, reg, o) == <<op, reg, [direct |-> FALSE, base |-> o.base, index |-> o.index,
                                  disp |-> o.disp], 0>>
LoadImmediate(n, r) == Direct("mov", r, 0, InWord(n))

Meant(p) ==
    CASE p[1] = "moveRegister" -> <<Direct("store", p[2], p[3], 0)>>
      [] p[1] = "compareRegisters" -> <<Direct("cmp", p[3], p[2], 0)>>
      [] p[1] = "subRegister" -> <<Direct("sub", p[2], p[3], 0)>>
      [] p[1] = "moveFrom" -> <<Memory("load", p[3], p[2])>>
      [] p[1] = "moveTo" -> <<Memory("store", p[3], p[2])>>
      [] p[1] = "leaOffset" -> <<Memory("lea", p[3], p[2])>>
      [] p[1] = "moveImmediate" -> <<LoadImmediate(p[2], p[3])>>
      [] p[1] = "subImmediate" ->
            <<LoadImmediate(p[2], tmpRegister), Direct("sub", tmpRegister, p[3], 0)>>
      [] p[1] = "bitAnd" ->
            <<LoadImmediate(p[2], tmpRegister), Direct("and", tmpRegister, p[3], 0)>>
      [] p[1] = "bitOr" ->
            <<LoadImmediate(p[2], tmpRegister), Direct("or", tmpRegister, p[3], 0)>>
      [] p[1] = "compareValue" ->
            <<LoadImmediate(p[2], tmpRegister), Direct("cmp", tmpRegister, p[3], 0)>>
      [] p[1] = "setEqual" -> <<Direct("sete", 0, p[3], 0)>>
      [] p[1] = "shiftl" -> <<Direct("shl", 4, p[3], p[2])>>
      [] p[1] = "push" -> <<Direct("push", p[3], 0, 0)>>
      [] p[1] = "pop" -> <<Direct("pop", p[3], 0, 0)>>
      [] p[1] = "callTarget" ->
            <<LoadImmediate(p[2], tmpRegister), Direct("call", 2, tmpRegister, 0)>>
      [] p[1] = "compare32" -> <<Direct("cmpi32", 7, p[3], p[2])>>
      [] p[1] = "ret" -> <<Direct("ret", 0, 0, 0)>>

\* A processor reads instructions from a position of some code on.
AsMeant(i) ==
    <<i.op, i.reg, [direct |-> i.rm.direct, base |-> i.rm.base, index |-> i.rm.index,
                    disp |-> i.rm.disp], i.imm>>
ReadAll(program, size) ==
    LET from[p \in 0 .. size] ==
            IF p = size THEN <<>>
            ELSE IF program[p].end > size THEN <<"truncated">>
            ELSE <<AsMeant(program[p])>> \o from[program[p].end]
    IN  from[0]

----------------------------------------------------------------------------
(* Properties.                                                             *)

\* A processor that starts where the code does reads the instructions that
\* were meant, with their registers, addresses and immediates, and ends with
\* the last of them: none takes bytes of the next.
CodeIsWhatWasMeant ==
    code # <<>> =>
        ReadAll(Disassembled(code), Len(code))
        = FlattenSeq([k \in DOMAIN emitted |-> Meant(emitted[k])])
=============================================================================
