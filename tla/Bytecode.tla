------------------------------ MODULE Bytecode ------------------------------
(***************************************************************************)
(* What the code that runs is made of: the instructions of                 *)
(* bytecode/instructions.rb that may be in it, and the words a register    *)
(* holds (runtime/Value).                                                  *)
(*                                                                         *)
(* An instruction is a record with the fields of the definition; a         *)
(* register is its offset from the frame, negative for locals (Register).  *)
(***************************************************************************)
EXTENDS Integers, Sequences

\* How many fields each instruction has after its name.
Fields ==
    [Enter |-> 0, End |-> 1, Move |-> 2, LoadConstant |-> 2, GetLocal |-> 2,
     SetLocal |-> 2, NewArray |-> 3, SetArrayIndex |-> 3, GetArrayIndex |-> 3,
     NewTuple |-> 3, SetTupleIndex |-> 3, GetTupleIndex |-> 3, NewFunction |-> 2,
     Call |-> 4, NewObject |-> 3, SetField |-> 3, GetField |-> 3, TryGetField |-> 4,
     Jump |-> 1, JumpIfFalse |-> 2, IsEqual |-> 3, RuntimeError |-> 1, IsCell |-> 3,
     NewArrayType |-> 2, NewTupleType |-> 2, NewRecordType |-> 4,
     NewFunctionType |-> 5, NewUnionType |-> 3, NewCallHole |-> 4,
     NewSubscriptHole |-> 3, NewMemberHole |-> 3, GetTypeForValue |-> 2]

\* sizes are in words
Size(instruction) == Fields[instruction.op] + 1

\* The offset of each instruction, and that of the end.
Offsets(code) ==
    LET before[k \in 1 .. Len(code) + 1] ==
            IF k = 1 THEN 0 ELSE before[k - 1] + Size(code[k - 1])
    IN  before

\* The first local holds the environment.
environmentRegister == -1
forLocal(n) == -n
forParameter(n) == n + 1

----------------------------------------------------------------------------
(* Value.  The tag of a number is in the highest 4 bits, not 16.           *)
crash == 0
unit == 4
Bool(b) == IF b THEN 3 ELSE 2
TagTypeBool == 2
TagMask == \hF00007
\* Value(uint32_t)
Number(n) == \h100000 + 8 * n
isNumber(w) == w >= \h100000
isUnit(w) == w = unit
isBool(w) == w \in {2, 3}
asBool(w) == w = 3
isCell(w) == ~isNumber(w) /\ w % 8 = 0

\* Cell::Kind
Kinds == [Object |-> \h3, String |-> \h5, Array |-> \h9, Function |-> \h11, Tuple |-> \h21,
          Type |-> \h43]

----------------------------------------------------------------------------
(* What the code refers to by address.                                     *)
vm == 6144
ThisBlock == 6152
\* m_identifiers[k]
identifier(k) == 8192 + 8 * k
isIdentifier(a) == a > 8192 /\ a < 12288
IdentifierAt(a) == (a - 8192) \div 8

\* A word that is not a cell is no Type* to anything that looks at it.
TypeOrNone(w) == IF isCell(w) THEN w ELSE crash
=============================================================================
