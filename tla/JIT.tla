-------------------------------- MODULE JIT ---------------------------------
(***************************************************************************)
(* The compiler of jit/JIT.cpp: the code that runs of a block of bytecode  *)
(* becomes machine code.                                                   *)
(*                                                                         *)
(* emit##Op() is the sequence of what it emits: bytes, labels, and jumps   *)
(* to a label or by a distance in the bytecode.  Compile() is what becomes *)
(* of it, with every jump patched.                                         *)
(***************************************************************************)
EXTENDS Bytecode, X64, SequencesExt

\* The functions of the runtime that jitted code calls.
RuntimeFunctions ==
    <<"createEnvironment", "jitEnvironmentGet", "jitUnknownVariable", "Environment::set",
      "createArray", "Array::setIndex", "Array::getIndex", "createTuple",
      "Tuple::setIndex", "Tuple::getIndex", "setParentEnvironment", "trampoline",
      "createObject", "Object::set", "Object::get", "tryGetJIT", "Value::operator==",
      "runtimeError", "createTypeArray", "createTypeTuple", "createTypeRecord",
      "createTypeFunction", "createTypeUnion", "createHoleCall", "createHoleSubscript",
      "createHoleMember">>
FirstFunction == 12288
AddressOf(function) ==
    FirstFunction + 8 * (CHOOSE k \in DOMAIN RuntimeFunctions : RuntimeFunctions[k] = function)
FunctionAt(a) == RuntimeFunctions[(a - FirstFunction) \div 8]
IsFunction(a) == \E k \in DOMAIN RuntimeFunctions : a = FirstFunction + 8 * k

----------------------------------------------------------------------------
(* What is emitted.                                                        *)
Bytes(b) == [kind |-> "bytes", bytes |-> b, to |-> ""]
Label(l) == [kind |-> "label", bytes |-> <<>>, to |-> l]
Jump(l) == [kind |-> "jump", bytes |-> jumpOpcode, to |-> l]
JumpIfEqual(l) == [kind |-> "jump", bytes |-> jumpIfEqualOpcode, to |-> l]
JumpBy(n) == [kind |-> "target", bytes |-> jumpOpcode, to |-> "", by |-> n]
JumpByIfEqual(n) == [kind |-> "target", bytes |-> jumpIfEqualOpcode, to |-> "", by |-> n]

\* Virtual registers are words of the frame.
Load(r, dst) == Bytes(moveFrom(Offset(8 * r, regCFR), dst))
Lea(r, dst) == Bytes(leaOffset(Offset(8 * r, regCFR), dst))
Store(src, r) == Bytes(moveTo(src, Offset(8 * r, regCFR)))
Move(n, dst) == Bytes(moveImmediate(n, dst))
CallTo(function) == Bytes(callTarget(AddressOf(function)))

makeEnvironment ==
    <<Bytes(push(regA0)), Bytes(push(regA1)),
      Move(vm, regA0), Bytes(moveRegister(regA2, regA1)), CallTo("createEnvironment"),
      Bytes(pop(regA1)), Bytes(pop(regA0))>>

\* (A mutant: the same argument is copied again and again.)
copyArgumentsForever ==
    <<Bytes(shiftl(3, regA0)), Bytes(subRegister(regA0, regSP)),
      Label("start"), Bytes(compareValue(regA0, 0)), JumpIfEqual("end"),
      Bytes(moveFrom(IndexedOffset(-8, regA1, regA0), regT2)),
      Bytes(moveTo(regT2, IndexedOffset(-8, regSP, regA0))), Jump("start"), Label("end")>>
\* argc words, from the vector at regA1 to the stack.
copyArguments ==
    <<Bytes(shiftl(3, regA0)), Bytes(subRegister(regA0, regSP)),
      Label("start"), Bytes(compareValue(regA0, 0)), JumpIfEqual("end"),
      Bytes(moveFrom(IndexedOffset(-8, regA1, regA0), regT2)),
      Bytes(moveTo(regT2, IndexedOffset(-8, regSP, regA0))),
      Bytes(subImmediate(8, regA0)), Jump("start"), Label("end")>>

reserveLocals(block) ==
    <<Bytes(subImmediate(block.numLocals * 8, regSP)), Bytes(bitAnd(-16, regSP))>>

\* A frame: the caller's regCFR, the arguments, regCFR again, and the locals.
prologue(block) ==
    <<Bytes(push(regCFR)), Bytes(moveRegister(regSP, regCFR))>>
    \o makeEnvironment \o copyArguments
    \o <<Bytes(push(regCFR)), Bytes(moveRegister(regSP, regCFR))>>
    \o reserveLocals(block) \o <<Store(regR0, environmentRegister)>>

\* (A mutant: the arguments stay on the stack.)
epilogueOfOneFrame == <<Bytes(moveRegister(regCFR, regSP)), Bytes(pop(regCFR)), Bytes(ret)>>
epilogue ==
    <<Bytes(moveRegister(regCFR, regSP)), Bytes(pop(regCFR)),
      Bytes(moveRegister(regCFR, regSP)), Bytes(pop(regCFR)), Bytes(ret)>>

----------------------------------------------------------------------------
(* The instructions.                                                       *)

emitEnter(block) ==
    prologue(block) \o <<Move(crash, regT0)>>
    \o [k \in 1 .. block.numLocals - 1 |-> Store(regT0, forLocal(k + 1))]
emitEnd(ip) == <<Load(ip.dst, regR0)>> \o epilogue
emitMove(ip) == <<Load(ip.src, regT0), Store(regT0, ip.dst)>>
emitLoadConstant(block, ip) ==
    <<Move(block.constants[ip.constantIndex], regT0), Store(regT0, ip.dst)>>

\* (A mutant: the jump over the error is missing.)
emitGetLocalFallsThrough(ip, at) ==
    <<Load(environmentRegister, regA0), Move(identifier(ip.identifierIndex), regA1),
      CallTo("jitEnvironmentGet"), Store(regR0, ip.dst),
      Bytes(compareValue(regR0, crash)), JumpIfEqual("error"),
      Label("error"), Move(vm, regA0), Move(at, regA1),
      Move(identifier(ip.identifierIndex), regA2), CallTo("jitUnknownVariable"),
      Label("end")>>
emitGetLocal(ip, at) ==
    <<Load(environmentRegister, regA0), Move(identifier(ip.identifierIndex), regA1),
      CallTo("jitEnvironmentGet"), Store(regR0, ip.dst),
      Bytes(compareValue(regR0, crash)), JumpIfEqual("error"), Jump("end"),
      Label("error"), Move(vm, regA0), Move(at, regA1),
      Move(identifier(ip.identifierIndex), regA2), CallTo("jitUnknownVariable"),
      Label("end")>>
emitSetLocal(ip) ==
    <<Load(environmentRegister, regA0), Move(identifier(ip.identifierIndex), regA1),
      Load(ip.src, regA2), CallTo("Environment::set")>>

\* NewArray, NewTuple and NewObject
emitNew(function, ip, size) ==
    <<Move(vm, regA0), Load(ip.type, regA1), Move(size, regA2), CallTo(function),
      Store(regR0, ip.dst)>>
\* SetArrayIndex and SetTupleIndex
emitSetIndex(function, object, ip) ==
    <<Load(object, regA0), Move(ip.index, regA1), Load(ip.value, regA2), CallTo(function)>>
\* GetArrayIndex and GetTupleIndex
emitGetIndex(function, object, ip) ==
    <<Load(object, regA0), Load(ip.index, regA1), CallTo(function), Store(regR0, ip.dst)>>
emitSetField(ip) ==
    <<Load(ip.object, regA0), Move(identifier(ip.fieldIndex), regA1), Load(ip.value, regA2),
      CallTo("Object::set")>>
emitGetField(ip) ==
    <<Load(ip.object, regA0), Move(identifier(ip.fieldIndex), regA1), CallTo("Object::get"),
      Store(regR0, ip.dst)>>
emitTryGetField(ip) ==
    <<Load(ip.object, regA0), Move(identifier(ip.fieldIndex), regA1), CallTo("tryGetJIT"),
      Bytes(compareValue(regR0, crash)), JumpByIfEqual(ip.target), Store(regR0, ip.dst)>>

emitNewFunction(block, ip) ==
    <<Move(block.functions[ip.functionIndex], regA0), Load(environmentRegister, regA1),
      CallTo("setParentEnvironment"),
      Move(block.functions[ip.functionIndex], regT0), Store(regT0, ip.dst)>>
emitCall(ip) ==
    <<Move(vm, regA0), Load(ip.callee, regA1), Move(ip.argc, regA2), Lea(ip.firstArg, regA3),
      CallTo("trampoline"), Store(regR0, ip.dst)>>

emitJump(ip) == <<JumpBy(ip.target)>>
emitJumpIfFalse(ip) ==
    <<Load(ip.condition, regT0), Bytes(compareValue(regT0, Bool(FALSE))),
      JumpByIfEqual(ip.target)>>
emitIsEqual(ip) ==
    <<Load(ip.lhs, regT0), Load(ip.rhs, regT1), Bytes(compareRegisters(regT0, regT1)),
      JumpIfEqual("fastPath"), Lea(ip.lhs, regT0), Lea(ip.rhs, regT1),
      CallTo("Value::operator=="), Bytes(bitOr(TagTypeBool, regR0)), Jump("doStore"),
      Label("fastPath"), Move(Bool(FALSE), regR0), Bytes(setEqual(regR0)),
      Label("doStore"), Store(regR0, ip.dst)>>
emitRuntimeError(ip, at) ==
    <<Move(vm, regA0), Move(at, regA1), Move(identifier(ip.messageIndex), regA2),
      CallTo("runtimeError")>>

KindOffset == 8     \* OFFSETOF(Cell, m_kind)
emitIsCell(ip) ==
    <<Load(ip.value, regT0), Bytes(moveRegister(regT0, regT1)),
      Bytes(bitAnd(TagMask, regT0)), Bytes(compareValue(regT0, 0)), JumpIfEqual("isCell"),
      Move(Bool(FALSE), regT0), Jump("doStore"),
      Label("isCell"), Bytes(moveFrom(Offset(KindOffset, regT1), regT0)),
      Bytes(compare32(regT0, ip.kind)), Bytes(setEqual(regT0)),
      Bytes(bitOr(TagTypeBool, regT0)), Bytes(bitAnd(Bool(TRUE), regT0)),
      Label("doStore"), Store(regT0, ip.dst)>>

emitNewArrayType(ip) ==
    <<Move(vm, regA0), Load(ip.itemType, regA1), CallTo("createTypeArray"),
      Store(regR0, ip.dst)>>
emitNewTupleType(ip) ==
    <<Move(vm, regA0), Move(ip.itemCount, regA1), CallTo("createTypeTuple"),
      Store(regR0, ip.dst)>>
emitNewRecordType(ip) ==
    <<Move(vm, regA0), Move(ThisBlock, regA1), Move(ip.fieldCount, regA2),
      Lea(ip.firstKey, regA3), Lea(ip.firstType, regA4), CallTo("createTypeRecord"),
      Store(regR0, ip.dst)>>
emitNewFunctionType(ip) ==
    <<Move(vm, regA0), Move(ip.paramCount, regA1), Lea(ip.firstParam, regA2),
      Load(ip.returnType, regA3), Move(ip.inferredParameters, regA4),
      CallTo("createTypeFunction"), Store(regR0, ip.dst)>>
emitNewUnionType(ip) ==
    <<Move(vm, regA0), Load(ip.lhs, regA1), Load(ip.rhs, regA2), CallTo("createTypeUnion"),
      Store(regR0, ip.dst)>>
emitNewCallHole(ip) ==
    <<Move(vm, regA0), Load(ip.callee, regA1), Move(ip.argc, regA2), Lea(ip.firstArg, regA3),
      CallTo("createHoleCall"), Store(regR0, ip.dst)>>
emitNewSubscriptHole(ip) ==
    <<Move(vm, regA0), Load(ip.target, regA1), Load(ip.index, regA2),
      CallTo("createHoleSubscript"), Store(regR0, ip.dst)>>
emitNewMemberHole(ip) ==
    <<Move(vm, regA0), Load(ip.object, regA1), Move(identifier(ip.fieldIndex), regA2),
      CallTo("createHoleMember"), Store(regR0, ip.dst)>>

\* The others only check types: compiling one is a failed assertion.
Compilable == DOMAIN Fields \ {"GetTypeForValue"}

Emitted(block, ip, at) ==
    CASE ip.op = "Enter" -> emitEnter(block)
      [] ip.op = "End" -> emitEnd(ip)
      [] ip.op = "Move" -> emitMove(ip)
      [] ip.op = "LoadConstant" -> emitLoadConstant(block, ip)
      [] ip.op = "GetLocal" -> emitGetLocal(ip, at)
      [] ip.op = "SetLocal" -> emitSetLocal(ip)
      [] ip.op = "NewArray" -> emitNew("createArray", ip, ip.initialSize)
      [] ip.op = "SetArrayIndex" -> emitSetIndex("Array::setIndex", ip.src, ip)
      [] ip.op = "GetArrayIndex" -> emitGetIndex("Array::getIndex", ip.array, ip)
      [] ip.op = "NewTuple" -> emitNew("createTuple", ip, ip.initialSize)
      [] ip.op = "SetTupleIndex" -> emitSetIndex("Tuple::setIndex", ip.tuple, ip)
      [] ip.op = "GetTupleIndex" -> emitGetIndex("Tuple::getIndex", ip.tuple, ip)
      [] ip.op = "NewFunction" -> emitNewFunction(block, ip)
      [] ip.op = "Call" -> emitCall(ip)
      [] ip.op = "NewObject" -> emitNew("createObject", ip, ip.inlineSize)
      [] ip.op = "SetField" -> emitSetField(ip)
      [] ip.op = "GetField" -> emitGetField(ip)
      [] ip.op = "TryGetField" -> emitTryGetField(ip)
      [] ip.op = "Jump" -> emitJump(ip)
      [] ip.op = "JumpIfFalse" -> emitJumpIfFalse(ip)
      [] ip.op = "IsEqual" -> emitIsEqual(ip)
      [] ip.op = "RuntimeError" -> emitRuntimeError(ip, at)
      [] ip.op = "IsCell" -> emitIsCell(ip)
      [] ip.op = "NewArrayType" -> emitNewArrayType(ip)
      [] ip.op = "NewTupleType" -> emitNewTupleType(ip)
      [] ip.op = "NewRecordType" -> emitNewRecordType(ip)
      [] ip.op = "NewFunctionType" -> emitNewFunctionType(ip)
      [] ip.op = "NewUnionType" -> emitNewUnionType(ip)
      [] ip.op = "NewCallHole" -> emitNewCallHole(ip)
      [] ip.op = "NewSubscriptHole" -> emitNewSubscriptHole(ip)
      [] ip.op = "NewMemberHole" -> emitNewMemberHole(ip)

----------------------------------------------------------------------------
(* The writer.  A position is the length of m_buffer before it.            *)

ItemSize(item) == Len(item.bytes) + IF item.kind \in {"jump", "target"} THEN 4 ELSE 0

\* Where each of some sizes starts, and where the last one ends.
Starts(sizes) ==
    LET start[k \in 1 .. Len(sizes) + 1] ==
            IF k = 1 THEN 0 ELSE start[k - 1] + sizes[k - 1]
    IN  start

\* emitJumpTarget(Label&) and emit(Label&): the distance to the label from
\* behind the jump, written when the later one of the two is emitted.
JumpTarget(items, positions, k) ==
    positions[SelectInSeq(items, LAMBDA i : i.kind = "label" /\ i.to = items[k].to)]
    - positions[k + 1]

\* m_bytecodeOffsetMapping, which has 0 for what is not in it
BufferOffset(mapping, at) == IF at \in DOMAIN mapping THEN mapping[at] ELSE 0

\* (A mutant: from the instruction after the jump, as a processor counts.)
BytecodeTargetFromNext(mapping, at, by, here) == BufferOffset(mapping, at + 2 + by) - here
\* m_jumps: the target counts from the jump in the bytecode.
BytecodeTarget(mapping, at, by, here) == BufferOffset(mapping, at + by) - here

ItemBytes(items, positions, k, mapping, at) ==
    items[k].bytes
    \o CASE items[k].kind = "jump" -> emitLong(JumpTarget(items, positions, k))
         [] items[k].kind = "target" ->
               emitLong(BytecodeTarget(mapping, at, items[k].by, mapping[at] + positions[k + 1]))
         [] OTHER -> <<>>

\* An instruction at its offset in the bytecode; labels are its own.
InstructionBytes(items, mapping, at) ==
    LET positions == Starts([k \in DOMAIN items |-> ItemSize(items[k])])
    IN  FlattenSeq([k \in DOMAIN items |-> ItemBytes(items, positions, k, mapping, at)])

SizeOf(items) == Starts([k \in DOMAIN items |-> ItemSize(items[k])])[Len(items) + 1]

Assembled(emitted, starts, offsets) ==
    LET mapping == [o \in {offsets[k] : k \in DOMAIN emitted} |->
                       starts[CHOOSE k \in DOMAIN emitted : offsets[k] = o]]
    IN  [mapping |-> mapping,
         bytes |-> FlattenSeq([k \in DOMAIN emitted |->
                                  InstructionBytes(emitted[k], mapping, offsets[k])])]
Laid(emitted, offsets) ==
    Assembled(emitted, Starts([k \in DOMAIN emitted |-> SizeOf(emitted[k])]), offsets)

\* compile(), when the block can be compiled
Compile(block) ==
    LET offsets == Offsets(block.code)
    IN  Laid([k \in DOMAIN block.code |-> Emitted(block, block.code[k], offsets[k])], offsets)
=============================================================================
