------------------------------ MODULE Handlers ------------------------------
(***************************************************************************)
(* The interpreter's handlers of the code that runs (OP(...) in            *)
(* runtime/Interpreter.cpp), as functions: from the state of an            *)
(* interpreter and the answers of the runtime to what the handler asks of  *)
(* the runtime, the registers it leaves, and where it goes on.             *)
(*                                                                         *)
(* The state is a record: block (m_block), pc (m_ip), registers (m_cfr[]), *)
(* environment (m_environment), parent (its parent), answers (what the     *)
(* runtime returned, in order) and kinds (of the cells, by address).       *)
(***************************************************************************)
EXTENDS Bytecode

Handled(asks, written, to) == [asks |-> asks, registers |-> written, to |-> to]

\* n registers from r on, away from the frame and towards it.
Row(s, r, n) == [k \in 1 .. n |-> s.registers[r - (k - 1)]]
RowBack(s, r, n) == [k \in 1 .. n |-> s.registers[r - (n - k)]]

Dispatch(s, ip, ask) == Handled(<<ask>>, s.registers, s.pc + Size(ip))
DispatchWith(s, ip, asks, dst, w) ==
    Handled(asks, [s.registers EXCEPT ![dst] = w], s.pc + Size(ip))
\* Most handlers ask once and keep the answer.
Keep(s, ip, ask) == DispatchWith(s, ip, <<ask>>, ip.dst, Head(s.answers))

RunTryGetField(s, ip, ask) ==
    IF Head(s.answers) = crash
    THEN Handled(<<ask>>, s.registers, s.pc + ip.target)
    ELSE Keep(s, ip, ask)

RunGetLocal(s, ip) ==
    LET get == <<"jitEnvironmentGet", s.environment, identifier(ip.identifierIndex)>>
        unknown == <<"jitUnknownVariable", vm, s.pc, identifier(ip.identifierIndex)>>
    IN  IF Head(s.answers) = crash
        THEN DispatchWith(s, ip, <<get, unknown>>, ip.dst, unit)
        ELSE Keep(s, ip, get)

\* Value::operator== looks no further when the words are the same.
RunIsEqual(s, ip, l, r) ==
    IF l = r THEN DispatchWith(s, ip, <<>>, ip.dst, Bool(TRUE))
    ELSE DispatchWith(s, ip, <<<<"Value::operator==", l, r>>>>, ip.dst,
                      Bool(Head(s.answers) = 1))

RunIsCell(s, ip, w) ==
    DispatchWith(s, ip, <<>>, ip.dst, Bool(isCell(w) /\ s.kinds[w] = ip.kind))

\* The constructor makes the environment; Enter makes room for the locals.
RunEnter(s, ip) ==
    Handled(<<<<"createEnvironment", vm, s.parent>>>>,
            [r \in DOMAIN s.registers |-> IF r < 0 THEN crash ELSE s.registers[r]],
            s.pc + Size(ip))

\* The value of the register of End is returned.
RunEnd(s, ip) == Handled(<<<<"return", s.registers[ip.dst]>>>>, s.registers, s.pc)

RunJumpIfFalse(s, ip) ==
    Handled(<<>>, s.registers,
            IF asBool(s.registers[ip.condition]) THEN s.pc + Size(ip) ELSE s.pc + ip.target)

RunNew(s, ip, function, size) ==
    Keep(s, ip, <<function, vm, TypeOrNone(s.registers[ip.type]), size>>)

RunNewFunction(s, ip, function) ==
    DispatchWith(s, ip, <<<<"setParentEnvironment", function, s.environment>>>>, ip.dst, function)

Handler(s, ip) ==
    LET R(r) == s.registers[r] IN
    CASE ip.op = "Enter" -> RunEnter(s, ip)
      [] ip.op = "End" -> RunEnd(s, ip)
      [] ip.op = "Move" -> DispatchWith(s, ip, <<>>, ip.dst, R(ip.src))
      [] ip.op = "LoadConstant" ->
            DispatchWith(s, ip, <<>>, ip.dst, s.block.constants[ip.constantIndex])
      [] ip.op = "GetLocal" -> RunGetLocal(s, ip)
      [] ip.op = "SetLocal" ->
            Dispatch(s, ip, <<"Environment::set", s.environment,
                              identifier(ip.identifierIndex), R(ip.src)>>)
      [] ip.op = "NewArray" -> RunNew(s, ip, "createArray", ip.initialSize)
      [] ip.op = "NewTuple" -> RunNew(s, ip, "createTuple", ip.initialSize)
      [] ip.op = "NewObject" -> RunNew(s, ip, "createObject", ip.inlineSize)
      [] ip.op = "SetArrayIndex" ->
            Dispatch(s, ip, <<"Array::setIndex", R(ip.src), ip.index, R(ip.value)>>)
      [] ip.op = "SetTupleIndex" ->
            Dispatch(s, ip, <<"Tuple::setIndex", R(ip.tuple), ip.index, R(ip.value)>>)
      [] ip.op = "GetArrayIndex" ->
            Keep(s, ip, <<"Array::getIndex", R(ip.array), R(ip.index)>>)
      [] ip.op = "GetTupleIndex" ->
            Keep(s, ip, <<"Tuple::getIndex", R(ip.tuple), R(ip.index)>>)
      [] ip.op = "NewFunction" ->
            RunNewFunction(s, ip, s.block.functions[ip.functionIndex])
      [] ip.op = "Call" ->
            Keep(s, ip, <<"trampoline", vm, R(ip.callee), ip.argc>>
                        \o Row(s, ip.firstArg, ip.argc))
      [] ip.op = "SetField" ->
            Dispatch(s, ip, <<"Object::set", R(ip.object), identifier(ip.fieldIndex),
                              R(ip.value)>>)
      [] ip.op = "GetField" ->
            Keep(s, ip, <<"Object::get", R(ip.object), identifier(ip.fieldIndex)>>)
      [] ip.op = "TryGetField" ->
            RunTryGetField(s, ip, <<"tryGetJIT", R(ip.object), identifier(ip.fieldIndex)>>)
      [] ip.op = "Jump" -> Handled(<<>>, s.registers, s.pc + ip.target)
      [] ip.op = "JumpIfFalse" -> RunJumpIfFalse(s, ip)
      [] ip.op = "IsEqual" -> RunIsEqual(s, ip, R(ip.lhs), R(ip.rhs))
      [] ip.op = "RuntimeError" ->
            Dispatch(s, ip, <<"runtimeError", vm, s.pc, identifier(ip.messageIndex)>>)
      [] ip.op = "IsCell" -> RunIsCell(s, ip, R(ip.value))
      [] ip.op = "NewArrayType" -> Keep(s, ip, <<"createTypeArray", vm, R(ip.itemType)>>)
      [] ip.op = "NewTupleType" -> Keep(s, ip, <<"createTypeTuple", vm, ip.itemCount>>)
      [] ip.op = "NewRecordType" ->
            Keep(s, ip, <<"createTypeRecord", vm, ThisBlock, ip.fieldCount>>
                        \o RowBack(s, ip.firstKey, ip.fieldCount)
                        \o RowBack(s, ip.firstType, ip.fieldCount))
      [] ip.op = "NewFunctionType" ->
            Keep(s, ip, <<"createTypeFunction", vm, ip.paramCount, R(ip.returnType),
                          ip.inferredParameters>> \o RowBack(s, ip.firstParam, ip.paramCount))
      [] ip.op = "NewUnionType" ->
            Keep(s, ip, <<"createTypeUnion", vm, R(ip.lhs), R(ip.rhs)>>)
      [] ip.op = "NewCallHole" ->
            Keep(s, ip, <<"createHoleCall", vm, R(ip.callee), ip.argc>>
                        \o Row(s, ip.firstArg, ip.argc))
      [] ip.op = "NewSubscriptHole" ->
            Keep(s, ip, <<"createHoleSubscript", vm, R(ip.target), R(ip.index)>>)
      [] ip.op = "NewMemberHole" ->
            Keep(s, ip, <<"createHoleMember", vm, R(ip.object), identifier(ip.fieldIndex)>>)
=============================================================================
