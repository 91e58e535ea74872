------------------------------ MODULE Codegen -------------------------------
(***************************************************************************)
(* The code that runs: what ast/Codegen.cpp generates, through             *)
(* bytecode/BytecodeGenerator.cpp, for the statements, expressions, types  *)
(* and patterns of a function.                                             *)
(*                                                                         *)
(* The tree is made of records with a field node, the class, and its       *)
(* members.  A generator is a record g; what a node generates is the       *)
(* generator with it.  A jump refers to a label by its number until        *)
(* finalize(), the code has an entry for every label that is emitted.      *)
(***************************************************************************)
EXTENDS Bytecode, SequencesExt

Generator ==
    [code |-> <<[op |-> "Enter"]>>, numLocals |-> 1, constants |-> <<>>,
     identifiers |-> <<>>, labels |-> 0, lazy |-> FALSE]

Emit(g, instruction) == [g EXCEPT !.code = Append(@, instruction)]

\* newLocal(), and the register it returned.
newLocal(g) == [g EXCEPT !.numLocals = @ + 1]
Local(g) == forLocal(g.numLocals)

\* label(), and the label it returned
label(g) == [g EXCEPT !.labels = @ + 1]
EmitLabel(g, l) == Emit(g, [op |-> "label", label |-> l])

\* uniqueIdentifier(name)
Named(g, name) ==
    IF name \in ToSet(g.identifiers) THEN g
    ELSE [g EXCEPT !.identifiers = Append(@, name)]
IndexIn(g, name) == SelectInSeq(g.identifiers, LAMBDA n : n = name)

loadConstant(g, dst, w) ==
    Emit([g EXCEPT !.constants = Append(@, w)],
         [op |-> "LoadConstant", dst |-> dst, constantIndex |-> Len(g.constants) + 1])

WithIdentifier(g, name, field, instruction) ==
    Emit(Named(g, name), instruction @@ (field :> IndexIn(Named(g, name), name)))
getLocal(g, dst, name) ==
    WithIdentifier(g, name, "identifierIndex", [op |-> "GetLocal", dst |-> dst])
setLocal(g, name, src) ==
    WithIdentifier(g, name, "identifierIndex", [op |-> "SetLocal", src |-> src])
setField(g, object, name, value) ==
    WithIdentifier(g, name, "fieldIndex", [op |-> "SetField", object |-> object, value |-> value])
getField(g, dst, object, name) ==
    WithIdentifier(g, name, "fieldIndex", [op |-> "GetField", dst |-> dst, object |-> object])
tryGetField(g, dst, object, name, target) ==
    WithIdentifier(g, name, "fieldIndex",
                   [op |-> "TryGetField", dst |-> dst, object |-> object, target |-> target])
runtimeError(g, message) ==
    WithIdentifier(g, message, "messageIndex", [op |-> "RuntimeError"])
jump(g, target) == Emit(g, [op |-> "Jump", target |-> target])
jumpIfFalse(g, condition, target) ==
    Emit(g, [op |-> "JumpIfFalse", condition |-> condition, target |-> target])

\* The first of some consecutive registers, if there are any.
First(registers) == IF registers = <<>> THEN forParameter(0) ELSE registers[1]
call(g, dst, callee, args) ==
    Emit(g, [op |-> "Call", dst |-> dst, callee |-> callee, argc |-> Len(args),
             firstArg |-> First(args)])
newFunctionType(g, dst, params, returnType, inferred) ==
    Emit(g, [op |-> "NewFunctionType", dst |-> dst, paramCount |-> Len(params),
             firstParam |-> First(params), returnType |-> returnType,
             inferredParameters |-> inferred])

----------------------------------------------------------------------------
(* Expressions, patterns, statements.                                      *)

RECURSIVE Expression(_, _, _)

\* Each of some expressions into a local of its own, made just before it,
\* and where that went: After(g, register, index).
IntoFresh(g, items, After(_, _, _)) ==
    FoldLeftDomain(LAMBDA h, k :
                      After(Expression(newLocal(h), items[k], Local(newLocal(h))),
                            Local(newLocal(h)), k),
                   g, items)

\* A fresh object without a type.
NewOf(g, op, dst, size) ==
    Emit(loadConstant(g, dst, unit), op @@ [dst |-> dst, type |-> dst] @@ size)

ArrayLiteral(g, e, dst) ==
    IntoFresh(NewOf(g, [op |-> "NewArray"], dst, [initialSize |-> Len(e.items)]), e.items,
              LAMBDA h, r, k : Emit(h, [op |-> "SetArrayIndex", src |-> dst, index |-> k - 1,
                                        value |-> r]))
Tuple(g, e, dst) ==
    IntoFresh(NewOf(g, [op |-> "NewTuple"], dst, [initialSize |-> Len(e.items)]), e.items,
              LAMBDA h, r, k : Emit(h, [op |-> "SetTupleIndex", tuple |-> dst, index |-> k - 1,
                                        value |-> r]))

\* The fields of an object, of a literal or of a type, share one register.
\* fields is in the order of the map, which is that of addresses.
FieldsOf(g, fields, dst) ==
    FoldLeft(LAMBDA h, f : setField(Expression(h, f[2], Local(g)), dst, f[1], Local(g)),
             g, fields)
ObjectLiteral(g, e, dst) ==
    FieldsOf(newLocal(NewOf(g, [op |-> "NewObject"], dst, [inlineSize |-> Len(e.fields)])),
             e.fields, dst)

Locals(g, n) == [k \in 1 .. n |-> forLocal(g.numLocals + k)]

\* (A mutant: arguments are evaluated before the registers of all are taken.)
CallExpressionInterleaved(g, e, dst) ==
    LET callee == Expression(newLocal(g), e.callee, Local(newLocal(g)))
        done == IntoFresh(callee, e.arguments, LAMBDA h, r, k : h)
    IN  call(done, dst, Local(newLocal(g)), Locals(callee, Len(e.arguments)))
CallExpression(g, e, dst) ==
    LET callee == Expression(newLocal(g), e.callee, Local(newLocal(g)))
        args == Locals(callee, Len(e.arguments))
        done == FoldLeftDomain(LAMBDA h, k : Expression(h, e.arguments[k], args[k]),
                               [callee EXCEPT !.numLocals = @ + Len(args)], e.arguments)
    IN  call(done, dst, Local(newLocal(g)), args)

Subscript(g, e, dst) ==
    LET target == newLocal(Expression(g, e.target, dst))
    IN  Emit(Expression(target, e.index, Local(target)),
             [op |-> "GetArrayIndex", dst |-> dst, array |-> dst, index |-> Local(target)])

Member(g, e, dst) == getField(Expression(g, e.object, dst), dst, dst, e.property)

ObjectType(g, e, dst) ==
    FieldsOf(newLocal(Emit(g, [op |-> "NewRecordType", dst |-> dst, fieldCount |-> 0,
                               firstKey |-> forParameter(0), firstType |-> forParameter(0)])),
             e.fields, dst)

\* The types of the items go into the type's own array of them.
TupleType(g, e, dst) ==
    LET made == newLocal(Emit(g, [op |-> "NewTupleType", dst |-> dst,
                                  itemCount |-> Len(e.items)]))
        array == Local(made)
        tmp == newLocal(getField(made, array, dst, "itemsTypes"))
    IN  FoldLeftDomain(LAMBDA h, k :
                          Emit(Expression(h, e.items[k], Local(tmp)),
                               [op |-> "SetArrayIndex", src |-> array, index |-> k - 1,
                                value |-> Local(tmp)]),
                       tmp, e.items)

\* Parameters are laid out from the last to the first.
FunctionType(g, e, dst) ==
    LET n == Len(e.parameters)
        params == Locals(g, n)
        done == FoldLeftDomain(LAMBDA h, k : Expression(h, e.parameters[k], params[n - k + 1]),
                               [g EXCEPT !.numLocals = @ + n], e.parameters)
    IN  newFunctionType(Expression(done, e.returnType, dst), dst, params, dst, 0)

UnionType(g, e, dst) ==
    LET tmp == newLocal(g)
    IN  Emit(Expression(Expression(tmp, e.lhs, dst), e.rhs, Local(tmp)),
             [op |-> "NewUnionType", dst |-> dst, lhs |-> dst, rhs |-> Local(tmp)])
ArrayType(g, e, dst) ==
    Emit(Expression(g, e.itemType, dst), [op |-> "NewArrayType", dst |-> dst, itemType |-> dst])

----------------------------------------------------------------------------
(* #e: the code for type checking, in the code that runs.                  *)

\* inferring an expression, and what its type is
\* (An expression that is a name; the others need types of the checker.)
InferredType(g, e, dst) ==
    Emit(getLocal(g, dst, e.name), [op |-> "GetTypeForValue", dst |-> dst, value |-> dst])

LazyArray(g, e, dst) ==
    LET typed == Emit(InferredType(g, e.items[1], dst),
                      [op |-> "NewArrayType", dst |-> dst, itemType |-> dst])
    IN  IntoFresh(Emit(typed, [op |-> "NewArray", dst |-> dst, type |-> dst,
                               initialSize |-> Len(e.items)]),
                  e.items,
                  LAMBDA h, r, k : Emit(h, [op |-> "SetArrayIndex", src |-> dst,
                                            index |-> k - 1, value |-> r]))

LazyCall(g, e, dst) ==
    LET callee == Expression(newLocal(g), e.callee, Local(newLocal(g)))
        args == Locals(callee, Len(e.arguments))
        done == FoldLeftDomain(LAMBDA h, k : Expression(h, e.arguments[k], args[k]),
                               [callee EXCEPT !.numLocals = @ + Len(args)], e.arguments)
    IN  Emit(done, [op |-> "NewCallHole", dst |-> dst, callee |-> Local(newLocal(g)),
                    argc |-> Len(args), firstArg |-> First(args)])
LazySubscript(g, e, dst) ==
    LET target == newLocal(Expression(g, e.target, dst))
    IN  Emit(Expression(target, e.index, Local(target)),
             [op |-> "NewSubscriptHole", dst |-> dst, target |-> dst, index |-> Local(target)])
LazyMember(g, e, dst) ==
    WithIdentifier(Expression(g, e.object, dst), e.property, "fieldIndex",
                   [op |-> "NewMemberHole", dst |-> dst, object |-> dst])

LazyExpression(g, e, dst) ==
    [Expression([g EXCEPT !.lazy = TRUE], e.expression, dst) EXCEPT !.lazy = g.lazy]

Expression(g, e, dst) ==
    CASE e.node = "Identifier" -> getLocal(g, dst, e.name)
      [] e.node = "Parenthesized" -> Expression(g, e.expression, dst)
      [] e.node = "Literal" -> loadConstant(g, dst, e.value)
      [] e.node = "TypeType" -> loadConstant(g, dst, e.value)
      [] e.node = "Lazy" -> LazyExpression(g, e, dst)
      [] e.node = "Object" -> ObjectLiteral(g, e, dst)
      [] e.node = "Array" ->
            IF g.lazy THEN LazyArray(g, e, dst) ELSE ArrayLiteral(g, e, dst)
      [] e.node = "Tuple" -> Tuple(g, e, dst)
      [] e.node = "Call" ->
            IF g.lazy THEN LazyCall(g, e, dst) ELSE CallExpression(g, e, dst)
      [] e.node = "Subscript" ->
            IF g.lazy THEN LazySubscript(g, e, dst) ELSE Subscript(g, e, dst)
      [] e.node = "Member" -> IF g.lazy THEN LazyMember(g, e, dst) ELSE Member(g, e, dst)
      [] e.node = "ObjectType" -> ObjectType(g, e, dst)
      [] e.node = "TupleType" -> TupleType(g, e, dst)
      [] e.node = "FunctionType" -> FunctionType(g, e, dst)
      [] e.node = "UnionType" -> UnionType(g, e, dst)
      [] e.node = "ArrayType" -> ArrayType(g, e, dst)

----------------------------------------------------------------------------
(* Patterns: on to the next case when the value does not match.            *)

RECURSIVE Pattern(_, _, _, _)

LiteralPattern(g, p, value, next) ==
    LET tmp == Local(newLocal(g))
        literal == loadConstant(newLocal(g), tmp, p.value)
    IN  jumpIfFalse(Emit(literal, [op |-> "IsEqual", dst |-> tmp, lhs |-> value, rhs |-> tmp]),
                    tmp, next)

ObjectPattern(g, p, value, next) ==
    LET tmp == Local(newLocal(g))
        object == jumpIfFalse(Emit(newLocal(g), [op |-> "IsCell", dst |-> tmp, value |-> value,
                                                 kind |-> Kinds.Object]),
                              tmp, next)
    IN  FoldLeft(LAMBDA h, entry :
                    Pattern(tryGetField(h, tmp, value, entry[1], next), entry[2], tmp, next),
                 object, p.entries)

Pattern(g, p, value, next) ==
    CASE p.node = "IdentifierPattern" -> setLocal(g, p.name, value)
      [] p.node = "ObjectPattern" -> ObjectPattern(g, p, value, next)
      [] p.node = "UnderscorePattern" -> g
      [] p.node = "LiteralPattern" -> LiteralPattern(g, p, value, next)

----------------------------------------------------------------------------
(* Statements and declarations.                                            *)

RECURSIVE Statement(_, _, _)

\* (A mutant: the end is not where it is taken to be.)
IfStatementWithoutEnd(g, s, dst) ==
    LET alt == g.labels + 1
        end == g.labels + 2
        tested == jumpIfFalse(Expression(newLocal(label(label(g))), s.condition,
                                         Local(newLocal(g))),
                              Local(newLocal(g)), alt)
        taken == jump(Statement(tested, s.consequent, dst), end)
    IN  IF s.alternate = <<>> THEN taken
        ELSE Statement(EmitLabel(taken, alt), s.alternate[1], dst)
\* An if without an else (alternate is an empty sequence) emits no label alt.
IfStatement(g, s, dst) ==
    LET alt == g.labels + 1
        end == g.labels + 2
        tested == jumpIfFalse(Expression(newLocal(label(label(g))), s.condition,
                                         Local(newLocal(g))),
                              Local(newLocal(g)), alt)
        taken == jump(Statement(tested, s.consequent, dst), end)
    IN  EmitLabel(IF s.alternate = <<>> THEN taken
                  ELSE Statement(EmitLabel(taken, alt), s.alternate[1], dst),
                  end)

\* One case: it fails to the label next, which is emitted behind it.
Case(g, kase, dst, end) ==
    LET next == g.labels
        body == Statement(Pattern(g, kase.pattern, dst, next), kase.statement, dst)
    IN  label(EmitLabel(jump(body, end), next))
\* The label of the next case is the newest one: no label is made inside a
\* case and used behind it.
MatchStatement(g, s, dst) ==
    LET end == g.labels + 1
        scrutinee == Expression(label(label(g)), s.scrutinee, dst)
        cases == FoldLeft(LAMBDA h, kase : Case(h, kase, dst, end), scrutinee, s.cases)
    IN  EmitLabel(IF s.defaultCase = <<>>
                  THEN runtimeError(cases, "All patterns failed to match")
                  ELSE Statement(cases, s.defaultCase[1], dst),
                  end)

BlockStatement(g, s, dst) ==
    IF s.declarations = <<>> THEN loadConstant(g, dst, unit)
    ELSE FoldLeft(LAMBDA h, d : Statement(h, d, dst), g, s.declarations)

\* functionIndex was assigned while checking.
FunctionDeclaration(g, d, dst) ==
    setLocal(Emit(g, [op |-> "NewFunction", dst |-> dst, functionIndex |-> d.functionIndex]),
             d.name, dst)

Statement(g, s, dst) ==
    CASE s.node = "Block" -> BlockStatement(g, s, dst)
      [] s.node = "If" -> IfStatement(g, s, dst)
      [] s.node = "Match" -> MatchStatement(g, s, dst)
      [] s.node = "Expression" -> Expression(g, s.expression, dst)
      [] s.node = "Empty" -> g
      [] s.node = "Let" -> setLocal(Expression(g, s.initializer, dst), s.name, dst)
      [] s.node = "Function" -> FunctionDeclaration(g, s, dst)

\* finalize(): the distance of every jump; that to a label without an offset
\* stays 0.  (Assembler.tla has how the labels are linked.)
Linked(g) ==
    LET size(i) == IF i.op = "label" THEN 0 ELSE Size(i)
        at[k \in 1 .. Len(g.code) + 1] ==
            IF k = 1 THEN 0 ELSE at[k - 1] + size(g.code[k - 1])
        labelAt(l) == SelectInSeq(g.code, LAMBDA i : i.op = "label" /\ i.label = l)
        distance(k, l) == IF labelAt(l) = 0 THEN 0 ELSE at[labelAt(l)] - at[k]
        linked == [k \in DOMAIN g.code |->
                      IF g.code[k].op \in {"Jump", "JumpIfFalse", "TryGetField"}
                      THEN [g.code[k] EXCEPT !.target = distance(k, @)] ELSE g.code[k]]
    IN  SelectSeq(linked, LAMBDA i : i.op # "label")

\* What is left of a generator.
Finished(g) ==
    [code |-> Linked(g), numLocals |-> g.numLocals, constants |-> g.constants,
     identifiers |-> g.identifiers]

\* generateImpl(), for a function with these names of parameters
FunctionBlock(names, body) ==
    LET result == Local(newLocal(Generator))
        bound == FoldLeftDomain(LAMBDA h, k : setLocal(h, names[k], forParameter(k - 1)),
                                newLocal(Generator), names)
    IN  Finished(Emit(Statement(bound, body, result), [op |-> "End", dst |-> result]))
=============================================================================
