----------------------------- MODULE Execution ------------------------------
(***************************************************************************)
(* Running the code of a function: what Codegen.tla generates, by the      *)
(* handlers of the interpreter, with the objects of the runtime -          *)
(* environments, objects, arrays, tuples, types and their equality         *)
(* (runtime/Environment, Object, Array, Tuple, Value and Equality).        *)
(*                                                                         *)
(* Against it stands the meaning of the same function, by its tree alone,  *)
(* where a block is a scope, as for the type checker (Typing.cpp).         *)
(***************************************************************************)
EXTENDS Codegen, Handlers

CONSTANTS
    Programs,   \* sequence of functions: names, body and inputs
    Globals,    \* the enclosing environment: words by name
    Strings     \* the strings of the literals: texts by address

(* The inputs of a program are the words its parameters may have.  A       *)
(* function of the environment is known only by its word; calling it gives *)
(* a tuple of its own with the function and the arguments.                 *)
ASSUME ExecutionAssumption ==
    \A k \in DOMAIN Programs :
        /\ Len(Programs[k].names) \in 0 .. 3
        /\ \A words \in Programs[k].inputs : Len(words) = Len(Programs[k].names)

VARIABLES
    program, input, \* what is run, with which arguments (do not change)
    block,          \* its bytecode (does not change)
    pc, registers,  \* m_ip and m_cfr
    environment,    \* the words of m_environment, by name
    heap,           \* cells by address
    outcome         \* "running", "returned", or what ended it
vars == <<program, input, block, pc, registers, environment, heap, outcome>>

----------------------------------------------------------------------------
(* Cells: a kind, items and fields.  class tells types from one another.   *)

NoFields == [f \in {} |-> crash]
Cell(kind, class, items, fields) ==
    [kind |-> kind, class |-> class, items |-> items, fields |-> fields]
FirstAddress == 512
Fresh == FirstAddress + 8 * Cardinality(DOMAIN heap)
Kind(w) == IF w \in DOMAIN heap THEN heap[w].kind ELSE Kinds.Function

\* What a call of the runtime leaves.
Answer(w, h, env) == [word |-> w, heap |-> h, environment |-> env, fails |-> ""]
Fails(why) == [Answer(crash, heap, environment) EXCEPT !.fails = why]
Returns(w) == Answer(w, heap, environment)
Created(cell) == Answer(Fresh, heap @@ (Fresh :> cell), environment)
Changed(a, cell) == Answer(unit, [heap EXCEPT ![a] = cell], environment)

NameAt(a) == block.identifiers[IdentifierAt(a)]

\* Environment::get, with the environment of the function and its parent
Get(name) ==
    IF name \in DOMAIN environment THEN environment[name]
    ELSE IF name \in DOMAIN Globals THEN Globals[name] ELSE crash

\* Value::operator==, of a value and a literal: isEqual(Cell*, Cell*) has no
\* case for strings, and one literal of a text is another cell than the next.
Same(l, r) == l = r

\* Array::Array and Tuple::Tuple
New(kind, class, n) == Created(Cell(kind, class, [k \in 1 .. n |-> crash], NoFields))
NewType(class, items, fields) == Created(Cell(Kinds.Type, class, items, fields))
NewTypeTuple(n) ==
    Answer(Fresh + 8,
           heap @@ (Fresh :> Cell(Kinds.Array, "array", [k \in 1 .. n |-> crash], NoFields))
                @@ (Fresh + 8 :> Cell(Kinds.Type, "tuple type", <<>>, "itemsTypes" :> Fresh)),
           environment)

SetIndex(a, index, w) ==
    IF index < Len(heap[a].items) THEN Changed(a, [heap[a] EXCEPT !.items[index + 1] = w])
    ELSE Fails("Array index out of bounds")
\* getIndex(Value): asNumber() asserts that the index is a number.
GetIndex(a, w) ==
    IF ~isNumber(w) THEN Fails("Value is not a number")
    ELSE IF (w - Number(0)) \div 8 < Len(heap[a].items)
    THEN Returns(heap[a].items[(w - Number(0)) \div 8 + 1])
    ELSE Fails("Array index out of bounds")

TryGet(a, name) == IF name \in DOMAIN heap[a].fields THEN heap[a].fields[name] ELSE crash
GetField(a, name) ==
    IF TryGet(a, name) = crash THEN Fails("Unknown field") ELSE Returns(TryGet(a, name))
SetField(a, name, w) == Changed(a, [heap[a] EXCEPT !.fields = (name :> w) @@ @])

\* The runtime, asked by a handler.
Runtime(ask) ==
    CASE ask[1] = "createEnvironment" -> Answer(unit, heap, NoFields)
      [] ask[1] = "jitEnvironmentGet" -> Returns(Get(NameAt(ask[3])))
      [] ask[1] = "Environment::set" ->
            Answer(unit, heap, (NameAt(ask[3]) :> ask[4]) @@ environment)
      [] ask[1] = "createArray" -> New(Kinds.Array, "array", ask[4])
      [] ask[1] = "createTuple" -> New(Kinds.Tuple, "tuple", ask[4])
      [] ask[1] = "createObject" -> New(Kinds.Object, "object", 0)
      [] ask[1] \in {"Array::setIndex", "Tuple::setIndex"} -> SetIndex(ask[2], ask[3], ask[4])
      [] ask[1] = "Array::getIndex" -> GetIndex(ask[2], ask[3])
      [] ask[1] = "Object::set" -> SetField(ask[2], NameAt(ask[3]), ask[4])
      [] ask[1] = "Object::get" -> GetField(ask[2], NameAt(ask[3]))
      [] ask[1] = "tryGetJIT" -> Returns(TryGet(ask[2], NameAt(ask[3])))
      [] ask[1] = "Value::operator==" -> Returns(IF Same(ask[2], ask[3]) THEN 1 ELSE 0)
      [] ask[1] = "trampoline" ->
            Created(Cell(Kinds.Tuple, "result", <<ask[3]>> \o SubSeq(ask, 5, Len(ask)), NoFields))
      [] ask[1] = "createTypeArray" -> NewType("array type", <<ask[3]>>, NoFields)
      [] ask[1] = "createTypeTuple" -> NewTypeTuple(ask[3])
      [] ask[1] = "createTypeRecord" -> NewType("record type", <<>>, NoFields)
      [] ask[1] = "createTypeFunction" ->
            NewType("function type", <<ask[4]>> \o SubSeq(ask, 6, Len(ask)), NoFields)
      [] ask[1] = "createTypeUnion" -> NewType("union type", <<ask[3], ask[4]>>, NoFields)
      [] ask[1] = "runtimeError" -> Fails("runtime error")
      [] OTHER -> Returns(unit)

----------------------------------------------------------------------------
(* Running.                                                                *)

Init ==
    \E k \in DOMAIN Programs : \E words \in Programs[k].inputs :
        /\ program = k /\ input = words
        /\ block = FunctionBlock(Programs[k].names, Programs[k].body)
        /\ pc = 0
        /\ registers = [r \in {forLocal(n) : n \in 1 .. block.numLocals}
                              \cup {forParameter(n - 1) : n \in 1 .. Len(words)} |->
                          IF r < 0 THEN crash ELSE words[r]]
        /\ environment = NoFields
        /\ heap = [w \in DOMAIN Strings |-> Cell(Kinds.String, Strings[w], <<>>, NoFields)]
        /\ outcome = "running"

InstructionAt(offset) ==
    LET at == Offsets(block.code)
    IN  block.code[CHOOSE k \in DOMAIN block.code : at[k] = offset]

Interpreter(answers) ==
    [block |-> block, pc |-> pc, registers |-> registers, environment |-> 0, parent |-> 0,
     answers |-> answers, kinds |-> [w \in {r \in {registers[q] : q \in DOMAIN registers} :
                                              isCell(r)} |-> Kind(w)]]

\* What the handler of an instruction asks first does not depend on answers.
Asks(ip) == Handler(Interpreter(<<unit>>), ip).asks

\* An instruction: its handler, with what the runtime answers.
Run(ip) ==
    \E answer \in {IF Asks(ip) = <<>> THEN Returns(unit) ELSE Runtime(Asks(ip)[1])} :
    \E h \in {Handler(Interpreter(<<answer.word>>), ip)} :
        /\ heap' = answer.heap /\ environment' = answer.environment
        /\ registers' = h.registers /\ pc' = h.to
        /\ outcome' = IF answer.fails # "" THEN answer.fails
                      ELSE IF ip.op = "End" THEN "returned" ELSE "running"
        /\ UNCHANGED <<program, input, block>>

Step == outcome = "running" /\ \E ip \in {InstructionAt(pc)} : Run(ip)
Ended == outcome # "running" /\ UNCHANGED vars

Next == Step \/ Ended
Spec == Init /\ [][Next]_vars
FairSpec == Spec /\ WF_vars(Step)

----------------------------------------------------------------------------
(* What a function means.  A value is a tree: a word, or a tag, the values *)
(* of its items and those of its fields.                                   *)

RECURSIVE Tree(_)
Tree(w) ==
    IF w \in DOMAIN Strings THEN <<"string", Strings[w]>>
    ELSE IF w \notin DOMAIN heap THEN <<"word", w>>
    ELSE <<heap[w].class, [k \in DOMAIN heap[w].items |-> Tree(heap[w].items[k])],
           [f \in DOMAIN heap[w].fields |-> Tree(heap[w].fields[f])]>>

Failure(why) == <<"fails", why>>
Composed(tag, items) ==
    LET failed == SelectInSeq(items, LAMBDA t : t[1] = "fails")
    IN  IF failed = 0 THEN <<tag, items, NoFields>> ELSE items[failed]
WithFields(tag, names, items) ==
    LET failed == SelectInSeq(items, LAMBDA t : t[1] = "fails")
    IN  IF failed # 0 THEN items[failed]
        ELSE <<tag, <<>>, [f \in ToSet(names) |->
                              items[SelectInSeq(names, LAMBDA n : n = f)]]>>

RECURSIVE Means(_, _)
Each(items, env) == [k \in DOMAIN items |-> Means(items[k], env)]
Element(both) ==
    IF both[1] = "fails" THEN both
    ELSE LET items == both[2][1][2]
             index == both[2][2][2]
         IN  CASE ~isNumber(index) -> Failure("Value is not a number")
               [] (index - Number(0)) \div 8 >= Len(items) -> Failure("Array index out of bounds")
               [] OTHER -> items[(index - Number(0)) \div 8 + 1]
FieldOf(tree, name) ==
    IF tree[1] = "fails" THEN tree
    ELSE IF name \in DOMAIN tree[3] THEN tree[3][name] ELSE Failure("Unknown field")

Means(e, env) ==
    CASE e.node = "Identifier" -> env[e.name]
      [] e.node \in {"Parenthesized", "Lazy"} -> Means(e.expression, env)
      [] e.node \in {"Literal", "TypeType"} -> Tree(e.value)
      [] e.node = "Object" ->
            WithFields("object", [k \in DOMAIN e.fields |-> e.fields[k][1]],
                       [k \in DOMAIN e.fields |-> Means(e.fields[k][2], env)])
      [] e.node = "ObjectType" ->
            WithFields("record type", [k \in DOMAIN e.fields |-> e.fields[k][1]],
                       [k \in DOMAIN e.fields |-> Means(e.fields[k][2], env)])
      [] e.node = "Array" -> Composed("array", Each(e.items, env))
      [] e.node = "Tuple" -> Composed("tuple", Each(e.items, env))
      [] e.node = "Call" -> Composed("result", <<Means(e.callee, env)>> \o Each(e.arguments, env))
      [] e.node = "Subscript" ->
            Element(Composed("both", <<Means(e.target, env), Means(e.index, env)>>))
      [] e.node = "Member" -> FieldOf(Means(e.object, env), e.property)
      [] e.node = "ArrayType" -> Composed("array type", <<Means(e.itemType, env)>>)
      [] e.node = "TupleType" ->
            WithFields("tuple type", <<"itemsTypes">>, <<Composed("array", Each(e.items, env))>>)
      [] e.node = "FunctionType" ->
            Composed("function type", <<Means(e.returnType, env)>> \o Each(e.parameters, env))
      [] e.node = "UnionType" ->
            Composed("union type", <<Means(e.lhs, env), Means(e.rhs, env)>>)

\* What a pattern binds to the parts of a value, or NoMatch.
NoMatch == <<"no match">>
RECURSIVE Binds(_, _)
Joined(parts) ==
    IF NoMatch \in ToSet(parts) THEN NoMatch
    ELSE <<"binds", FoldLeft(LAMBDA env, part : part[2] @@ env, NoFields, parts)>>
Binds(p, tree) ==
    CASE p.node = "UnderscorePattern" -> <<"binds", NoFields>>
      [] p.node = "IdentifierPattern" -> <<"binds", p.name :> tree>>
      [] p.node = "LiteralPattern" ->
            IF tree = Tree(p.value) THEN <<"binds", NoFields>> ELSE NoMatch
      [] p.node = "ObjectPattern" ->
            IF tree[1] # "object" THEN NoMatch
            ELSE Joined([k \in DOMAIN p.entries |->
                            IF p.entries[k][1] \in DOMAIN tree[3]
                            THEN Binds(p.entries[k][2], tree[3][p.entries[k][1]])
                            ELSE NoMatch])

\* A statement has a value, and leaves an environment.
Outcome(tree, env) == [tree |-> tree, env |-> env]
RECURSIVE MeansStatement(_, _)
Chosen(s, value, env) ==
    LET matching == SelectInSeq(s.cases, LAMBDA c : Binds(c.pattern, value) # NoMatch)
    IN  CASE value[1] = "fails" -> value
          [] value[1] # "fails" /\ matching # 0 ->
                MeansStatement(s.cases[matching].statement,
                               Binds(s.cases[matching].pattern, value)[2] @@ env).tree
          [] value[1] # "fails" /\ matching = 0 /\ s.defaultCase # <<>> ->
                MeansStatement(s.defaultCase[1], env).tree
          [] OTHER -> Failure("runtime error")
Bound(name, tree, env) == Outcome(tree, (name :> tree) @@ env)
Then(before, s) ==
    IF before.tree[1] = "fails" THEN before ELSE MeansStatement(s, before.env)
Branch(s, condition, env) ==
    CASE condition[1] = "fails" -> condition
      [] condition = <<"word", Bool(TRUE)>> -> MeansStatement(s.consequent, env).tree
      [] OTHER -> MeansStatement(s.alternate[1], env).tree
MeansStatement(s, env) ==
    CASE s.node = "Block" ->
            Outcome(FoldLeft(Then, Outcome(<<"word", unit>>, env), s.declarations).tree, env)
      [] s.node = "If" -> Outcome(Branch(s, Means(s.condition, env), env), env)
      [] s.node = "Match" -> Outcome(Chosen(s, Means(s.scrutinee, env), env), env)
      [] s.node = "Expression" -> Outcome(Means(s.expression, env), env)
      [] s.node = "Let" -> Bound(s.name, Means(s.initializer, env), env)

Meaning ==
    MeansStatement(Programs[program].body,
                   [n \in ToSet(Programs[program].names) |->
                       Tree(input[SelectInSeq(Programs[program].names, LAMBDA m : m = n)])]
                   @@ [n \in DOMAIN Globals |-> <<"word", Globals[n]>>]).tree

----------------------------------------------------------------------------
(* Properties.                                                             *)

\* A function returns what its text says, or fails as its text does: no part
\* of an expression loses its value to another one that is evaluated into
\* the same register, arguments and items keep their places, and a match is
\* decided by the first pattern the value has.
CodeMeansTheText ==
    outcome # "running" =>
        IF outcome = "returned"
        THEN Tree(registers[block.code[Len(block.code)].dst]) = Meaning
        ELSE <<"fails", outcome>> = Meaning

\* asNumber() is asked for the number of a number (Value.cpp), unless the
\* text has something else there: what a type checker is to prevent.
IndicesAreNumbers ==
    outcome = "Value is not a number" => Meaning = <<"fails", "Value is not a number">>

\* A match reports that all patterns failed (Codegen.cpp) when they did: when
\* none of them is what the value is, as the text has it.
PatternsFailWhenNoneMatches ==
    outcome = "runtime error" => Meaning = <<"fails", "runtime error">>

\* Every jump of a function leads somewhere: no function without a loop in
\* its text (there are none in the language) runs forever.
EveryProgramEnds == <>(outcome # "running")
=============================================================================
