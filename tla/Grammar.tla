------------------------------ MODULE Grammar ------------------------------
(***************************************************************************)
(* What the parser promises: the texts that write a program.  A writing is *)
(* a sequence of lexemes, and a tree may have several: x.f(y) for f(x, y), *)
(* x + y for (+)(x, y), a list with a comma behind its last element.       *)
(*                                                                         *)
(* Writings(t) are all of them, Closed(t) those that may be followed by a  *)
(* call, a subscript, a dot or an operator: everything behind an operator, *)
(* a | or an arrow belongs to it.                                          *)
(***************************************************************************)
EXTENDS Parser

Lexeme(name) == <<name>>    \* of one character

\* Every writing of one, followed by every writing of the other.
Then(these, those) == {this \o that : this \in these, that \in those}
Word(name) == {<<Lexeme(name)>>}
Between(open, these, close) == Then(Then(Word(open), these), Word(close))

RECURSIVE Separated(_)
Separated(writings) ==
    CASE writings = <<>> -> {<<>>}
      [] Len(writings) = 1 -> writings[1]
      [] OTHER -> Then(Then(writings[1], Word(",")), Separated(Tail(writings)))
Commas(writings) ==
    IF writings = <<>> THEN {<<>>}
    ELSE Separated(writings) \cup Then(Separated(writings), Word(","))

\* In parentheses, what starts like an operator is one.
InParentheses(these) ==
    Between("(", {this \in these : this[1][1] \notin OperatorChars}, ")")
\* The operators that start with ., | or -> are read as these.
Infix(op) ==
    /\ op[1] # "." /\ ~IsPrefix(<<"-", ">">>, op)
    /\ op[1] = "|" => IsPrefix(<<"|", "|">>, op)

RECURSIVE Written(_, _)
Closed(t) == Written(t, TRUE)
Writings(t) == Written(t, FALSE)

Each(trees) == [i \in DOMAIN trees |-> Writings(trees[i])]
Called(callee, arguments) == Then(callee, Between("(", Commas(Each(arguments)), ")"))
Dotted(object, names) == Then(Then(Closed(object), Word(".")), names)
\* The fields of an object, separated from what they stand for.
Bound(fields, sign) ==
    [i \in DOMAIN fields |-> Then(Then(Closed(fields[i].name), {<<sign>>}),
                                  Writings(fields[i].value))]

ClosedCall(t) ==
    Called(Closed(t.callee), t.arguments)
    \cup (IF t.callee.node = "Identifier" /\ ~t.callee.isOperator /\ t.arguments # <<>>
          THEN Called(Dotted(t.arguments[1], Closed(t.callee)), Tail(t.arguments)) ELSE {})
    \cup (IF t.callee.node = "Parenthesized"
          THEN Called(Dotted(t.callee.expression, {<<>>}), t.arguments) ELSE {})
ObjectTypeFields(fields) ==
    IF fields = <<>> THEN Word(":") ELSE Commas(Bound(fields, Lexeme(":")))
ClosedWritings(t) ==
    CASE t.node = "Identifier" /\ ~t.isOperator -> {<<t.name>>}
      [] t.node = "Identifier" /\ t.isOperator -> Between("(", {<<t.name>>}, ")")
      [] t.node = "Literal" -> {<<t.value>>}
      [] t.node = "TypeType" -> Word("Type")
      [] t.node = "Array" -> Between("[", Commas(Each(t.items)), "]")
      [] t.node = "Object" -> Between("{", Commas(Bound(t.fields, Lexeme("="))), "}")
      [] t.node = "ObjectType" -> Between("{", ObjectTypeFields(t.fields), "}")
      [] t.node = "Parenthesized" -> InParentheses(Writings(t.expression))
      [] t.node = "Tuple" -> InParentheses(Separated(Each(t.items)))
      [] t.node = "TupleType" -> Between("<", Commas(Each(t.items)), ">")
      [] t.node = "Call" -> ClosedCall(t)
      [] t.node = "Member" -> Dotted(t.object, Closed(t.property))
      [] t.node = "Subscript" -> Then(Closed(t.target), Between("[", Writings(t.index), "]"))
      [] t.node = "ArrayType" -> Then(Closed(t.itemType), Between("[", {<<>>}, "]"))
      [] OTHER -> {}

\* Two operands and what stands between them.
Joined(lhs, sign, rhs) == Then(Then(lhs, {<<sign>>}), Writings(rhs))
InfixCall(t) ==
    IF t.callee.node = "Identifier" /\ t.callee.isOperator /\ Len(t.arguments) = 2
       /\ Infix(t.callee.name)
    THEN Joined(Closed(t.arguments[1]), t.callee.name, t.arguments[2]) ELSE {}
Parameters(parameters) ==
    IF Len(parameters) = 1 THEN Closed(parameters[1])
    ELSE InParentheses(Separated(Each(parameters)))
Optional(sign, trees) ==
    IF trees = <<>> THEN {<<>>} ELSE Then(Word(sign), Writings(trees[1]))
TypedName(t) ==
    Then(IF t.inferred THEN Word("%") ELSE {<<>>},
         Joined(Closed(t.name), IF t.isSubtype THEN <<"<", ":">> ELSE Lexeme(":"), t.type))
\* Where nothing stands for a tree: the statements that are not parsed.
Nothing == Word("for") \cup Word("while")

RECURSIVE Sequence(_)
Sequence(trees) ==
    IF trees = <<>> THEN {<<>>} ELSE Then(Writings(trees[1]), Sequence(Tail(trees)))
\* A function is named by an operator without parentheses around it.
FunctionWritings(t) ==
    Then(Then(Word("function"), {<<t.name.name>>}),
         Then(Between("(", Commas([i \in DOMAIN t.parameters |-> TypedName(t.parameters[i])]), ")"),
              Then(Joined({<<>>}, <<"-", ">">>, t.returnType), Writings(t.body))))
CaseWritings(t) ==
    Then(Between("case", Writings(t.pattern), ":"), Writings(t.statement))
\* The default case may stand anywhere between the others.
MatchWritings(t) ==
    LET cases == [i \in DOMAIN t.cases |-> CaseWritings(t.cases[i])]
        default == Then(Then(Word("default"), Word(":")), Writings(t.defaultCase))
        all == IF IsNull(t.defaultCase) THEN {cases}
               ELSE {InsertAt(cases, i, default) : i \in 1..Len(cases) + 1}
    IN  Then(Then(Word("match"), Between("(", Writings(t.scrutinee), ")")),
             Between("{", UNION {FoldLeft(Then, {<<>>}, those) : those \in all}, "}"))
OpenWritings(t) ==
    CASE t.node = "Call" -> InfixCall(t)
      [] t.node = "UnionType" -> Joined(Closed(t.lhs), Lexeme("|"), t.rhs)
      [] t.node = "FunctionType" -> Joined(Parameters(t.parameters), <<"-", ">">>, t.returnType)
      [] t.node = "Lazy" -> Then(Word("#"), Writings(t.expression))
      [] t.node = "Let" ->
            Then(Then(Word("let") \cup Word("const"), Closed(t.name)),
                 Then(Optional(":", t.type), Optional("=", <<t.initializer>>)))
      [] t.node = "Function" -> FunctionWritings(t)
      [] t.node = "Block" -> Between("{", Sequence(t.declarations), "}")
      [] t.node = "Empty" -> Word(";")
      [] t.node = "Return" -> Then(Word("return"), Writings(t.expression))
      [] t.node = "If" ->
            Then(Then(Word("if"), Between("(", Writings(t.condition), ")")),
                 Then(Writings(t.consequent), Optional("else", t.alternate)))
      [] t.node = "Match" -> MatchWritings(t)
      [] t.node = "IdentifierPattern" -> Closed(t.name)
      [] t.node = "UnderscorePattern" -> Word("_")
      [] t.node = "LiteralPattern" -> Closed(t.literal)
      [] t.node = "ObjectPattern" ->
            Between("{", Commas([i \in DOMAIN t.entries |->
                                Then(Then(Closed(t.entries[i].name), Word("=")),
                                     Writings(t.entries[i].value))]), "}")
      [] t.node = "nullptr" -> Nothing
      [] OTHER -> {}
Written(t, isClosed) == ClosedWritings(t) \cup (IF isClosed THEN {} ELSE OpenWritings(t))

\* The characters of a writing, and a text in which it stands alone.
Characters(writing) == FlattenSeq(writing)
Spaced(writing) == FlattenSeq([i \in DOMAIN writing |-> Append(writing[i], " ")])
=============================================================================
