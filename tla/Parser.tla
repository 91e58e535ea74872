------------------------------- MODULE Parser -------------------------------
(***************************************************************************)
(* parser/Parser.cpp: a recursive descent over the tokens of the lexer.    *)
(*                                                                         *)
(* A parser p is a record: the lexer; errors, the offsets of what was      *)
(* reported; ends, m_endsWithToken; and ok, FALSE when the function that   *)
(* runs is about to return nullptr.  Its first token is always the next    *)
(* one of the lexer, which the code passes as a parameter instead.         *)
(*                                                                         *)
(* A parse function is the sequence of its steps: the tokens it consumes   *)
(* and what it reads into which field of the tree it makes.                *)
(***************************************************************************)
EXTENDS Lexer, SequencesExt

Parser(source) == [lexer |-> Lexer(source), errors |-> <<>>, ends |-> "UNKNOWN", ok |-> TRUE]

Null == [node |-> "nullptr"]
IsNull(tree) == tree.node = "nullptr"

Peek(p) == p.lexer.token.type
Advance(p) == [p EXCEPT !.lexer = nextToken(@)]
Second(p) == Peek(Advance(p))           \* the token behind the next one
Stopped(p) == p.lexer.fate # ""
Forever(p) == [p EXCEPT !.lexer = Hangs(@)]
SegmentationFault(p) == [p EXCEPT !.lexer = Ends(@, "segmentation fault")]

parseError(p, start) ==
    IF Stopped(p) THEN p ELSE [p EXCEPT !.errors = Append(@, start)]
\* (A mutant: the token is not read.)
unexpectedTokenStays(p) == parseError(p, p.lexer.token.start)
\* unexpectedToken(m_lexer.next()): the token behind it is read first.
unexpectedToken(p) == parseError(Advance(p), p.lexer.token.start)

\* CONSUME(type), which returns from the function when it fails.
Consume(p, type) ==
    IF Peek(p) = type THEN Advance(p) ELSE [unexpectedToken(p) EXCEPT !.ok = FALSE]

\* What a function returns: its tree, or nullptr.
Made(p, tree) == [p |-> p, tree |-> tree]
Token(p, types, tree) ==
    IF Peek(p) \in types THEN Made(Advance(p), tree) ELSE Made(unexpectedToken(p), Null)

----------------------------------------------------------------------------
(* Steps.                                                                  *)

Step(do) == [do |-> do]
Next_ == Step("next")
Take(type) == [do |-> "consume", type |-> type]
EndsWith(type) == [do |-> "ends with", type |-> type]   \* to the end of the function
Set(field, value) == [do |-> "set", field |-> field, value |-> value]
Gets(field, what) == [do |-> "read", field |-> field, what |-> what]
Adds(field, what) == [do |-> "add", field |-> field, what |-> what]
\* By the next token.
If(type, then, else) == [do |-> "if", type |-> type, then |-> then, else |-> else]
\* Elements up to a token, while there is a comma behind; declarations up
\* to a token.
List(field, what, end) == [do |-> "list", field |-> field, what |-> what, type |-> end]
Until(field, end) == [do |-> "until", field |-> field, what |-> "declaration", type |-> end]

Into(r, field, made) == [r EXCEPT !.p = made.p, !.tree = (field :> made.tree) @@ @]
Onto(r, field, made) == [r EXCEPT !.p = made.p, !.tree[field] = Append(@, made.tree)]

RECURSIVE parse(_, _), Steps(_, _), Listed(_, _), Declarations(_, _)
Further(r, list) ==
    IF r.p.ok /\ Peek(r.p) = "COMMA" THEN Listed([r EXCEPT !.p = Advance(@)], list) ELSE r
Listed(r, list) ==
    IF ~r.p.ok \/ Stopped(r.p) \/ Peek(r.p) = list.type THEN r
    ELSE Further(Onto(r, list.field, parse(list.what, r.p)), list)

\* Forever, when the token is not there and nothing more is read.
Declared(r, p, until) ==
    IF r.p.lexer = p.lexer THEN [r EXCEPT !.p = Forever(@)] ELSE Declarations(r, until)
Declarations(r, until) ==
    IF Stopped(r.p) \/ Peek(r.p) = until.type THEN r
    ELSE Declared(Onto(r, until.field, parse("declaration", r.p)), r.p, until)

\* The cases of a match, in braces.
NoMultipleDefaults(r) ==
    IF IsNull(r.tree.defaultCase) THEN r
    ELSE [r EXCEPT !.p = parseError(@, @.lexer.token.start)]
AtDefault == <<Take("DEFAULT"), Take("COLON"), Gets("defaultCase", "statement"), Step("cases")>>
AtCase == <<Adds("cases", "case"), Step("cases")>>
Cases(r) ==
    CASE Peek(r.p) = "DEFAULT" -> Steps(NoMultipleDefaults(r), AtDefault)
      [] Peek(r.p) = "CASE" -> Steps(r, AtCase)
      [] Peek(r.p) = "R_BRACE" -> r
      [] OTHER -> [r EXCEPT !.p = unexpectedToken(@)]
HasCases(r) ==
    IF r.tree.cases = <<>> /\ IsNull(r.tree.defaultCase)
    THEN [r EXCEPT !.p = parseError(@, r.start)] ELSE r
HasTwoMembers(r) ==
    IF Len(r.tree.items) < 2 THEN [r EXCEPT !.p = parseError(@, r.start)] ELSE r

Stepped(r, step) ==
    CASE step.do = "next" -> [r EXCEPT !.p = Advance(@)]
      [] step.do = "consume" -> [r EXCEPT !.p = Consume(@, step.type)]
      [] step.do = "ends with" -> [r EXCEPT !.p.ends = step.type]
      [] step.do = "set" -> [r EXCEPT !.tree = (step.field :> step.value) @@ @]
      [] step.do = "read" -> Into(r, step.field, parse(step.what, r.p))
      [] step.do = "add" -> Onto(r, step.field, parse(step.what, r.p))
      [] step.do = "if" -> Steps(r, IF Peek(r.p) = step.type THEN step.then ELSE step.else)
      [] step.do = "list" -> Listed(r, step)
      [] step.do = "until" -> Declarations(r, step)
      [] step.do = "cases" -> Cases(r)
      [] step.do = "has cases" -> HasCases(r)
      [] step.do = "has two members" -> HasTwoMembers(r)
Steps(r, steps) ==
    IF steps = <<>> \/ ~r.p.ok \/ Stopped(r.p) THEN r
    ELSE Steps(Stepped(r, Head(steps)), Tail(steps))

Returned(r, ends) ==
    Made([r.p EXCEPT !.ok = TRUE, !.ends = ends], IF r.p.ok THEN r.tree ELSE Null)
Run(p, tree, steps) ==
    Returned(Steps([p |-> p, tree |-> tree, start |-> p.lexer.token.start], steps), p.ends)
\* A part of the function that runs: when a token is missing, it returns.
Inline(p, tree, steps) ==
    LET r == Steps([p |-> p, tree |-> tree, start |-> p.lexer.token.start], steps)
    IN  Made(r.p, r.tree)

----------------------------------------------------------------------------
(* Names and literals.                                                     *)

Name(lexeme_, isOperator) ==
    [node |-> "Identifier", name |-> lexeme_, isOperator |-> isOperator]
parseIdentifier(p) == Token(p, {"IDENTIFIER"}, Name(lexeme(p.lexer), FALSE))
\* parseOperator(getOperator())
parseOperator(p, got) ==
    IF got.type = "OPERATOR" THEN Made([p EXCEPT !.lexer = got.lexer], Name(got.lexeme, TRUE))
    ELSE Made(parseError([p EXCEPT !.lexer = got.lexer], got.lexer.token.start), Null)
parseLiteral(p) ==
    Token(p, {"NUMBER", "STRING", "TRUE", "FALSE"},
          [node |-> "Literal", value |-> lexeme(p.lexer)])

----------------------------------------------------------------------------
(* Expressions.                                                            *)

parseArrayLiteralExpression ==
    <<EndsWith("R_SQUARE"), Take("L_SQUARE"), List("items", "expression", "R_SQUARE"),
      Take("R_SQUARE")>>
parseLazyExpression == <<Take("HASH"), Gets("expression", "expression")>>
parseTupleTypeExpression ==
    <<EndsWith("R_ANGLE"), Take("L_ANGLE"), List("items", "expression", "R_ANGLE"),
      Take("R_ANGLE"), Step("has two members")>>

\* The first separator decides between an object and the type of one; there is
\* none of them when a later one is missing.
Fields(separator) == <<List("fields", separator, "R_BRACE"), Take("R_BRACE")>>
Field(separator) == <<Gets("name", "identifier"), Take(separator), Gets("value", "expression")>>
ObjectLiteralExpressionOrObjectType(p) ==
    CASE Peek(p) = "R_BRACE" -> Made(Advance(p), [node |-> "Object", fields |-> <<>>])
      [] Peek(p) = "COLON" ->
            Run(p, [node |-> "ObjectType", fields |-> <<>>], <<Next_, Take("R_BRACE")>>)
      [] Peek(p) \notin {"R_BRACE", "COLON"} /\ Second(p) = "COLON" ->
            Run(p, [node |-> "ObjectType", fields |-> <<>>], Fields("COLON"))
      [] Peek(p) \notin {"R_BRACE", "COLON"} /\ Second(p) = "EQUAL" ->
            Run(p, [node |-> "Object", fields |-> <<>>], Fields("EQUAL"))
      [] OTHER -> Made(unexpectedToken(parse("identifier", p).p), Null)

\* (An expression that starts with # or < is taken for an operator here.)
OperatorInParentheses(made) ==
    Returned([p |-> Consume(made.p, "R_PAREN"), tree |-> made.tree], made.p.ends)
RECURSIVE Tuple(_)
Tuple(r) ==
    IF Peek(r.p) = "COMMA"
    THEN Tuple(Onto([r EXCEPT !.p = Advance(@)], "items", parse("expression", Advance(r.p))))
    ELSE Steps(r, <<Take("R_PAREN")>>)
ParenthesizedOrTuple(made) ==
    CASE Peek(made.p) = "R_PAREN" ->
            Made(Advance(made.p), [node |-> "Parenthesized", expression |-> made.tree])
      [] Peek(made.p) = "COMMA" ->
            Returned(Tuple([p |-> made.p, tree |-> [node |-> "Tuple", items |-> <<made.tree>>]]),
                     made.p.ends)
      [] OTHER -> Made(unexpectedToken(made.p), Null)
\* (A mutant: an operator is not looked for.)
ParenthesizedOnly(p) == ParenthesizedOrTuple(parse("expression", p))
ParenthesizedExpressionOrTuple(p) ==
    IF peekIsOperator(p.lexer)
    THEN OperatorInParentheses(parseOperator(p, getOperator(p.lexer, "R_PAREN")))
    ELSE ParenthesizedOrTuple(parse("expression", p))

\* Behind the token that opens it.
Inside(made, p) == [made EXCEPT !.p.ends = p.ends]
Opened(p, ends) == [Advance(p) EXCEPT !.ends = ends]
parseObjectLiteralExpressionOrObjectType(p) ==
    Inside(ObjectLiteralExpressionOrObjectType(Opened(p, "R_BRACE")), p)
parseParenthesizedExpressionOrTuple(p) ==
    Inside(ParenthesizedExpressionOrTuple(Opened(p, "R_PAREN")), p)
parsePrimaryExpression(p) ==
    CASE Peek(p) = "L_SQUARE" ->
            Run(p, [node |-> "Array", items |-> <<>>], parseArrayLiteralExpression)
      [] Peek(p) = "L_BRACE" -> parseObjectLiteralExpressionOrObjectType(p)
      [] Peek(p) = "L_PAREN" -> parseParenthesizedExpressionOrTuple(p)
      [] Peek(p) = "L_ANGLE" ->
            Run(p, [node |-> "TupleType", items |-> <<>>], parseTupleTypeExpression)
      [] Peek(p) = "HASH" -> Run(p, [node |-> "Lazy"], parseLazyExpression)
      [] Peek(p) = "IDENTIFIER" -> parseIdentifier(p)
      [] Peek(p) = "TYPE" -> Made(Advance(p), [node |-> "TypeType"])
      [] OTHER -> parseLiteral(p)

\* x.f(y) is f(x, y).  A member without a name has no location to give.
parseCallExpression ==
    <<Take("L_PAREN"), List("arguments", "expression", "R_PAREN"), Take("R_PAREN")>>
Call(p, callee, arguments) ==
    IF IsNull(callee) THEN Made(SegmentationFault(p), Null)
    ELSE Run(p, [node |-> "Call", callee |-> callee, arguments |-> arguments],
             parseCallExpression)
MemberOrUFCSCall(p, object) ==
    IF Peek(p) = "L_PAREN"
    THEN Call(p, [node |-> "Parenthesized", expression |-> object], <<>>)
    ELSE Run(p, [node |-> "Member", object |-> object], <<Gets("property", "identifier")>>)
Subscript(p, target) ==
    IF Peek(p) = "R_SQUARE" THEN Made(Advance(p), [node |-> "ArrayType", itemType |-> target])
    ELSE Run(p, [node |-> "Subscript", target |-> target],
             <<Gets("index", "expression"), Take("R_SQUARE")>>)

parseFunctionTypeExpression == <<Take("ARROW"), Gets("returnType", "expression")>>
Domain(parameters) ==
    IF parameters.node = "Tuple" THEN parameters.items ELSE <<parameters>>
parseUnionTypeExpression == <<Take("PIPE"), Gets("rhs", "expression")>>
\* (A mutant: the right operand is one name.)
parseBinaryExpressionOfName(op, lhs) ==
    Run(op.p, [node |-> "Call", callee |-> op.tree, arguments |-> <<lhs>>],
        <<Adds("arguments", "identifier")>>)
\* Everything behind an operator is its right operand.
parseBinaryExpression(op, lhs) ==
    Run(op.p, [node |-> "Call", callee |-> op.tree, arguments |-> <<lhs>>],
        <<Adds("arguments", "expression")>>)

\* Whether the loop over the suffixes stops here.
AtOperator(p) ==
    peekIsOperator(p.lexer) /\ getOperator(p.lexer, p.ends).type = "OPERATOR"
parseSuffixExpression(p, expr) ==
    CASE Peek(p) = "L_PAREN" ->
            IF expr.node = "Member" THEN Call(p, expr.property, <<expr.object>>)
            ELSE Call(p, expr, <<>>)
      [] Peek(p) = "L_SQUARE" -> Subscript(Advance(p), expr)
      [] Peek(p) = "DOT" -> MemberOrUFCSCall(Advance(p), expr)
      [] Peek(p) = "ARROW" ->
            Run(p, [node |-> "FunctionType", parameters |-> Domain(expr)],
                parseFunctionTypeExpression)
      [] Peek(p) = "PIPE" ->
            Run(p, [node |-> "UnionType", lhs |-> expr], parseUnionTypeExpression)
      [] OTHER -> parseBinaryExpression(parseOperator(p, getOperator(p.lexer, p.ends)), expr)

\* What is where it was after a suffix will be there after the next one, too.
RECURSIVE SuffixExpressions(_)
Suffixed(r, next) ==
    IF next.p.lexer = r.p.lexer THEN Made(Forever(r.p), Null) ELSE SuffixExpressions(next)
SuffixExpressions(r) ==
    IF ~IsNull(r.tree) /\ ~Stopped(r.p)
       /\ (Peek(r.p) \in {"L_PAREN", "L_SQUARE", "DOT", "ARROW", "PIPE"} \/ AtOperator(r.p))
    THEN Suffixed(r, parseSuffixExpression(r.p, r.tree)) ELSE r

----------------------------------------------------------------------------
(* Patterns, statements and declarations.                                  *)

Entry == <<Gets("name", "identifier"), Take("EQUAL"), Gets("value", "pattern")>>
parseObjectPattern ==
    <<EndsWith("R_BRACE"), Take("L_BRACE"), List("entries", "entry", "R_BRACE"), Take("R_BRACE")>>
parsePattern(p) ==
    CASE Peek(p) = "IDENTIFIER" ->
            Run(p, [node |-> "IdentifierPattern"], <<Gets("name", "identifier")>>)
      [] Peek(p) = "UNDERSCORE" -> Made(Advance(p), [node |-> "UnderscorePattern"])
      [] Peek(p) = "L_BRACE" ->
            Run(p, [node |-> "ObjectPattern", entries |-> <<>>], parseObjectPattern)
      [] OTHER -> Run(p, [node |-> "LiteralPattern"], <<Gets("literal", "literal")>>)

parseBlockStatement == <<Take("L_BRACE"), Until("declarations", "R_BRACE"), Take("R_BRACE")>>
parseIfStatement ==
    <<Take("IF"), Take("L_PAREN"), EndsWith("R_PAREN"), Gets("condition", "expression"),
      Take("R_PAREN"), Gets("consequent", "statement"),
      If("ELSE", <<Take("ELSE"), Adds("alternate", "statement")>>, <<>>)>>
parseReturnStatement == <<Take("RETURN"), Gets("expression", "expression")>>
parseMatchStatement ==
    <<Take("MATCH"), Take("L_PAREN"), EndsWith("R_PAREN"), Gets("scrutinee", "expression"),
      Take("R_PAREN"), Take("L_BRACE"), EndsWith("R_BRACE"), Step("cases"), Take("R_BRACE"),
      Step("has cases")>>
parseMatchCase ==
    <<Take("CASE"), Gets("pattern", "pattern"), Take("COLON"), Gets("statement", "statement")>>

\* for and while are not parsed, but no error either.
parseStatement(p, isTopLevel) ==
    CASE Peek(p) = "IF" -> Run(p, [node |-> "If", alternate |-> <<>>], parseIfStatement)
      [] Peek(p) \in {"FOR", "WHILE"} -> Made(Advance(p), Null)
      [] Peek(p) = "RETURN" -> Run(p, [node |-> "Return"], parseReturnStatement)
      [] Peek(p) = "SEMICOLON" -> Made(Advance(p), [node |-> "Empty"])
      [] Peek(p) = "MATCH" ->
            Run(p, [node |-> "Match", cases |-> <<>>, defaultCase |-> Null], parseMatchStatement)
      [] Peek(p) = "L_BRACE" /\ ~isTopLevel ->
            Run(p, [node |-> "Block", declarations |-> <<>>], parseBlockStatement)
      [] OTHER -> parse("expression", p)

parseLexicalDeclaration ==
    <<Next_, Gets("name", "identifier"), If("COLON", <<Next_, Adds("type", "expression")>>, <<>>),
      Take("EQUAL"), Gets("initializer", "expression")>>
parseTypedIdentifier ==
    <<If("MOD", <<Next_, Set("inferred", TRUE)>>, <<>>), Gets("name", "identifier"),
      If("LESS_COLON", <<Next_, Set("isSubtype", TRUE)>>, <<Take("COLON")>>),
      Gets("type", "expression")>>
FunctionName(p) ==
    IF Peek(p) = "IDENTIFIER" THEN parseIdentifier(p)
    ELSE parseOperator(p, getOperator(p.lexer, "UNKNOWN"))
parseFunctionDeclaration ==
    <<Take("FUNCTION"), Gets("name", "function name"), Take("L_PAREN"),
      List("parameters", "parameter", "R_PAREN"), Take("R_PAREN"), Take("ARROW"),
      Gets("returnType", "expression"), Gets("body", "block")>>
parseDeclaration(p) ==
    CASE Peek(p) \in {"LET", "CONST"} ->
            Run(p, [node |-> "Let", type |-> <<>>], parseLexicalDeclaration)
      [] Peek(p) = "FUNCTION" ->
            Run(p, [node |-> "Function", parameters |-> <<>>], parseFunctionDeclaration)
      [] OTHER -> parseStatement(p, TRUE)

parse(what, p) ==
    CASE what = "identifier" -> parseIdentifier(p)
      [] what = "literal" -> parseLiteral(p)
      [] what = "expression" -> SuffixExpressions(parsePrimaryExpression(p))
      [] what \in {"COLON", "EQUAL"} -> Inline(p, [node |-> "field"], Field(what))
      [] what = "pattern" -> parsePattern(p)
      [] what = "entry" -> Inline(p, [node |-> "field"], Entry)
      [] what = "statement" -> parseStatement(p, FALSE)
      [] what = "block" ->
            Run(p, [node |-> "Block", declarations |-> <<>>], parseBlockStatement)
      [] what = "case" -> Run(p, [node |-> "MatchCase"], parseMatchCase)
      [] what = "parameter" ->
            Run(p, [node |-> "TypedIdentifier", inferred |-> FALSE, isSubtype |-> FALSE],
                parseTypedIdentifier)
      [] what = "function name" -> FunctionName(p)
      [] what = "declaration" -> parseDeclaration(p)

----------------------------------------------------------------------------
\* Parser::parse: a program, when there are no errors.
Answer(r) ==
    [outcome |-> CASE Stopped(r.p) -> r.p.lexer.fate
                   [] ~Stopped(r.p) /\ r.p.errors = <<>> -> "accepted"
                   [] OTHER -> "rejected",
     errors |-> r.p.errors, program |-> r.tree.declarations]
Parse(source) ==
    Answer(Steps([p |-> Parser(source), tree |-> [declarations |-> <<>>]],
                 <<Until("declarations", "END_OF_FILE")>>))
=============================================================================
