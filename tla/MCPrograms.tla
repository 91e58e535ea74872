----------------------------- MODULE MCPrograms -----------------------------
(* Functions, as trees, for Execution.tla and Tiers.tla. *)
EXTENDS Bytecode, TLC

Name(n) == [node |-> "Identifier", name |-> n]
Lit(w) == [node |-> "Literal", value |-> w]
Num(n) == Lit(Number(n))
Paren(e) == [node |-> "Parenthesized", expression |-> e]
Lazy(e) == [node |-> "Lazy", expression |-> e]
ArrayOf(es) == [node |-> "Array", items |-> es]
Items(es) == [node |-> "Tuple", items |-> es]
ObjectOf(fs) == [node |-> "Object", fields |-> fs]
CallOf(f, es) == [node |-> "Call", callee |-> f, arguments |-> es]
At(e, i) == [node |-> "Subscript", target |-> e, index |-> i]
Dot(e, f) == [node |-> "Member", object |-> e, property |-> f]
TypeOfTypes == [node |-> "TypeType", value |-> 408]
ArrayT(t) == [node |-> "ArrayType", itemType |-> t]
TupleT(ts) == [node |-> "TupleType", items |-> ts]
RecordT(fs) == [node |-> "ObjectType", fields |-> fs]
FunctionT(ps, r) == [node |-> "FunctionType", parameters |-> ps, returnType |-> r]
UnionT(l, r) == [node |-> "UnionType", lhs |-> l, rhs |-> r]

Anything == [node |-> "UnderscorePattern"]
As(n) == [node |-> "IdentifierPattern", name |-> n]
Is(w) == [node |-> "LiteralPattern", value |-> w]
Having(fs) == [node |-> "ObjectPattern", entries |-> fs]

\* A statement, or an expression as one.
Do(e) ==
    IF e.node \in {"If", "Match", "Block"} THEN e
    ELSE [node |-> "Expression", expression |-> e]
Let(n, e) == [node |-> "Let", name |-> n, initializer |-> e]
Block(ds) == [node |-> "Block", declarations |-> ds]
If(c, a, b) == [node |-> "If", condition |-> c, consequent |-> a, alternate |-> <<b>>]
IfOnly(c, a) == [node |-> "If", condition |-> c, consequent |-> a, alternate |-> <<>>]
Match(e, cases) == [node |-> "Match", scrutinee |-> e, cases |-> cases, defaultCase |-> <<>>]
MatchOr(e, cases, d) ==
    [node |-> "Match", scrutinee |-> e, cases |-> cases, defaultCase |-> <<d>>]
Kase(p, s) == [pattern |-> p, statement |-> s]
Fun(n, k) == [node |-> "Function", name |-> n, functionIndex |-> k]

True == Bool(TRUE)
False == Bool(FALSE)

\* f and g are functions of the environment, x is a number, S and T are types.
F == 256
G == 264
Known == [f |-> F, g |-> G, x |-> Number(1), S |-> 272, T |-> 280]
=============================================================================
