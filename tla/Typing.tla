------------------------------- MODULE Typing -------------------------------
(***************************************************************************)
(* What the compiler emits for a program: for each block the instructions  *)
(* that type check it (typing/Typing, typing/TypeChecker) and those that   *)
(* run it (ast/Codegen), as sequences of the instructions Interpreter      *)
(* executes.  Only their effect on control is kept: which scopes they open *)
(* and close, where they record and solve constraints, where they define   *)
(* and call functions, where they jump.  Every other instruction is a      *)
(* Compute.                                                                *)
(*                                                                         *)
(* A node of a syntax tree is a record whose "node" names its class; a     *)
(* function is named by its block.  The member functions of the classes    *)
(* are functions on Nodes (infer, check, generate); what one of them emits *)
(* for a node is an operator on what it emits for the node's parts.        *)
(***************************************************************************)
EXTENDS Integers, Sequences, SequencesExt

CONSTANTS
    None,           \* an optional part that is absent
    Nodes,          \* the nodes of the syntax trees
    Height          \* of each of them: its parts are lower

Below(n) == {m \in Nodes : Height[m] < Height[n]}

Expressions == {"literal", "identifier", "array", "record", "subscript", "member", "call"}

\* The classes of nodes, and their parts.
IsNode(n) ==
    \/ n.node \in {"literal", "identifier"}
    \/ n.node \in {"array", "record"} /\ n.items \in Seq(Below(n))
    \/ n.node = "subscript" /\ {n.target, n.index} \subseteq Below(n)
    \/ n.node = "member" /\ n.object \in Below(n)
    \/ n.node = "call" /\ n.callee \in Below(n) /\ n.arguments \in Seq(Below(n))
                       /\ n.implicit \in BOOLEAN
    \/ n.node = "let" /\ n.initializer \in Below(n) /\ n.type \in Below(n) \cup {None}
    \/ n.node = "function" /\ n.parameters \in Seq(Below(n))
                           /\ {n.returnType, n.body} \subseteq Below(n)
    \/ n.node = "statement" /\ n.statement \in Below(n)
    \/ n.node = "block" /\ n.declarations \in Seq(Below(n))
    \/ n.node = "expression" /\ n.expression \in Below(n)
    \/ n.node = "if" /\ {n.condition, n.consequent} \subseteq Below(n)
                     /\ n.alternate \in Below(n) \cup {None}
    \/ n.node = "match" /\ n.scrutinee \in Below(n) /\ n.cases \in Seq(Below(n))
                        /\ n.default \in Below(n) \cup {None}

\* The parser makes trees, from their leaves on.
ASSUME SyntaxAssumption ==
    /\ Height \in [Nodes -> Nat]
    /\ \E top \in Nodes : \A n \in Nodes : Height[n] <= Height[top]
    /\ \A n \in Nodes : IsNode(n)

-----------------------------------------------------------------------------
(* Pieces of code.                                                         *)

Op(name) == [op |-> name]

Compute == <<Op("compute")>>
Lookup == <<Op("getLocal")>>
Constrain == <<Op("constrain")>>                \* Unify and Match
Resolve == <<[op |-> "resolve", dst |-> 1]>>
Infer == <<[op |-> "infer", dst |-> 1]>>
TypeError == <<Op("typeError")>>
Jump(by) == <<[op |-> "jump", by |-> by]>>
Branch(by) == <<[op |-> "branch", by |-> by]>>  \* JumpIfFalse, TryGetField
NewFunction(d) == <<[op |-> "newFunction", function |-> d.name, dst |-> 1]>>
CallFunction(e) == <<[op |-> "call", callees |-> e.callees, dst |-> 1,
                      firstArg |-> 1, argc |-> Len(e.arguments)]>>

\* TypeChecker::Scope and TypeChecker::UnificationScope, around code.
Scoped(code) == <<Op("pushScope")>> \o code \o <<Op("popScope")>>
Unified(code) == <<Op("pushUnification")>> \o code \o <<Op("popUnification")>>

\* BytecodeGenerator::branch
IfElse(consequent, alternate) ==
    Branch(Len(consequent) + 2) \o consequent
        \o Jump(Len(alternate) + 1) \o alternate

\* InferredExpression::check, and TypeChecker::inferAsType: of what infer() emits.
CheckInferred(code) == code \o Constrain
InferAsType(code) == CheckInferred(code) \o Compute \o IfElse(<<>>, Compute)

\* The code of several parts, one after the other, and of an optional one.
EachOf(f, parts) == FlattenSeq([i \in DOMAIN parts |-> f[parts[i]]])
Optional(f, part) == IF part = None THEN <<>> ELSE f[part]

-----------------------------------------------------------------------------
(* Type checking code: infer() and check() of each class of node.          *)

\* CallExpression::checkArguments once the number of arguments is right.
ArgumentsAndResult(arguments, implicit) ==
    FlattenSeq([i \in DOMAIN arguments |-> Compute \o CheckInferred(arguments[i])])
        \o (IF implicit THEN Infer \o Compute ELSE <<>>)
        \o Compute \o Resolve \o Compute

CheckArguments(rest) ==
    Compute \o IfElse(<<>>, TypeError \o Compute \o Jump(Len(rest) + 1)) \o rest

\* CallExpression::infer: both errors jump to the label `done`, which is in
\* front of the instructions that close the scopes.
InferCall(callee, checkArguments) ==
    Scoped(Unified(
        callee \o Compute
            \o IfElse(Compute, TypeError \o Jump(Len(checkArguments) + 1))
            \o checkArguments))

InferExpression(f, e) ==
    CASE e.node = "literal" -> Compute
      [] e.node = "identifier" -> Lookup
      [] e.node = "array" ->
            (IF e.items = <<>> THEN <<>>
             ELSE f[e.items[1]] \o FlattenSeq([i \in 1 .. Len(e.items) - 1 |->
                                                  CheckInferred(f[e.items[i + 1]])])) \o Compute
      [] e.node = "record" -> EachOf(f, e.items) \o Compute
      [] e.node = "subscript" ->
            Unified(CheckInferred(f[e.index]) \o Compute
                        \o CheckInferred(f[e.target]) \o Resolve \o Compute)
      [] e.node = "member" ->
            Unified(Compute \o CheckInferred(f[e.object]) \o Resolve \o Compute)
      [] e.node = "call" ->
            InferCall(f[e.callee],
                CheckArguments(ArgumentsAndResult(
                    [i \in DOMAIN e.arguments |-> f[e.arguments[i]]], e.implicit)))

\* LexicalDeclaration::check and FunctionDeclaration::check, which only infer.
CheckDeclaration(f, d) ==
    CASE d.node = "let" ->
            (IF d.type = None THEN f[d.initializer]
             ELSE InferAsType(f[d.type]) \o CheckInferred(f[d.initializer]))
                \o Compute \o Constrain
      [] d.node = "function" -> NewFunction(d) \o Compute \o Constrain

\* Statement::infer, which BlockStatement inherits, looks at no part of it.
InferStatement(f, s) ==
    CASE s.node = "block" -> Compute
      [] s.node = "expression" -> f[s.expression]
      [] s.node = "if" ->
            CheckInferred(f[s.condition]) \o f[s.consequent]
                \o Optional(f, s.alternate) \o Compute
      [] s.node = "match" ->
            f[s.scrutinee]
                \o FlattenSeq([i \in DOMAIN s.cases |-> Compute \o Constrain \o f[s.cases[i]]])
                \o Optional(f, s.default) \o Resolve \o Compute

InferNode(f, n) ==
    CASE n.node \in Expressions -> InferExpression(f, n)
      [] n.node \in {"let", "function"} -> CheckDeclaration(f, n) \o Compute
      [] n.node = "statement" -> f[n.statement]
      [] OTHER -> InferStatement(f, n)
infer[n \in Nodes] == InferNode(infer, n)

\* BlockStatement::check with its scopes closed in reverse order; the lambda
\* `refine` of IfStatement::check is Unified(Constrain \o ..).
CheckStatement(f, s) ==
    CASE s.node = "block" ->
            Unified(Scoped(
                IF s.declarations = <<>> THEN <<>>
                ELSE FlattenSeq([i \in 1 .. Len(s.declarations) - 1 |-> infer[s.declarations[i]]])
                        \o f[s.declarations[Len(s.declarations)]]))
      [] s.node = "expression" -> f[s.expression]
      [] s.node = "if" ->
            infer[s.condition] \o CheckInferred(infer[s.condition])
                \o (IF s.alternate = None THEN Constrain ELSE <<>>)
                \o Unified(Constrain \o f[s.consequent])
                \o (IF s.alternate = None THEN <<>>
                    ELSE Unified(Constrain \o f[s.alternate]))
      [] s.node = "match" ->
            infer[s.scrutinee]
                \o FlattenSeq([i \in DOMAIN s.cases |-> Compute \o Constrain \o f[s.cases[i]]])
                \o Optional(f, s.default)

CheckNode(f, n) ==
    CASE n.node \in Expressions -> CheckInferred(infer[n])
      [] n.node \in {"let", "function"} -> CheckDeclaration(infer, n)
      [] n.node = "statement" -> f[n.statement]
      [] OTHER -> CheckStatement(f, n)
check[n \in Nodes] == CheckNode(check, n)

-----------------------------------------------------------------------------
(* The code that runs: generate() of each class of node.                   *)

GenerateExpression(f, e) ==
    CASE e.node = "literal" -> Compute
      [] e.node = "identifier" -> Lookup
      [] e.node \in {"array", "record"} -> Compute \o EachOf(f, e.items)
      [] e.node = "subscript" -> f[e.target] \o f[e.index] \o Compute
      [] e.node = "member" -> f[e.object] \o Compute
      [] e.node = "call" -> f[e.callee] \o EachOf(f, e.arguments) \o CallFunction(e)

\* Without an alternate the label `alt` is never emitted, and the jump to it
\* keeps the distance 0 it was emitted with.
GenerateIf(f, s) ==
    f[s.condition]
        \o (IF s.alternate = None
            THEN Branch(0) \o f[s.consequent] \o Jump(1)
            ELSE IfElse(f[s.consequent], f[s.alternate]))

\* A case that does not match jumps to the next one, one that does to the end.
CasesFrom(f, cases, default, i) ==
    IF i > Len(cases) THEN default ELSE Compute \o IfElse(cases[i], f[i + 1])
GenerateCases(cases, default) ==
    LET from[i \in 1 .. Len(cases) + 1] == CasesFrom(from, cases, default, i)
    IN  from[1]

GenerateStatement(f, s) ==
    CASE s.node = "block" ->
            IF s.declarations = <<>> THEN Compute ELSE EachOf(f, s.declarations)
      [] s.node = "expression" -> f[s.expression]
      [] s.node = "if" -> GenerateIf(f, s)
      [] s.node = "match" ->
            f[s.scrutinee]
                \o GenerateCases([i \in DOMAIN s.cases |-> f[s.cases[i]]],
                                 IF s.default = None THEN <<Op("runtimeError")>>
                                                     ELSE f[s.default])

GenerateNode(f, n) ==
    CASE n.node \in Expressions -> GenerateExpression(f, n)
      [] n.node = "let" -> f[n.initializer] \o Compute
      [] n.node = "function" -> NewFunction(n) \o Compute
      [] n.node = "statement" -> f[n.statement]
      [] OTHER -> GenerateStatement(f, n)
generate[n \in Nodes] == GenerateNode(generate, n)

-----------------------------------------------------------------------------
(* Whole blocks: type checking code, End, and the code that runs.          *)

EndCode == <<[op |-> "end", dst |-> 1]>>
Half(code) == <<Op("enter")>> \o code \o EndCode

\* FunctionDeclaration::check nests one TypeChecker::Scope per parameter, and
\* one more around the return type and the body.
ParametersFrom(f, types, body, i) ==
    Scoped(IF i > Len(types) THEN body ELSE types[i] \o Compute \o f[i + 1])
CheckParameters(types, body) ==
    LET from[i \in 1 .. Len(types) + 1] == ParametersFrom(from, types, body, i)
    IN  from[1]

\* The two halves of a function's block.
FunctionChecks(d) ==
    Half(Unified(CheckParameters(
        [i \in DOMAIN d.parameters |-> InferAsType(infer[d.parameters[i]])],
        InferAsType(infer[d.returnType]) \o Compute \o check[d.body])))

FunctionRuns(d) ==
    Half(FlattenSeq([i \in DOMAIN d.parameters |-> Compute]) \o generate[d.body])

\* TypeChecker::check(Program) and Program::generate; an empty program is unit.
ProgramChecks(declarations) ==
    Half(Unified((IF declarations = <<>> THEN Compute
                  ELSE FlattenSeq([i \in DOMAIN declarations |-> Unified(infer[declarations[i]])]))
                        \o Compute \o Resolve))

ProgramRuns(declarations) ==
    Half(IF declarations = <<>> THEN Compute ELSE EachOf(generate, declarations))

\* UnificationScope::eval has holeCodegen compile one hole: a call, in the
\* end, of some function of the program.
HoleRuns(functions) ==
    Half(<<[op |-> "call", callees |-> functions, dst |-> 1, firstArg |-> 1, argc |-> 1]>>)

\* The blocks of a program: the program's own, its functions' and its holes'.
IsBlock(n) ==
    \/ n.node = "program" /\ n.declarations \in Seq(Nodes)
    \/ n.node = "function" /\ n \in Nodes
    \/ n.node = "hole"

BlockChecks(n) ==
    CASE n.node = "program" -> ProgramChecks(n.declarations)
      [] n.node = "function" -> FunctionChecks(n)
      [] n.node = "hole" -> <<>>

BlockRuns(n) ==
    CASE n.node = "program" -> ProgramRuns(n.declarations)
      [] n.node = "function" -> FunctionRuns(n)
      [] n.node = "hole" -> HoleRuns(n.callees)

\* Some code, and where it starts to run, are those of a block.
IsCodeOf(n, code, start) ==
    /\ IsBlock(n)
    /\ code = BlockChecks(n) \o BlockRuns(n)
    /\ start = Len(BlockChecks(n)) + 1
=============================================================================
