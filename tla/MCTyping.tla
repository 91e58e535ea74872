------------------------------ MODULE MCTyping ------------------------------
(***************************************************************************)
(* Interpreter on programs compiled by Typing, and on one written out in   *)
(* instructions, "recursion", whose registers hold values worth telling    *)
(* apart: function f(x, y) calls itself, and is called by the program, by  *)
(* a hole and, through the hole, while the program is being checked.  The  *)
(* functions of the others are the blocks "f", "g" and "h"; "h" is defined *)
(* inside another.                                                         *)
(***************************************************************************)
EXTENDS Interpreter, Typing

LoadTo(dst) == [op |-> "load", dst |-> dst]
CallTo(callee, dst, firstArg, argc) ==
    [op |-> "call", callees |-> {callee}, dst |-> dst,
     firstArg |-> firstArg, argc |-> argc]
NewF == [op |-> "newFunction", function |-> "f", dst |-> 1]
Return(dst) == [op |-> "end", dst |-> dst]

MainChecks ==
    <<Op("enter"), Op("pushUnification"), NewF, LoadTo(1), Op("constrain"),
      [op |-> "infer", dst |-> 2], [op |-> "resolve", dst |-> 1],
      Op("popUnification"), LoadTo(2), Return(1)>>
MainRuns ==
    <<Op("enter"), NewF, LoadTo(1), LoadTo(2), CallTo("f", 2, 1, 2),
      CallTo(Native, 1, 2, 1), Return(2)>>
FChecks ==
    <<Op("enter"), Op("pushScope"), LoadTo(3), Op("popScope"), Return(3)>>
FRuns ==
    <<Op("enter"), LoadTo(2), [op |-> "branch", by |-> 3],
      CallTo("f", 1, 2, 2), [op |-> "jump", by |-> 2], LoadTo(3), Return(1)>>
HoleOfF == <<Op("enter"), LoadTo(1), CallTo("f", 1, 1, 1), Return(1)>>

RecursionChecks == [main |-> MainChecks, f |-> FChecks]
RecursionRuns == [main |-> MainRuns, f |-> FRuns, hole |-> HoleOfF]

MCBlock == {"main", "hole", "f", "g", "h"}

Id == [node |-> "identifier"]
Literal == [node |-> "literal"]
CallOf(callees, arguments, implicit) ==
    [node |-> "call", callee |-> Id, arguments |-> arguments,
     implicit |-> implicit, callees |-> callees]
Expression(e) == [node |-> "expression", expression |-> e]
Statement(s) == [node |-> "statement", statement |-> s]
BlockOf(declarations) == [node |-> "block", declarations |-> declarations]
If(condition, consequent, alternate) ==
    [node |-> "if", condition |-> condition, consequent |-> consequent,
     alternate |-> alternate]
Match(cases, default) ==
    [node |-> "match", scrutinee |-> Id, cases |-> cases, default |-> default]
Let(type, initializer) ==
    [node |-> "let", type |-> type, initializer |-> initializer]
Function(name, parameters, body) ==
    [node |-> "function", name |-> name, parameters |-> parameters,
     returnType |-> Id, body |-> body]

\* function h() -> T { {x = 1}.x }
H == Function("h", <<>>,
        BlockOf(<<Statement(Expression([node |-> "member", object |->
            [node |-> "record", items |-> <<Literal>>]]))>>))

Declarations ==
    [ \* function f(x: T) -> T { function h() ..; h() }  let y: D = f(1)
      nested |->
        <<Function("f", <<Id>>,
            BlockOf(<<H, Statement(Expression(CallOf({"h"}, <<>>, FALSE)))>>)),
          Let(Id, CallOf({"f"}, <<Literal>>, TRUE))>>,
      \* function f(x: T) -> T { if (x) x[0] else print(x) }
      \* if (true) 1 else [1, 2]
      branches |->
        <<Function("f", <<Id>>,
            BlockOf(<<Statement(If(Id,
                Expression([node |-> "subscript", target |-> Id, index |-> Literal]),
                Expression(CallOf({Native}, <<Id>>, FALSE))))>>)),
          Statement(If(Literal, Expression(Literal),
                Expression([node |-> "array", items |-> <<Literal, Literal>>])))>>,
      \* function f(x: T) -> T { match (x) { case ..: 1; default: x } }
      \* match (x) { case ..: f(1); case ..: 2 }
      matches |->
        <<Function("f", <<Id>>,
            BlockOf(<<Statement(Match(<<Expression(Literal)>>, Expression(Id)))>>)),
          Statement(Match(<<Expression(CallOf({"f"}, <<Literal>>, FALSE)),
                            Expression(Literal)>>, None))>>,
      \* match (x) { case ..: match (x) { case ..: 1 }; case ..: 2 }
      nestedMatch |->
        <<Let(None, Literal),
          Statement(Match(<<Match(<<Expression(Literal)>>, None),
                            Expression(Literal)>>, None))>>,
      \* function f() -> T { 1 }  if (true) { function h() .. } else 1
      inBlock |->
        <<Function("f", <<>>, BlockOf(<<Statement(Expression(Literal))>>)),
          Statement(If(Literal, BlockOf(<<H>>), Expression(Literal)))>>,
      \* function f(x: T) -> Void { if (x) print(x) }  f(true)
      noElse |->
        <<Function("f", <<Id>>,
            BlockOf(<<Statement(If(Id,
                Expression(CallOf({Native}, <<Id>>, FALSE)), None))>>)),
          Statement(Expression(CallOf({"f"}, <<Literal>>, FALSE)))>> ]

\* All nodes of the programs.
RECURSIVE Subtrees(_), HeightOf(_)
Parts(n) ==
    CASE n.node \in {"array", "record"} -> Range(n.items)
      [] n.node = "subscript" -> {n.target, n.index}
      [] n.node = "member" -> {n.object}
      [] n.node = "call" -> {n.callee} \cup Range(n.arguments)
      [] n.node = "let" -> {n.initializer} \cup ({n.type} \ {None})
      [] n.node = "function" -> Range(n.parameters) \cup {n.returnType, n.body}
      [] n.node = "statement" -> {n.statement}
      [] n.node = "block" -> Range(n.declarations)
      [] n.node = "expression" -> {n.expression}
      [] n.node = "if" -> {n.condition, n.consequent} \cup ({n.alternate} \ {None})
      [] n.node = "match" -> {n.scrutinee} \cup Range(n.cases) \cup ({n.default} \ {None})
      [] OTHER -> {}
Subtrees(n) == {n} \cup UNION {Subtrees(m) : m \in Parts(n)}
HeightOf(n) == IF Parts(n) = {} THEN 0 ELSE 1 + Max({HeightOf(m) : m \in Parts(n)})

MCNodes == UNION {Subtrees(d) : d \in UNION {Range(Declarations[p]) : p \in DOMAIN Declarations}}
MCHeight == [n \in MCNodes |-> HeightOf(n)]

MCHoleCallees == [p \in Program |-> IF p = "nestedMatch" THEN {} ELSE {"f"}]

\* The function each block is the code of, if it is one.
Definition(p, b) ==
    IF b = "h" THEN H
    ELSE LET named == {i \in DOMAIN Declarations[p] :
                          /\ Declarations[p][i].node = "function"
                          /\ Declarations[p][i].name = b}
         IN IF named = {} THEN None
            ELSE Declarations[p][CHOOSE i \in named : TRUE]

MCText(p, b) ==
    CASE b = "main" -> [node |-> "program", declarations |-> Declarations[p]]
      [] b = "hole" -> [node |-> "hole", callees |-> MCHoleCallees[p]]
      [] OTHER -> Definition(p, b)
Checks(p, b) == IF MCText(p, b) = None THEN <<>> ELSE BlockChecks(MCText(p, b))
Runs(p, b) == IF MCText(p, b) = None THEN <<>> ELSE BlockRuns(MCText(p, b))

Part(parts, b) == IF b \in DOMAIN parts THEN parts[b] ELSE <<>>
ChecksOf(p, b) == IF p = "recursion" THEN Part(RecursionChecks, b) ELSE Checks(p, b)
RunsOf(p, b) == IF p = "recursion" THEN Part(RecursionRuns, b) ELSE Runs(p, b)

MCCode == [p \in Program |-> [b \in MCBlock |-> ChecksOf(p, b) \o RunsOf(p, b)]]
MCCodeStart == [p \in Program |-> [b \in MCBlock |-> Len(ChecksOf(p, b)) + 1]]
MCNumLocals == [b \in MCBlock |-> CASE b = "f" -> 3 [] b = "hole" -> 1 [] OTHER -> 2]

\* The scopes that are open before an instruction, when the instructions before it
\* are read from the first to it: a depth for code that jumps over scopes as a whole.
TextualDepth ==
    [p \in Program |-> [b \in MCBlock |-> [pc \in 1..Len(MCCode[p][b]) + 1 |->
        LET Before(op) == Cardinality({j \in 1..pc - 1 : MCCode[p][b][j].op = op})
        IN [scopes |-> Before("pushScope") - Before("popScope"),
            unifications |-> Before("pushUnification") - Before("popUnification")]]]]

\* What the theorems about scopes assume of the compiler, of what it makes of
\* these; TypingProofs has it of all code that is compiled.
ASSUME NestingAssumption == \A p \in Program : CodeNests(p, TextualDepth)
ASSUME CompilationAssumption ==
    \A p \in Program \ {"recursion"} : \A b \in Compiled(p) :
        IsCodeOf(MCText(p, b), Code[p][b], CodeStart[p][b])
=============================================================================
