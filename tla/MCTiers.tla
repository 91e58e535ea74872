------------------------------ MODULE MCTiers -------------------------------
EXTENDS Tiers, Codegen, MCPrograms

CellA == 256
CellB == 264

\* A function, and what a variable, a parameter or a call may yield in it.
Answered(b, variables) ==
    [k \in DOMAIN b.identifiers |->
        IF b.identifiers[k] \in DOMAIN variables
        THEN variables[b.identifiers[k]] ELSE {crash}]
WithVariables(b, variables) == b @@ [variables |-> Answered(b, variables)]
Answering(names, arguments, variables, values, cells, body, functions) ==
    WithVariables(FunctionBlock(names, body), variables)
    @@ [functions |-> functions, arguments |-> arguments, values |-> values, cells |-> cells]
Plain(names, arguments, variables, body) ==
    Answering(names, arguments, variables, {Number(1), CellA}, CellA :> Kinds.Object, body, <<>>)

\* A match: over objects, or what is none.
Matching ==
    Answering(<<"p">>, <<CellA>>,
        [p |-> {CellA, CellB, True, Number(1), unit}], {Number(2), CellA},
        CellA :> Kinds.Object @@ CellB :> Kinds.Array,
        Match(Name("p"),
            <<Kase(Having(<<<<"a", Is(Number(2))>>>>), Do(Num(7))),
              Kase(Is(True), Do(Name("q")))>>),
        <<>>)

\* A variable that may not be there, and what is done with it; branches.
Branching ==
    Plain(<<"p", "q">>, <<True, CellA>>,
        [p |-> {True, False}, q |-> {CellA}, y |-> {True, crash}, f |-> {CellA}],
        Block(<<If(Name("p"), Do(Name("y")), Block(<<>>)),
                If(Name("y"), Do(CallOf(Name("f"), <<Name("y")>>)), Block(<<>>)),
                Let("z", Name("q"))>>))

\* Arguments of a call, from the stack frame.
Calling ==
    Plain(<<"p", "q", "r">>, <<Number(1), Number(2), CellA>>,
        [p |-> {Number(1)}, f |-> {CellA}, g |-> {CellB}],
        Do(CallOf(Name("f"), <<Name("p"), CallOf(Name("g"), <<>>), Num(5)>>)))

\* Objects, arrays, tuples and what is in them.
Building ==
    Plain(<<>>, <<>>, [x |-> {Number(1)}],
        Block(<<Let("t", Items(<<Num(1), At(ArrayOf(<<Num(2), Name("x")>>), Name("x"))>>)),
                Do(Dot(ObjectOf(<<<<"a", Num(1)>>>>), "a"))>>))

\* Types; a function type of one parameter.
Typing ==
    Plain(<<>>, <<>>, [S |-> {CellA}, T |-> {CellB}],
        Block(<<Do(FunctionT(<<ArrayT(Name("S"))>>, UnionT(Name("T"), TypeOfTypes))),
                Do(FunctionT(<<>>, Name("S"))),
                Do(RecordT(<<<<"a", TupleT(<<Name("S")>>)>>>>))>>))

\* A function in the function; what is put off in it.
Nesting ==
    Answering(<<"p">>, <<CellA>>, [p |-> {CellA}, f |-> {CellA}], {CellA},
        CellA :> Kinds.Function,
        Block(<<Fun("f", 1),
                Let("c", Lazy(CallOf(Name("f"), <<Name("p"), Dot(Name("p"), "a")>>))),
                Do(Lazy(At(Name("p"), Num(0))))>>),
        <<640>>)

MCBlocks == <<Matching, Branching, Calling, Building, Typing, Nesting>>

\* An array that is put off: its type is asked for when it runs.
MCPutOff ==
    <<Plain(<<"p">>, <<Number(1)>>, [p |-> {Number(1)}],
        Block(<<Let("y", Lazy(ArrayOf(<<Name("p")>>))), Do(Name("y"))>>))>>

\* A function type of two parameters.
MCFunctionTypes ==
    <<Plain(<<>>, <<>>, [S |-> {CellA}, T |-> {CellB}],
        Do(FunctionT(<<Name("S"), Name("T")>>, Name("S"))))>>
=============================================================================
