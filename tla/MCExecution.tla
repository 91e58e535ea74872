---------------------------- MODULE MCExecution -----------------------------
EXTENDS Execution, MCPrograms

Function(names, inputs, body) == [names |-> names, inputs |-> inputs, body |-> body]
Value(e) == Function(<<>>, {<<>>}, Block(<<Do(e)>>))
Bools == {<<True>>, <<False>>}

\* Expressions in each other, each evaluated into the register of another.
Expressions == <<
    Value(CallOf(Name("f"), <<CallOf(Name("g"), <<Num(1), Name("x")>>), Num(2)>>)),
    Value(CallOf(Name("f"), <<Num(3), CallOf(Name("g"), <<>>), ArrayOf(<<Name("x")>>)>>)),
    Value(At(ArrayOf(<<Num(1), ArrayOf(<<Num(0), Num(2)>>), Num(3)>>), Name("x"))),
    Value(At(ArrayOf(<<Num(5), Num(6)>>), At(ArrayOf(<<Num(1), Num(0)>>), Num(1)))),
    Value(At(ArrayOf(<<Num(5)>>), Name("x"))),
    Value(Items(<<Items(<<Lit(True), Num(1)>>), Paren(Name("x")), Items(<<>>)>>)),
    Value(Dot(ObjectOf(<<<<"a", Num(1)>>, <<"b", ObjectOf(<<<<"c", Name("x")>>>>)>>>>), "b")),
    Value(Dot(ObjectOf(<<<<"b", ObjectOf(<<<<"c", Num(4)>>>>)>>, <<"a", Num(1)>>>>), "b")),
    Value(CallOf(Dot(ObjectOf(<<<<"m", Name("g")>>>>), "m"),
                 <<Dot(ObjectOf(<<<<"m", Num(7)>>>>), "m")>>)),
    Value(FunctionT(<<ArrayT(Name("S")), Name("T"), Name("S")>>,
                    FunctionT(<<Name("T"), TypeOfTypes>>, Name("S")))),
    Value(UnionT(TupleT(<<Name("S"), UnionT(Name("T"), Name("S"))>>),
                 RecordT(<<<<"a", ArrayT(Name("S"))>>, <<"b", Name("T")>>>>)))>>

\* Patterns against each other.
Some == ObjectOf(<<<<"a", Name("p")>>, <<"b", ObjectOf(<<<<"c", Num(2)>>>>)>>>>)
Patterns == <<
    Function(<<"p">>, Bools,
        Block(<<Do(Match(Some,
            <<Kase(Having(<<<<"a", Is(True)>>, <<"d", Anything>>>>), Do(Num(1))),
              Kase(Having(<<<<"a", Is(True)>>, <<"b", Having(<<<<"c", As("n")>>>>)>>>>),
                   Do(ArrayOf(<<Name("n"), Name("p")>>))),
              Kase(Having(<<<<"b", Having(<<<<"c", Is(Number(3))>>>>)>>>>), Do(Num(3))),
              Kase(As("m"), Do(Dot(Name("m"), "a")))>>))>>)),
    Function(<<"p">>, {<<Number(0)>>, <<Number(1)>>, <<True>>, <<unit>>, <<F>>},
        Block(<<Let("r", Num(9)),
                Do(Match(Name("p"),
                    <<Kase(Is(Number(0)), Do(Lit(True))),
                      Kase(Is(True), Do(ArrayOf(<<Name("r"), Name("p")>>))),
                      Kase(Having(<<>>), Do(Num(4))),
                      Kase(Is(Number(1)), Block(<<>>))>>))>>)),
    Function(<<"p">>, {<<Number(0)>>, <<Number(2)>>},
        Block(<<Do(MatchOr(At(ArrayOf(<<Name("p"), Num(2)>>), Num(0)),
                    <<Kase(Is(Number(2)),
                           Do(MatchOr(Name("p"), <<Kase(Is(Number(3)), Do(Num(3)))>>,
                                      Do(Num(8)))))>>,
                    Do(Name("p"))))>>))>>

\* Branches, scopes that are not disturbed, parameters.
Branches == <<
    Function(<<"p", "q">>, {<<a, b>> : a \in {True, False}, b \in {True, False}},
        Block(<<Do(If(Name("p"),
                      Block(<<Let("y", Num(1)), Do(If(Name("q"), Do(Name("y")), Do(Num(2))))>>),
                      Do(CallOf(Name("f"), <<Name("q"), Name("p")>>))))>>)),
    Function(<<"p", "q", "r">>, {<<Number(1), Number(0), True>>},
        Block(<<Let("t", Items(<<Name("r"), Name("q"), Name("p")>>)),
                Let("i", Name("q")),
                Do(ObjectOf(<<<<"t", Name("t")>>,
                              <<"u", At(ArrayOf(<<Name("t"), Name("i")>>), Name("i"))>>>>))>>))>>

\* An inner block has a variable of the same name as its function.
Shadows == <<
    Function(<<"p">>, Bools,
        Block(<<Let("y", Num(0)),
                Do(If(Name("p"), Block(<<Let("y", Lit(True)), Do(Num(5))>>), Do(Num(6)))),
                Do(At(ArrayOf(<<Num(7), Num(8)>>), Name("y")))>>))>>

\* A string against a literal: the same text is there twice.
Texts == <<
    Function(<<>>, {<<>>},
        Block(<<Do(Match(Lit(288), <<Kase(Is(296), Do(Num(1)))>>))>>)),
    Function(<<"p">>, {<<288>>, <<304>>},
        Block(<<Do(MatchOr(Name("p"), <<Kase(Is(304), Do(Num(1)))>>, Do(Num(2))))>>))>>
MCStrings == 288 :> "a" @@ 296 :> "a" @@ 304 :> "b"

MCTexts == Texts
MCFunctions == Expressions \o Patterns \o Branches
MCShadowing == Shadows
MCGlobals == Known
=============================================================================
