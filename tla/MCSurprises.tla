---------------------------- MODULE MCSurprises ----------------------------
(* Declarations on which the checker does not do what its comments and     *)
(* tests say, one family each.                                             *)
EXTENDS MCUnification

\* function id(%T1: Type, x: T1) -> T1 { S }
RigidPrograms == {Body(Block(Expression(Value(TypeValue(S)))), T1) : S \in Base}

\* f({a: S}) where f takes a value of that type, or of a union
TypeForValuePrograms ==
    {Let(Value(TypeValue(T)), T) : T \in {RecordA(S) : S \in Base} \cup Unions(Small)}

\* The types of UnionPrograms and ReflexivePrograms, which should be exact.
MCRejectedTypes ==
    {Union(RecordA(S), RecordA(T)) : S, T \in Small}
    \cup {Union(RecordA(S), Union(RecordA(T), Bool)) : S, T \in Small}
    \cup {Function(<<S>>, T) : S, T \in Base}

\* {a: S} | {a: T} where {a: S} | {a: T} | Bool is expected
UnionPrograms ==
    {Let(Value(AbstractValue(Union(RecordA(S), RecordA(T)))),
         Union(RecordA(S), Union(RecordA(T), Bool))) : S, T \in Small}

\* function f(%T <: {a: Number}, x: T | String), called with v
FailedAlternativePrograms ==
    {Let(Call(Generic(1, TRUE, RecordA(Number),
                      LAMBDA T : <<Binding("x", Union(T, String))>>, LAMBDA T : Number),
              <<Value(v)>>), Number) : v \in literals}

\* match (r) { case {a = x}: f(x) } where f takes a T
OuterVariablePrograms ==
    {Body(Block(MatchOn(AbstractValue(RecordA(S)),
                        <<Case(RecordA(Elem(3)),
                               Call(Function(<<Binding("x", T)>>, T),
                                    <<Value(AbstractValue(Elem(3)))>>))>>)), Top) :
        S, T \in Base}

\* a function where a function of the same type is expected
ReflexivePrograms ==
    {Let(Value(AbstractValue(Function(<<S>>, T))), Function(<<S>>, T)) : S, T \in Base}

\* function h(n: Bool, k: Bool, x: F(p)) { g(q, x) } with g(n: Bool, x: F(n))
CapturePrograms ==
    LET g == Function(<<Binding("n", Bool), Binding("x", F(Arg("n")))>>, Number)
    IN  {Let(Call(g, <<Value(Param(q, Bool)),
                       Value(AbstractValue(Binding("x", F(Arg(p)))))>>), Number) :
            p, q \in {"n", "k"}}

\* function g(n: Bool) -> F(n) { if (n) { v } else { w } }
BranchPrograms ==
    {Body(If(Param("n", Bool), Block(Expression(Value(v))), Block(Expression(Value(w)))),
          F(Arg("n"))) : v, w \in literals}

=============================================================================
