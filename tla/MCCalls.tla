------------------------------ MODULE MCCalls ------------------------------
(* Declarations that call generic and dependent functions, or match.       *)
EXTENDS MCUnification

\* What is passed to the functions: literals, structures, and values of types
\* that are parameters of the function being checked.
Sources ==
    literals \cup
    {AbstractValue(S) : S \in Small \cup {RecordA(T) : T \in Small} \cup {T1, T2}
                            \cup {Array(T) : T \in Small \cup {T1}}
                            \cup {Tuple(<<T1>>), Union(Number, String)}
                            \cup {Record("a" :> Number @@ "b" :> String)}}
Functions ==
    {AbstractValue(Function(<<T>>, U)) : T \in {RecordA(Number), Top}, U \in Small}
Targets == Small \cup {T1, Top, Array(T1), RecordA(Number), Array(RecordA(Number))}

\* The result of a call is used: it is bound to a name, passed to another
\* call, or taken apart.
Uses(e) ==
    {Let(e, T) : T \in Targets}
    \cup {Let(Call(Id(2), <<e>>), T) : T \in Targets}
    \cup {Let(Call(Below(2), <<e>>), Array(RecordA(Number))),
          Let(Subscript(e, Value(one), Elem(2)), Number),
          Let(Member(e, "a", Elem(2)), Number)}
Calls ==
    {Call(Id(1), <<Value(v)>>) : v \in Sources}
    \cup {Call(PairUp(1), <<Value(v), Value(w)>>) : v \in Sources, w \in {one, hello}}
    \cup {Call(Below(1), <<Value(v)>>) : v \in Sources}
    \cup {Call(Applied(1), <<Value(v)>>) : v \in Sources \cup Functions}
    \cup {Call(Explicit(1, B), <<Value(TypeValue(S)), Value(v)>>) :
             B \in {Type, RecordA(Number)}, S \in Small \cup {T1, RecordA(Number)},
             v \in {AbstractValue(Array(U)) : U \in Small \cup {T1, RecordA(Number)}}}
    \cup {Call(Dependent, <<Value(b), Value(v)>>) : b \in {true, false}, v \in Sources}
    \cup {Subscript(Value(v), Value(w), Elem(1)) : v \in Sources, w \in {one, hello}}
    \cup {Member(Value(v), "a", Elem(1)) : v \in Sources}
CallPrograms == UNION {Uses(e) : e \in Calls}

\* A branch is checked knowing what the condition is.
Refinements ==
    {Body(If(Param("n", Bool), Expression(Value(v)), Expression(Value(w))), F(Arg("n"))) :
        v, w \in Sources}

\* Declarations that match a value.  Patterns: an identifier, a literal, a record
\* of patterns, and _.
Scrutinees ==
    {AbstractValue(S) : S \in Base \cup {RecordA(T) : T \in Base} \cup {T2}
        \cup Unions({Number, String, RecordA(Number), RecordA(String)})}
    \cup {one, Param("n", Bool)}
Patterns == {Elem(3), Top, Number, Bool, RecordA(Elem(3)), RecordA(Number), RecordA(Top),
             Record("a" :> Number @@ "b" :> Elem(3))}
MatchPrograms ==
    {Body(Block(MatchOn(v, <<Case(P, Value(one)), Case(Q, Value(hello))>>)), Top) :
        v \in Scrutinees, P \in Patterns, Q \in {NoType, Top, RecordA(Elem(4)), String}}

SoundPrograms ==
    Lets(SoundTypes, SoundTypes) \cup CallPrograms \cup Refinements \cup MatchPrograms

=============================================================================
