--------------------------- MODULE MCUnification ---------------------------
(***************************************************************************)
(* Small worlds for Unification: a few base types and values, the types    *)
(* and declarations made of them, and the values they may stand for.       *)
(***************************************************************************)
EXTENDS Unification

String == Name("String")
one == Literal("1", Number)
hello == Literal("hello", String)
true == Literals("true")
false == Literals("false")
literals == {one, hello, true, false}
Base == {Number, String, Bool}

\* What the functions used in types return: F(b) is Number or String.
MCTypeFunctions == [F |-> true :> Number @@ false :> String]
F(argument) == HoleCall("F", argument)
Arg(name) == TypeValue(HoleVariable(name))

----------------------------------------------------------------------------
(* Run-time values: atoms, and structures and closures over them.          *)

MCAtoms == {Atom(l) : l \in literals}
Few == {Atom(one), Atom(hello)}
Objects(fields, items) == {[is |-> "Object", fields |-> g] : g \in [fields -> items]}
Inputs == Few \cup Objects({"a"}, Few)
MCUniverse ==
    MCAtoms
    \cup {[is |-> "Type", type |-> T] : T \in Base}
    \cup {[is |-> "Tuple", items |-> t] : t \in [1 .. 1 -> MCAtoms] \cup [1 .. 2 -> Few]}
    \cup Objects({"a"}, MCAtoms) \cup Objects({"a", "b"}, Few)
    \cup Objects({"a"}, {[is |-> "Tuple", items |-> <<x>>] : x \in Few})
    \cup {[is |-> "Array", elements |-> t] : t \in SUBSET MCAtoms}
    \cup {[is |-> "Closure", graph |-> g] : g \in [Inputs -> Few]}

MCOpenValues == Few \cup Objects({"a"}, {Atom(one)})

\* Parameters of the function that is being checked.
MCParameters == [n |-> {true, false}, k |-> {true, false}]
Param(name, T) == AbstractValue(Binding(name, T))
InBody == "n" :> Param("n", Bool) @@ "k" :> Param("k", Bool)

\* Its type parameters: any type, and one below a record.
RecordA(T) == Record("a" :> T)
MCVariables == {Var(1, TRUE, TRUE, Type), Var(2, TRUE, TRUE, RecordA(Number))}
T1 == Binding("T1", CHOOSE v \in MCVariables : v.uid = 1)
T2 == Binding("T2", CHOOSE v \in MCVariables : v.uid = 2)

----------------------------------------------------------------------------
(* Declarations                                                            *)

Value(v) == [expr |-> "Value", value |-> v]
Call(callee, args) == [expr |-> "Call", callee |-> callee, args |-> args]
Subscript(target, index, elem) ==
    [expr |-> "Subscript", target |-> target, index |-> index, elem |-> elem]
Member(object, field, elem) ==
    [expr |-> "Member", object |-> object, field |-> field, elem |-> elem]
Expression(e) == [stmt |-> "Expression", body |-> e]
Block(s) == [stmt |-> "Block", body |-> s]
If(condition, consequent, alternate) ==
    [stmt |-> "If", condition |-> condition, consequent |-> consequent,
     alternate |-> alternate]
Case(pattern, e) == [pattern |-> pattern, body |-> Expression(e)]
MatchOn(scrutinee, cases) ==
    [stmt |-> "Match", scrutinee |-> scrutinee, cases |-> cases]

\* let x : T = e, and a function body of type T.
Let(e, T) == [code |-> Scoped(CheckExpression(e, T)), environment |-> InBody]
Body(s, T) == [code |-> Scoped(CheckStatement(s, T)), environment |-> InBody]

\* A variable for the type of an access, or of an identifier in a pattern.
Elem(k) == Var(100 + k, TRUE, FALSE, Type)

\* The functions that are called, instantiated.  In the scope of a parameter
\* T : Type, the name T stands for the binding of the variable.
Generic(k, inferred, bounds, params(_), returns(_)) ==
    LET T == Binding("T", Var(3, inferred, TRUE, bounds))
    IN  Instantiate(Function(<<T>> \o params(T), returns(T)), 10 * k)
Id(k) == Generic(k, TRUE, Type, LAMBDA T : <<Binding("x", T)>>, LAMBDA T : T)
PairUp(k) == Generic(k, TRUE, Type, LAMBDA T : <<Binding("x", T), Binding("y", T)>>,
                                    LAMBDA T : Tuple(<<T, T>>))
Below(k) == Generic(k, TRUE, RecordA(Number), LAMBDA T : <<Binding("x", T)>>,
                                              LAMBDA T : Array(T))
Applied(k) == Generic(k, TRUE, Type,
                      LAMBDA T : <<Binding("f", Function(<<RecordA(Number)>>, T))>>,
                      LAMBDA T : RecordA(T))
Explicit(k, bounds) == Generic(k, FALSE, bounds, LAMBDA T : <<Binding("x", Array(T))>>,
                                                 LAMBDA T : T)
Dependent == Function(<<Binding("b", Bool), Binding("x", F(Arg("b")))>>, F(Arg("b")))

----------------------------------------------------------------------------
(* Universes of types                                                      *)

Structures(items) ==
    {Tuple(<<T>>) : T \in items} \cup {Tuple(<<T, U>>) : T, U \in items \ {Bool}}
    \cup {RecordA(T) : T \in items}
    \cup {Record("a" :> T @@ "b" :> U) : T, U \in items \ {Bool}}
    \cup {Array(T) : T \in items}
Unions(items) == {Union(T, U) : T, U \in items}
Small == {Number, String}

\* Unions stand outside, and of records and functions there are none.
ExactTypes == Base \cup {Top} \cup Structures(Base) \cup Unions(Base)
              \cup {Union(Union(Number, String), Bool)}
              \cup Unions({Number, Tuple(<<String>>), Array(Number)})
SoundTypes ==
    ExactTypes \cup {Bottom}
    \cup Structures(Unions(Small)) \cup {RecordA(Tuple(<<T>>)) : T \in Small}
    \cup Unions({RecordA(Number), RecordA(String), Record("a" :> Number @@ "b" :> String),
                 Bool})
    \cup {Function(<<T>>, U) : T \in {RecordA(Number), Number, Top}, U \in Small \cup {Top}}

Lets(sources, types) ==
    {Let(Value(v), T) : v \in {AbstractValue(S) : S \in sources} \cup literals, T \in types}

=============================================================================
