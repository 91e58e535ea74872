------------------------------- MODULE Types -------------------------------
(***************************************************************************)
(* The types of typing/Type.h and what is done with them apart from        *)
(* solving constraints: substitution (typing/Substitution.cpp), collapsing *)
(* a union of records, freshening the variables of a function type, and    *)
(* the evaluation of holes (typing/Hole*.cpp, PartialEvaluator.cpp).       *)
(*                                                                         *)
(* Types are immutable cells, modelled as trees.  A value is what the type *)
(* checker keeps in its registers: a literal, a type, or an abstract value *)
(* of which only the type is known.                                        *)
(***************************************************************************)
EXTENDS Integers, Sequences

CONSTANT TypeFunctions    \* [name -> [argument -> type]]: what the functions
                          \* that holes call return

Type == [tag |-> "Type"]
Top == [tag |-> "Top"]
Bottom == [tag |-> "Bottom"]
Name(name) == [tag |-> "Name", name |-> name]
Var(uid, inferred, rigid, bounds) ==
    [tag |-> "Var", uid |-> uid, inferred |-> inferred, rigid |-> rigid,
     bounds |-> bounds]
Tuple(items) == [tag |-> "Tuple", items |-> items]
Record(fields) == [tag |-> "Record", fields |-> fields]
Array(item) == [tag |-> "Array", item |-> item]
Function(params, returns) ==
    [tag |-> "Function", params |-> params, returns |-> returns]
Union(lhs, rhs) == [tag |-> "Union", lhs |-> lhs, rhs |-> rhs]
Binding(name, type) == [tag |-> "Binding", variable |-> name, type |-> type]
\* Two of the four holes: a variable, and a call with one argument.
HoleVariable(name) == [tag |-> "HoleVariable", variable |-> name]
HoleCall(callee, argument) ==
    [tag |-> "HoleCall", callee |-> callee, argument |-> argument]

Holes == {"HoleVariable", "HoleCall"}
IsHole(T) == T.tag \in Holes
\* Type::typeClass: all holes are of one class.
ClassOf(T) == IF IsHole(T) THEN "Hole" ELSE T.tag

AbstractValue(T) == [val |-> "Abstract", type |-> T]
TypeValue(T) == [val |-> "Type", type |-> T]
Literal(lit, T) == [val |-> "Literal", lit |-> lit, type |-> T]
IsType(v) == v.val = "Type"
TypeOf(v) == IF IsType(v) THEN Type ELSE v.type

----------------------------------------------------------------------------
(* Substitution                                                            *)

\* T with F applied to the types it consists of.
Rebuild(T, F(_)) ==
    CASE T.tag = "Tuple" ->
            Tuple([i \in DOMAIN T.items |-> F(T.items[i])])
      [] T.tag = "Record" ->
            Record([f \in DOMAIN T.fields |-> F(T.fields[f])])
      [] T.tag = "Array" -> Array(F(T.item))
      [] T.tag = "Function" ->
            Function([i \in DOMAIN T.params |-> F(T.params[i])], F(T.returns))
      [] T.tag = "Union" -> Union(F(T.lhs), F(T.rhs))
      [] T.tag = "Binding" -> Binding(T.variable, F(T.type))
      [] T.tag = "HoleCall" /\ IsType(T.argument) ->
            HoleCall(T.callee, TypeValue(F(T.argument.type)))
      [] OTHER -> T

\* One step: what a variable is replaced by is not substituted again, nor are
\* the bounds of a variable.
RECURSIVE Substitute(_, _)
Substitute(T, subst) ==
    IF T.tag = "Var"
    THEN IF T.uid \in DOMAIN subst THEN subst[T.uid] ELSE T
    ELSE Rebuild(T, LAMBDA U : Substitute(U, subst))

\* The parameter itself, for a parameter that is bound to a name.
Unbound(param) == IF param.tag = "Binding" THEN param.type ELSE param

\* (A mutant: no fresh variables.)
InstantiateShared(function, offset) ==
    LET Flexible(v) == IF v.tag = "Var" THEN [v EXCEPT !.rigid = FALSE] ELSE v
        vars == {v \in {Unbound(function.params[i]) : i \in DOMAIN function.params} :
                    v.tag = "Var"}
    IN  Substitute(function, [uid \in {v.uid : v \in vars} |->
                                Flexible(CHOOSE v \in vars : v.uid = uid)])
\* TypeFunction::instantiate: a parameter that is a variable becomes a fresh
\* one, which the solver may bind.  offset stands for how far s_uid has come.
Instantiate(function, offset) ==
    LET vars == {v \in {Unbound(function.params[i]) : i \in DOMAIN function.params} :
                    v.tag = "Var"}
        Fresh(v) == Var(v.uid + offset, v.inferred, FALSE, v.bounds)
    IN  Substitute(function, [uid \in {v.uid : v \in vars} |->
                                Fresh(CHOOSE v \in vars : v.uid = uid)])

----------------------------------------------------------------------------
(* Unions of records                                                       *)

NoType == [tag |-> "None"]

\* The record with the common fields of two records; NoType if one is none.  So
\* is a union inside of it: is() of the null pointer that stands for it is a
\* dynamic_cast of `this', which the build (clang, not optimised) finds null.
RECURSIVE Collapse(_)
Collapse(union) ==
    LET Fields(T) == IF T.tag = "Union" THEN Collapse(T) ELSE T
        lhs == Fields(union.lhs)
        rhs == Fields(union.rhs)
    IN  IF lhs.tag = "Record" /\ rhs.tag = "Record"
        THEN Record([f \in DOMAIN lhs.fields \cap DOMAIN rhs.fields |->
                        Union(lhs.fields[f], rhs.fields[f])])
        ELSE NoType

----------------------------------------------------------------------------
(* Holes                                                                   *)

\* A failed assertion in the code that evaluates a hole.
Abort == [val |-> "Abort"]

\* The bytecode holeCodegen emits for v, run in env: a variable that is not
\* known, or only abstractly, stays as it is; a function called with an
\* argument it cannot compute with aborts.
RECURSIVE Evaluate(_, _)
\* (A mutant: the argument of a call is not evaluated.)
EvaluateOuter(v, env) ==
    IF IsType(v) /\ v.type.tag = "HoleCall"
    THEN LET function == TypeFunctions[v.type.callee]
         IN  IF v.type.argument \in DOMAIN function
             THEN TypeValue(function[v.type.argument])
             ELSE Abort
    ELSE v
Evaluate(v, env) ==
    CASE IsType(v) /\ v.type.tag = "HoleVariable" ->
            LET x == v.type.variable
            IN  IF x \in DOMAIN env /\ env[x].val # "Abstract" THEN env[x] ELSE v
      [] IsType(v) /\ v.type.tag = "HoleCall" ->
            LET argument == Evaluate(v.type.argument, env)
                function == TypeFunctions[v.type.callee]
            IN  IF argument \in DOMAIN function
                THEN TypeValue(function[argument])
                ELSE Abort
      [] OTHER -> v

\* Evaluates the variables, and calls nothing.
RECURSIVE PartiallyEvaluate(_, _)
PartiallyEvaluate(v, env) ==
    IF IsType(v) /\ v.type.tag = "HoleCall"
    THEN TypeValue(HoleCall(v.type.callee,
                            PartiallyEvaluate(v.type.argument, env)))
    ELSE IF IsType(v) /\ v.type.tag = "HoleVariable" THEN Evaluate(v, env) ELSE v

=============================================================================
