----------------------------- MODULE Semantics -----------------------------
(***************************************************************************)
(* What the types are for, independently of how the solver compares them:  *)
(* a type stands for a set of run-time values, and a value may be passed   *)
(* where a type is expected exactly if it is in that set.  Type variables  *)
(* and parameters that are not known while a function is checked may stand *)
(* for anything their declaration allows: each such choice is a world.     *)
(***************************************************************************)
EXTENDS Types, FiniteSets

CONSTANTS
    Universe,    \* the run-time values considered
    Variables,   \* the type variables that may be left open
    OpenValues,  \* the values that a type left open may have
    Parameters   \* [name -> its literals] for the parameters left open

Atom(literal) == [is |-> "Atom", literal |-> literal]

RECURSIVE In(_, _, _)
In(v, T, world) ==
    CASE T.tag = "Top" -> TRUE
      [] T.tag = "Type" -> v.is = "Type"
      [] T.tag = "Name" -> v.is = "Atom" /\ v.literal.type = T
      [] T.tag = "Tuple" ->
            /\ v.is = "Tuple"
            /\ Len(v.items) >= Len(T.items)
            /\ \A i \in DOMAIN T.items : In(v.items[i], T.items[i], world)
      [] T.tag = "Record" ->
            /\ v.is = "Object"
            /\ \A f \in DOMAIN T.fields : /\ f \in DOMAIN v.fields
                                          /\ In(v.fields[f], T.fields[f], world)
      [] T.tag = "Array" ->
            v.is = "Array" /\ \A item \in v.elements : In(item, T.item, world)
      [] T.tag = "Function" ->
            /\ v.is = "Closure"
            /\ Len(T.params) = 1
            /\ \A x \in DOMAIN v.graph :
                  In(x, T.params[1], world) => In(v.graph[x], T.returns, world)
      [] T.tag = "Union" -> In(v, T.lhs, world) \/ In(v, T.rhs, world)
      [] T.tag = "Binding" -> In(v, T.type, world)
      [] T.tag = "Var" -> v \in world.vars[T.uid]
      [] OTHER -> FALSE

Worlds ==
    {w \in [vars : [{v.uid : v \in Variables} -> SUBSET OpenValues],
            names : [DOMAIN Parameters -> UNION {Parameters[x] : x \in DOMAIN Parameters}]] :
        /\ \A v \in Variables : v.bounds # Type =>
                \A x \in w.vars[v.uid] : In(x, v.bounds, w)
        /\ \A x \in DOMAIN Parameters : w.names[x] \in Parameters[x]}

\* The literal that a value of the checker stands for, if it stands for one.
Denotes(v, env, world) ==
    LET w == Evaluate(v, env)
        x == IF IsType(w) /\ w.type.tag = "HoleVariable" /\ w.type.variable \in DOMAIN env
             THEN env[w.type.variable] ELSE w
    IN  IF x.val = "Abstract" /\ x.type.tag = "Binding"
           /\ x.type.variable \in DOMAIN Parameters
        THEN world.names[x.type.variable]
        ELSE x

\* T with every solved variable replaced, to the end, and every hole evaluated.
RECURSIVE Ground(_, _, _, _)
Ground(T, subst, env, world) ==
    CASE T.tag = "Var" /\ T.uid \in DOMAIN subst ->
            Ground(subst[T.uid], [u \in DOMAIN subst \ {T.uid} |-> subst[u]], env, world)
      [] T.tag = "HoleCall" ->
            Ground(Evaluate(TypeValue(HoleCall(T.callee, Denotes(T.argument, env, world))),
                            env).type, subst, env, world)
      [] OTHER -> Rebuild(T, LAMBDA U : Ground(U, subst, env, world))

\* The run-time values that v, a ground value of the checker, may be.
ValuesOf(v, world) ==
    CASE v.val = "Type" -> {[is |-> "Type", type |-> v.type]}
      [] v.val = "Literal" -> {Atom(v)}
      [] OTHER -> {x \in Universe : In(x, v.type, world)}

Included(S, T, world) == \A x \in Universe : In(x, S, world) => In(x, T, world)

\* The bound of a variable that is declared without one is Type.
WithinBounds(T, bounds, world) == bounds = Type \/ Included(T, bounds, world)

=============================================================================
