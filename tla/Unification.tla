---------------------------- MODULE Unification ----------------------------
(***************************************************************************)
(* The chain of unification scopes while one declaration is type checked.  *)
(* The code that is run is what typing/Typing.cpp emits for the            *)
(* declaration (CheckExpression .. below): it opens and closes scopes,     *)
(* adds constraints to the innermost one, and asks it for the type of a    *)
(* call or of an implicit argument.  A scope solves its constraints when   *)
(* it is first asked, or when it is closed.                                *)
(***************************************************************************)
EXTENDS Solver, Semantics

CONSTANTS
    Programs,     \* {[code, environment]}: what may be checked
    Exact         \* the types between which the solver decides inclusion

VARIABLES
    code,         \* what is left to run
    environment,  \* the interpreter's environment
    scopes,       \* the unification scopes, the innermost one last
    result,       \* the register expressions leave their value in
    errors,       \* VM::m_typeErrors, counted
    aborted,      \* a failed assertion
    closed        \* history: the scopes closed so far, in order

vars == <<code, environment, scopes, result, errors, aborted, closed>>

----------------------------------------------------------------------------
(* The instructions that matter, and the code of expressions.              *)

Load(v) == [op |-> "Load", value |-> v]
PushScope == [op |-> "Push"]
Unify(T) == [op |-> "Unify", type |-> T]
Match(scrutinee, T) == [op |-> "Match", scrutinee |-> scrutinee, type |-> T]
Infer(var) == [op |-> "Infer", var |-> var]
Resolve(T) == [op |-> "Resolve", type |-> T]
PopScope == [op |-> "Pop"]

Number == Name("Number")
Bool == Name("Bool")
IsImplicit(param) == Unbound(param).tag = "Var" /\ Unbound(param).inferred

\* A scope of its own around some code.
Scoped(ops) == <<PushScope>> \o ops \o <<PopScope>>

RECURSIVE InferExpression(_)
CheckExpression(e, T) == InferExpression(e) \o <<Unify(T)>>

\* Expressions: a value (a literal, a variable, a type), a call with its
\* callee's type instantiated, a subscript and a member access, these two with
\* a variable `elem' for the type of the result.
InferExpression(e) ==
    CASE e.expr = "Value" -> <<Load(e.value)>>
      [] e.expr = "Call" ->
            LET params == SelectSeq(e.callee.params, LAMBDA p : ~IsImplicit(p))
                implicit == SelectSeq(e.callee.params, IsImplicit)
            IN  Scoped(FlattenSeq([i \in DOMAIN e.args |->
                                     CheckExpression(e.args[i], params[i])])
                       \o [i \in DOMAIN implicit |-> Infer(Unbound(implicit[i]))]
                       \o <<Resolve(e.callee.returns)>>)
      [] e.expr = "Subscript" ->
            Scoped(CheckExpression(e.index, Number)
                   \o CheckExpression(e.target, Array(e.elem))
                   \o <<Resolve(e.elem)>>)
      [] e.expr = "Member" ->
            Scoped(CheckExpression(e.object, Record(e.field :> e.elem))
                   \o <<Resolve(e.elem)>>)

Literals(b) == Literal(b, Bool)

RECURSIVE CheckStatement(_, _)
\* Statements in a position whose type T is known.  An `if' has both branches;
\* a default case is one without a pattern.
CheckStatement(s, T) ==
    CASE s.stmt = "Expression" -> CheckExpression(s.body, T)
      [] s.stmt = "Block" -> Scoped(CheckStatement(s.body, T))
      [] s.stmt = "If" ->
            LET Refined(b, branch) ==
                    Scoped(<<Load(Literals(b)), Unify(TypeOf(s.condition))>>
                           \o CheckStatement(branch, T))
            IN  <<Load(s.condition), Unify(Bool)>>
                \o Refined("true", s.consequent) \o Refined("false", s.alternate)
      [] s.stmt = "Match" ->
            FlattenSeq([i \in DOMAIN s.cases |->
                (IF s.cases[i].pattern = NoType THEN <<>>
                 ELSE <<Match(s.scrutinee, s.cases[i].pattern)>>)
                \o CheckStatement(s.cases[i].body, T)])

----------------------------------------------------------------------------
(* A scope                                                                 *)

Scope == [constraints |-> <<>>, current |-> 0, finalized |-> FALSE,
          subst |-> <<>>, env |-> <<>>,
          failed |-> FALSE, throwing |-> TRUE, errors |-> 0, aborted |-> FALSE]

Decide(s, c) ==
    IF c.kind = "Subtyping" THEN Unifies(s, c.lhs, c.rhs)
                            ELSE Matches(s, c.lhs, c.rhs)

\* (A mutant: the first constraint is skipped.)
FinalizeShort(s) ==
    IF s.finalized THEN s
    ELSE LET ready == [s EXCEPT !.finalized = TRUE, !.env = environment]
             left == SubSeq(s.constraints, s.current + 2, Len(s.constraints))
         IN  [FoldLeft(Decide, ready, left) EXCEPT !.current = Len(s.constraints)]
\* finalize() and solveConstraints(): the environment's parent is that of the
\* interpreter.
Finalize(s) ==
    IF s.finalized THEN s
    ELSE LET ready == [s EXCEPT !.finalized = TRUE, !.env = environment]
             left == SubSeq(s.constraints, s.current + 1, Len(s.constraints))
         IN  [FoldLeft(Decide, ready, left) EXCEPT !.current = Len(s.constraints)]

\* (A mutant: a type bound to a name is returned as it is.)
ResolvedBound(s, T) ==
    IF T.tag = "Binding" THEN T ELSE Substitute(T, s.subst)
\* What resolve() returns: a hole evaluated, any other type substituted.
Resolved(s, T) ==
    IF IsHole(T) THEN Eval(s, T) ELSE Substitute(T, s.subst)

----------------------------------------------------------------------------
Init ==
    /\ \E p \in Programs : code = p.code /\ environment = p.environment
    /\ scopes = <<>>
    /\ result = AbstractValue(Top)
    /\ errors = 0
    /\ aborted = FALSE
    /\ closed = <<>>

Current == Last(scopes)

\* The next instruction is of this kind, and it is run.
Run(op) ==
    /\ ~aborted
    /\ code # <<>>
    /\ Head(code).op = op
    /\ code' = Tail(code)
    /\ UNCHANGED environment

\* The innermost scope becomes s, and its new errors are reported.
Update(s) ==
    /\ errors' = errors + s.errors - Current.errors
    /\ aborted' = s.aborted

DoLoad ==
    /\ Run("Load")
    /\ result' = Head(code).value
    /\ UNCHANGED <<scopes, errors, aborted, closed>>

DoPush ==
    /\ Run("Push")
    /\ scopes' = Append(scopes, Scope)
    /\ UNCHANGED <<result, errors, aborted, closed>>

\* unify() and match(): they assert that nothing is solved yet.
AddConstraint(kind, lhs) ==
    /\ Run(kind)
    /\ IF Current.finalized
       THEN aborted' = TRUE /\ UNCHANGED scopes
       ELSE /\ scopes' = [scopes EXCEPT ![Len(scopes)].constraints =
                            Append(@, [kind |-> IF kind = "Match" THEN "PatternMatching"
                                                                  ELSE "Subtyping",
                                       lhs |-> lhs, rhs |-> Head(code).type])]
            /\ UNCHANGED aborted
    /\ UNCHANGED <<result, errors, closed>>

DoUnify == AddConstraint("Unify", result)
DoMatch == AddConstraint("Match", Head(code).scrutinee)

\* infer() for an implicit parameter.
DoInfer ==
    /\ Run("Infer")
    /\ LET solved == Finalize(Current)
           s == IF Head(code).var.uid \in DOMAIN solved.subst THEN solved
                ELSE Fail(solved)
       IN  /\ scopes' = [scopes EXCEPT ![Len(scopes)] = s]
           /\ Update(s)
    /\ UNCHANGED <<result, closed>>

\* resolve(), and the abstract value made of what it returns.
DoResolve ==
    /\ Run("Resolve")
    /\ LET solved == Finalize(Current)
           resolved == IF solved.aborted THEN NoType
                       ELSE Resolved(solved, Head(code).type)
           s == [solved EXCEPT !.aborted = @ \/ resolved = NoType]
       IN  /\ scopes' = [scopes EXCEPT ![Len(scopes)] = s]
           /\ Update(s)
           /\ result' = AbstractValue(resolved)
    /\ UNCHANGED closed

\* The destructor.
DoPop ==
    /\ Run("Pop")
    /\ LET s == Finalize(Current)
       IN  Update(s) /\ closed' = Append(closed, s)
    /\ scopes' = Front(scopes)
    /\ UNCHANGED result

Next == \/ DoLoad \/ DoPush \/ DoUnify \/ DoMatch \/ DoInfer \/ DoResolve \/ DoPop

Spec == Init /\ [][Next]_vars

----------------------------------------------------------------------------
(* Properties                                                              *)

\* Scopes that have solved their constraints: among the open ones, and the one
\* closed last.
Solved == {s \in Range(scopes) : s.finalized}
          \cup (IF closed = <<>> THEN {} ELSE {Last(closed)})
Accepted == errors = 0 /\ ~aborted

Subtypings(s) == {c \in Range(s.constraints) : c.kind = "Subtyping"}

\* What the names of a callee's parameters stand for: the arguments.
Passed(s) ==
    LET bound == {c \in Subtypings(s) : c.rhs.tag = "Binding"}
    IN  [x \in {c.rhs.variable : c \in bound} |->
            (CHOOSE c \in bound : c.rhs.variable = x).lhs] @@ environment

Holds(s, c, world) ==
    LET v == IF c.lhs.val = "Literal" THEN c.lhs
             ELSE [c.lhs EXCEPT !.type = Ground(@, s.subst, environment, world)]
        T == Ground(c.rhs, s.subst, Passed(s), world)
        param == Unbound(c.rhs)
    IN  IF IsType(v) /\ param.tag = "Var" /\ ~param.inferred /\ ~param.rigid
        THEN WithinBounds(v.type, Ground(param.bounds, s.subst, Passed(s), world), world)
        ELSE \A x \in ValuesOf(v, world) : In(x, T, world)

RelatesExactTypes(s) ==
    \A c \in Range(s.constraints) :
        c.kind = "Subtyping" /\ {TypeOf(c.lhs), c.rhs} \subseteq Exact

\* Type safety: as long as no error is reported, every value is of the type it
\* is passed as, whatever the types and parameters left open stand for.
AcceptedIsIncluded ==
    Accepted => \A s \in Solved :
        \A c \in Subtypings(s) : \A w \in Worlds : Holds(s, c, w)

\* An error is neither lost nor a false alarm: outside of an alternative every
\* failure is reported, the flags are back as they were and every constraint
\* is decided when a scope ends; and when a scope of such types is rejected,
\* some value does not have the expected type.
RejectedHasCounterexample ==
    \A s \in Solved :
        /\ s.throwing /\ (s.failed <=> s.errors > 0) /\ s.current = Len(s.constraints)
        /\ s.errors > 0 /\ RelatesExactTypes(s) =>
              \E c \in Subtypings(s) : \E w \in Worlds : ~Holds(s, c, w)

\* A pattern that is accepted can match: some value of the scrutinee's type is
\* also of the pattern's.
MatchCanSucceed ==
    Accepted => \A s \in Solved :
        \A c \in Range(s.constraints) \ Subtypings(s) : \E w \in Worlds :
            LET T == Ground(TypeOf(c.lhs), s.subst, environment, w)
                P == Ground(c.rhs, s.subst, Passed(s), w)
            IN  \E x \in Universe : In(x, T, w) /\ In(x, P, w)

RECURSIVE VarsIn(_)
VarsIn(T) ==
    CASE T.tag = "Var" -> {T}
      [] T.tag = "Tuple" -> UNION {VarsIn(T.items[i]) : i \in DOMAIN T.items}
      [] T.tag = "Record" -> UNION {VarsIn(T.fields[f]) : f \in DOMAIN T.fields}
      [] T.tag = "Array" -> VarsIn(T.item)
      [] T.tag = "Function" -> VarsIn(T.returns) \cup
                               UNION {VarsIn(T.params[i]) : i \in DOMAIN T.params}
      [] T.tag = "Union" -> VarsIn(T.lhs) \cup VarsIn(T.rhs)
      [] T.tag = "Binding" -> VarsIn(T.type)
      [] OTHER -> {}

\* The type inferred for a parameter is within its bounds.
InferredWithinBounds ==
    Accepted => \A s \in Solved :
        \A c \in Range(s.constraints) : \A v \in VarsIn(c.rhs) : \A w \in Worlds :
            v.uid \in DOMAIN s.subst =>
                WithinBounds(Ground(s.subst[v.uid], s.subst, Passed(s), w),
                             Ground(v.bounds, s.subst, Passed(s), w), w)

\* Substitution is complete: the type of a call or an access does not mention
\* a variable that its scope has solved.
ResultIsSubstituted ==
    closed # <<>> /\ Accepted =>
        \A v \in VarsIn(TypeOf(result)) : v.uid \notin DOMAIN Last(closed).subst

\* A variable has one type: two scopes never give it different ones.
OneSolution ==
    Accepted => \A s, t \in Range(closed) :
        \A uid \in DOMAIN s.subst \cap DOMAIN t.subst : s.subst[uid] = t.subst[uid]

\* Every variable keeps to its type; the code closes every scope it opens.
TypeOK ==
    /\ errors \in Nat
    /\ aborted \in BOOLEAN
    /\ \A i \in DOMAIN scopes : scopes[i].current \in 0 .. Len(scopes[i].constraints)
    /\ Len(SelectSeq(code, LAMBDA o : o.op = "Pop"))
         = Len(scopes) + Len(SelectSeq(code, LAMBDA o : o.op = "Push"))

\* The checker never dies on the code it checks, and its state stays typed.
NeverAborts == TypeOK /\ ~aborted
=============================================================================
