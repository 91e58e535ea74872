------------------------------- MODULE Solver -------------------------------
(***************************************************************************)
(* How typing/UnificationScope.cpp decides one constraint, as functions    *)
(* from a scope to a scope.  Of a scope they use the fields                *)
(*   subst     m_substitutions                                             *)
(*   env       m_environment, with the interpreter's environment behind it *)
(*   failed    m_unificationFailed                                         *)
(*   throwing  m_shouldThrowTypeError                                      *)
(*   errors    the type errors reported to the VM by this scope            *)
(*   aborted   an assertion failed: the process is gone                    *)
(*                                                                         *)
(* RuleFor and MatchRuleFor are the order in which the code tries its      *)
(* rules; the names are those of its comments.                             *)
(***************************************************************************)
EXTENDS Types, SequencesExt

\* The end of unifies(), and of infer().
Fail(s) == [s EXCEPT !.failed = TRUE,
                     !.errors = IF s.throwing THEN @ + 1 ELSE @]

Solvable(T) == T.tag = "Var" /\ T.inferred /\ ~T.rigid

\* T-Ident compares pointers: a basic type is one cell, and so is a variable
\* or what it has been replaced by; a substituted compound type is a new cell.
SameCell(T, U, subst) ==
    \/ T = U /\ T.tag = "Var"
    \/ LET substituted == Substitute(T, subst)
       IN  /\ substituted = Substitute(U, subst)
           /\ substituted.tag \in {"Type", "Top", "Bottom", "Name", "Var"}

\* (A mutant: errors stay off.)
RestoreFailed(tried, s) == [tried EXCEPT !.failed = s.failed]
\* The flags after the first alternative.
Restore(tried, s) == [tried EXCEPT !.failed = s.failed, !.throwing = s.throwing]

\* unificationOr: the second alternative is tried when the first one failed,
\* and only it reports.  What the first one bound stays bound.
Or(s, First(_), Second(_)) ==
    LET tried == First([s EXCEPT !.failed = FALSE, !.throwing = FALSE])
    IN  IF tried.failed THEN Second(Restore(tried, s)) ELSE Restore(tried, s)

\* (A mutant: T-Union-R first.)
UnionRightFirst(S, R) ==
    IF R.tag = "Union" THEN "Union-R"
    ELSE IF Collapse(S) # NoType THEN "UnionRecord-L" ELSE "Union-L"
\* The rule for a union on either side.
UnionRule(S, R) ==
    IF S.tag # "Union" THEN "Union-R"
    ELSE IF Collapse(S) # NoType THEN "UnionRecord-L" ELSE "Union-L"

\* The first rule of unifies() whose premises hold.  L and R are the types of
\* the two sides, S that of the left side where it is itself a type.
RuleFor(s, lhs, rhs, L, S, R) ==
    IF SameCell(TypeOf(lhs), rhs, s.subst) THEN "Ident"
    ELSE IF L.tag = "Binding" THEN "Binding-L"
    ELSE IF R.tag = "Binding" THEN "Binding-R"
    ELSE IF Solvable(R) THEN "Value-InferredVar"
    ELSE IF R.tag = "Var" /\ L = Type /\ IsType(lhs)
         THEN IF R.rigid THEN "Type-RigidVar" ELSE "Type-Var"
    ELSE IF Solvable(S) THEN "InferredVar-Type"
    ELSE IF S.tag = "Binding" THEN "TypeBinding-L"
    ELSE IF R.tag = "Top" THEN "Top"
    ELSE IF S.tag = "Bottom" THEN "Bottom"
    ELSE IF "Union" \in {S.tag, R.tag} THEN UnionRule(S, R)
    ELSE IF S.tag = "Tuple" /\ R.tag = "Tuple" /\ Len(S.items) >= Len(R.items)
         THEN "Tuple"
    ELSE IF /\ S.tag = "Record" /\ R.tag = "Record"
            /\ Cardinality(DOMAIN S.fields) >= Cardinality(DOMAIN R.fields)
         THEN "Record"
    ELSE IF S.tag = "Array" /\ R.tag = "Array" THEN "Array"
    ELSE IF /\ S.tag = "Function" /\ R.tag = "Function"
            /\ Len(S.params) = Len(R.params)
         THEN "Function"
    ELSE IF IsHole(S) /\ IsHole(R) THEN "Holes"
    ELSE IF IsHole(R) THEN "Hole-R"
    ELSE IF IsHole(S) THEN "Hole-L"
    ELSE IF S.tag = "Var" /\ S.bounds # Type THEN "BoundVar-L"
    ELSE "None"

\* eval(): runs the hole, asserts that the result is a type, and substitutes.
Eval(s, hole) ==
    LET v == Evaluate(TypeValue(hole), s.env)
    IN  IF v # Abort /\ IsType(v) THEN Substitute(v.type, s.subst) ELSE NoType

WithEvaluated(s, hole, Then(_)) ==
    LET T == Eval(s, hole)
    IN  IF T = NoType THEN [s EXCEPT !.aborted = TRUE] ELSE Then(T)

\* The fields of R, in an order of the unordered map, up to one that S lacks.
FieldsBeforeMissing(S, R) ==
    LET fields == SetToSeq(DOMAIN R.fields)
        Common(k) == \A i \in 1 .. k : fields[i] \in DOMAIN S.fields
    IN  SubSeq(fields, 1, Max({k \in 0 .. Len(fields) : Common(k)}))

RECURSIVE Unifies(_, _, _), Conclude(_, _, _, _, _, _, _)
\* (A mutant: the bounds are not checked.)
BindUnchecked(s, var, T) == [s EXCEPT !.subst = @ @@ (var.uid :> T)]
\* bind(): the type is checked against the bounds, and recorded whether or not
\* it is within them.  emplace() keeps an earlier entry.
Bind(s, var, T) ==
    LET checked == Unifies(s, TypeValue(T), var.bounds)
    IN  [checked EXCEPT !.subst = @ @@ (var.uid :> T)]

UnifyEach(s, lhs(_), rhs(_), indices) ==
    FoldLeft(LAMBDA t, i : Unifies(t, lhs(i), rhs(i)), s, indices)

\* What each rule of unifies() does once its premises hold.
Conclude(rule, s, lhs, rhs, L, S, R) ==
    CASE rule \in {"Ident", "Type-RigidVar", "Top", "Bottom"} -> s
      [] rule = "Binding-L" -> Unifies(s, AbstractValue(L.type), rhs)
      [] rule = "Binding-R" ->
            Unifies([s EXCEPT !.env = (R.variable :> lhs) @@ @], lhs, R.type)
      [] rule = "Value-InferredVar" -> Bind(s, R, L)
      [] rule = "Type-Var" -> Bind(s, R, S)
      [] rule = "InferredVar-Type" -> Bind(s, S, Substitute(R, s.subst))
      [] rule = "TypeBinding-L" -> Unifies(s, TypeValue(S.type), rhs)
      [] rule = "UnionRecord-L" ->
            Unifies(s, AbstractValue(Collapse(S)), rhs)
      [] rule = "Union-L" ->
            Unifies(Unifies(s, AbstractValue(S.lhs), rhs),
                    AbstractValue(S.rhs), rhs)
      [] rule = "Union-R" -> Or(s, LAMBDA t : Unifies(t, lhs, R.lhs),
                                   LAMBDA t : Unifies(t, lhs, R.rhs))
      [] rule = "Tuple" ->
            UnifyEach(s, LAMBDA i : AbstractValue(S.items[i]),
                         LAMBDA i : R.items[i],
                         [i \in DOMAIN R.items |-> i])
      [] rule = "Record" ->
            LET present == FieldsBeforeMissing(S, R)
                compared == UnifyEach(s, LAMBDA f : AbstractValue(S.fields[f]),
                                         LAMBDA f : R.fields[f], present)
            IN  IF Len(present) < Cardinality(DOMAIN R.fields)
                THEN Fail(compared) ELSE compared
      [] rule = "Array" -> Unifies(s, AbstractValue(S.item), R.item)
      [] rule = "Function" ->
            Unifies(UnifyEach(s, LAMBDA i : TypeValue(R.params[i]),
                                 LAMBDA i : S.params[i],
                                 [i \in DOMAIN S.params |-> i]),
                    AbstractValue(S.returns), R.returns)
      [] rule = "Holes" ->
            IF PartiallyEvaluate(TypeValue(S), s.env)
                 = PartiallyEvaluate(TypeValue(R), s.env)
            THEN s ELSE Fail(s)
      [] rule = "Hole-R" ->
            WithEvaluated(s, R, LAMBDA T : Unifies(s, lhs, T))
      [] rule = "Hole-L" ->
            WithEvaluated(s, S, LAMBDA T : Unifies(s, TypeValue(T), rhs))
      [] rule = "BoundVar-L" -> Unifies(s, AbstractValue(S.bounds), rhs)
      [] rule = "None" -> Fail(s)

\* unifies(): lhs is a value, rhs a type.
Unifies(s, lhs, rhs) ==
    LET Decided(L, S, R) ==
            Conclude(RuleFor(s, lhs, rhs, L, S, R), s, lhs, rhs, L, S, R)
        L == Substitute(TypeOf(lhs), s.subst)
    IN  IF s.aborted THEN s
        ELSE Decided(L, IF IsType(lhs) THEN Substitute(lhs.type, s.subst) ELSE L,
                     Substitute(rhs, s.subst))

RECURSIVE Matches(_, _, _)
\* matches(): a scrutinee matches a pattern if one of its alternatives does.
Matches(s, scrutinee, pattern) ==
    LET T == Substitute(TypeOf(scrutinee), s.subst)
    IN  IF s.aborted THEN s ELSE
        CASE T.tag = "Binding" -> Matches(s, AbstractValue(T.type), pattern)
          [] IsHole(T) ->
                WithEvaluated(s, T,
                    LAMBDA U : Matches(s, AbstractValue(U), pattern))
          [] T.tag = "Var" -> Matches(s, AbstractValue(T.bounds), pattern)
          [] T.tag = "Union" ->
                Or(s, LAMBDA t : Matches(t, AbstractValue(T.lhs), pattern),
                      LAMBDA t : Matches(t, AbstractValue(T.rhs), pattern))
          [] OTHER -> Unifies(s, scrutinee, pattern)

=============================================================================
