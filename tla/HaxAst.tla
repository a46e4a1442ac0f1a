------------------------------- MODULE HaxAst -------------------------------
(***************************************************************************)
(* The expressions of the engine (engine/lib/ast.ml) that the phases about *)
(* effects and control flow tell apart, and the helpers of ast_utils.ml    *)
(* these phases share.  An expression is a record of its constructor `e`,  *)
(* its direct subexpressions `sub`, in the order of evaluation, and what   *)
(* else the constructor carries.  Types and spans are left out.  Blocks,   *)
(* references, match guards and places other than variables are gone when  *)
(* these phases run.                                                       *)
(***************************************************************************)
EXTENDS Integers, SequencesExt

CONSTANT Mutables   \* the local variables a program may assign, in the order
                    \* of TypedLocalIdent.compare

\* The sequence s; TLC evaluates its elements at once, and once.
Strict(s) == s \o <<>>

PWild == [p |-> "PWild"]
PBinding(x) == [p |-> "PBinding", var |-> x]
PConstruct(c, ps) == [p |-> "PConstruct", ctor |-> c, ps |-> ps]

\* make_tuple_pat: a tuple of one is what it holds
PTuple(ps) == IF Len(ps) = 1 THEN ps[1] ELSE PConstruct("tuple", ps)

RECURSIVE PatVars(_)
PatVars(p) ==
    CASE p.p = "PWild" -> {}
      [] p.p = "PBinding" -> {p.var}
      [] p.p = "PConstruct" -> UNION {PatVars(p.ps[i]) : i \in DOMAIN p.ps}

Literal(n) == [e |-> "Literal", n |-> n, sub |-> <<>>]
LocalVar(x) == [e |-> "LocalVar", var |-> x, sub |-> <<>>]
App(f, args) == [e |-> "App", f |-> f, sub |-> args]
Construct(c, args) == [e |-> "Construct", ctor |-> c, sub |-> args]
Let(p, rhs, body) == [e |-> "Let", lhs |-> p, sub |-> <<rhs, body>>]
Assign(x, value) == [e |-> "Assign", var |-> x, sub |-> <<value>>]
IfThen(c, t) == [e |-> "If", sub |-> <<c, t>>]
IfElse(c, t, f) == [e |-> "If", sub |-> <<c, t, f>>]
\* arm i has the pattern pats[i] and the body bodies[i]
Match(scrutinee, pats, bodies) ==
    [e |-> "Match", pats |-> pats, sub |-> <<scrutinee>> \o bodies]
Break(value) == [e |-> "Break", sub |-> <<value>>]
Continue == [e |-> "Continue", sub |-> <<>>]
Return(value) == [e |-> "Return", sub |-> <<value>>]

\* `it` is the end of the range of a ForLoop and the condition of a WhileLoop.
\* A state adds a third subexpression, its initial value, bound to bpat; cf is
\* the control_flow that Drop_return_break_continue fills in.
Loop(kind, pat, it, body) ==
    [e |-> "Loop", kind |-> kind, pat |-> pat, bpat |-> PWild, cf |-> "None",
     sub |-> <<it, body>>]
HasState(loop) == Len(loop.sub) = 3

\* make_tuple_expr, unit_expr
Tuple(es) == IF Len(es) = 1 THEN es[1] ELSE Construct("tuple", es)
Unit == Construct("tuple", <<>>)
TupleOfVars(xs) == Tuple([i \in DOMAIN xs |-> LocalVar(xs[i])])
PTupleOfVars(xs) == PTuple([i \in DOMAIN xs |-> PBinding(xs[i])])

\* Set.to_list
ToList(vars) == SelectSeq(Mutables, LAMBDA x : x \in vars)

RECURSIVE PatIsExpr(_, _)
PatIsExpr(p, e) ==
    \/ p.p = "PBinding" /\ e.e = "LocalVar" /\ p.var = e.var
    \/ /\ p.p = "PConstruct" /\ e.e = "Construct"
       /\ p.ctor = e.ctor /\ Len(p.ps) = Len(e.sub)
       /\ \A i \in DOMAIN p.ps : PatIsExpr(p.ps[i], e.sub[i])

MakeLet(p, rhs, body) == IF PatIsExpr(p, body) THEN rhs ELSE Let(p, rhs, body)

\* make_lets, lets_of_bindings
MakeLets(lbs, body) ==
    FoldRight(LAMBDA lb, b : MakeLet(lb.lhs, lb.rhs, b), lbs, body)

Binding(p, rhs) == [lhs |-> p, rhs |-> rhs]

RECURSIVE LetBindings(_)
LetBindings(e) ==
    IF e.e # "Let" THEN <<>>
    ELSE <<Binding(e.lhs, e.sub[1])>> \o LetBindings(e.sub[2])

RECURSIVE Final(_)
Final(e) == IF e.e # "Let" THEN e ELSE Final(e.sub[2])

Subs(e) == {e.sub[i] : i \in DOMAIN e.sub}

\* free_assigned_variables: what an expression assigns and does not bind
RECURSIVE FreeAssigned(_)
FreeAssigned(e) ==
    CASE e.e = "Assign" -> {e.var}
      [] e.e = "Let" ->
            FreeAssigned(e.sub[1]) \cup (FreeAssigned(e.sub[2]) \ PatVars(e.lhs))
      [] e.e = "Match" ->
            FreeAssigned(e.sub[1]) \cup
            UNION {FreeAssigned(e.sub[i + 1]) \ PatVars(e.pats[i]) :
                     i \in DOMAIN e.pats}
      [] e.e = "Loop" ->
            FreeAssigned(e.sub[1]) \cup (FreeAssigned(e.sub[2]) \ PatVars(e.bpat))
      [] OTHER -> UNION {FreeAssigned(s) : s \in Subs(e)}
=============================================================================
