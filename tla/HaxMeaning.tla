----------------------------- MODULE HaxMeaning -----------------------------
(***************************************************************************)
(* What an expression means: a reference evaluator, for the imperative     *)
(* programs the importer produces, the state-passing loops in between, and *)
(* the folds the proof libraries define (Rust_primitives.Hax.Folds.fsti).  *)
(* It models no code of the engine; the phases are checked against it.     *)
(***************************************************************************)
EXTENDS HaxAst, FiniteSets

CONSTANT Fuel   \* a while loop that runs longer is taken to diverge

\* Values: integers, and constructors applied to values.
IntV(n) == [c |-> "int", n |-> n, vs |-> <<>>]
DataV(c, vs) == [c |-> c, n |-> 0, vs |-> vs]
UnitV == DataV("tuple", <<>>)

\* What an evaluation comes to: k is "val" (value), "ret" (return), "brk"
\* (break), "cont" (continue), "panic", "diverge", or "stuck" for what has no
\* meaning.
Outcome(k, v, env) == [k |-> k, v |-> v, env |-> env]
Stuck(env) == Outcome("stuck", UnitV, env)

RECURSIVE Fits(_, _)
Fits(p, v) ==
    p.p = "PConstruct" =>
      /\ p.ctor = v.c /\ Len(p.ps) = Len(v.vs)
      /\ \A i \in DOMAIN p.ps : Fits(p.ps[i], v.vs[i])

RECURSIVE Bound(_, _)
Bound(p, v) ==
    CASE p.p = "PWild" -> <<>>
      [] p.p = "PBinding" -> p.var :> v
      [] p.p = "PConstruct" ->
            FoldLeft(LAMBDA b, i : Bound(p.ps[i], v.vs[i]) @@ b, <<>>,
                     [i \in DOMAIN p.ps |-> i])

\* The variables `inner` binds end with it; assignments to the others last.
Leave(env, inner, vars) ==
    [x \in DOMAIN env \cap vars |-> env[x]] @@ [x \in DOMAIN env |-> inner[x]]

\* A call of f; `report` panics with its arguments, the others have a value.
Apply(f, vs, env) ==
    CASE f = "report" -> Outcome("panic", DataV("tuple", vs), env)
      [] f = "never_to_any" -> Outcome("val", vs[1], env)
      [] \E i \in DOMAIN vs : vs[i].c # "int" -> Stuck(env)
      [] f = "add" -> Outcome("val", IntV(vs[1].n + vs[2].n), env)
      [] f = "less" -> Outcome("val", IntV(IF vs[1].n < vs[2].n THEN 1 ELSE 0), env)

RECURSIVE Eval(_, _), EvalAll(_, _, _), Iterate(_, _, _, _)

\* Left to right; `vs` are the values so far.
EvalAll(es, env, vs) ==
    IF es = <<>> THEN Outcome("val", vs, env)
    ELSE LET r == Eval(Head(es), env)
         IN IF r.k # "val" THEN r ELSE EvalAll(Tail(es), r.env, Append(vs, r.v))

\* e with the variables of p bound to v.
EvalUnder(p, v, e, env) ==
    IF ~Fits(p, v) THEN Stuck(env)
    ELSE LET r == Eval(e, Bound(p, v) @@ env)
         IN [r EXCEPT !.env = Leave(env, r.env, PatVars(p))]

\* The value of a loop that ends with the state `acc`, by itself or by a break.
LoopValue(loop, acc) ==
    IF loop.cf = "BreakOrReturn" THEN DataV("Continue", <<acc>>) ELSE acc

\* A constructor around a pair of unit and a state: the folds accept no other e.
IsBreak(v) == /\ v.c \in {"Break", "Continue"}
              /\ v.vs[1].c = "tuple" /\ Len(v.vs[1].vs) = 2
              /\ v.vs[1].vs[1] = UnitV

\* One iteration and the ones after it.  The body of a loop without control
\* flow returns the next state; otherwise a ControlFlow:
\* Continue(state), Break((e, state)) or, if it may return,
\* Break(Break(result)) and Break(Continue((e, state))).
NextIteration(loop, i, r) ==
    LET v == r.v IN
    CASE r.k = "brk" -> Outcome("val", LoopValue(loop, v), r.env)
      [] r.k \in {"ret", "panic", "stuck", "diverge"} -> r
      [] loop.cf = "None" -> Iterate(loop, i + 1, v, r.env)
      [] v.c = "Continue" -> Iterate(loop, i + 1, v.vs[1], r.env)
      [] loop.cf = "BreakOnly" /\ IsBreak(v) -> Outcome("val", v.vs[1].vs[2], r.env)
      [] loop.cf = "BreakOrReturn" /\ v.c = "Break" /\ v.vs[1].c = "Break" ->
            Outcome("val", v.vs[1], r.env)
      [] loop.cf = "BreakOrReturn" /\ v.c = "Break" /\ IsBreak(v.vs[1]) ->
            Outcome("val", DataV("Continue", <<v.vs[1].vs[1].vs[2]>>), r.env)
      [] OTHER -> Stuck(r.env)

\* `i` counts the iterations; the condition of a while loop is evaluated before
\* each, under the state.
Iterate(loop, i, acc, env) ==
    LET test == IF loop.kind = "WhileLoop"
                THEN EvalUnder(loop.bpat, acc, loop.sub[1], env)
                ELSE Outcome("val", IntV(1), env)
    IN CASE loop.kind = "ForLoop" /\ i = loop.bound ->
                Outcome("val", LoopValue(loop, acc), env)
         [] test.k # "val" -> test
         [] test.v.n = 0 -> Outcome("val", LoopValue(loop, acc), test.env)
         [] i = Fuel -> Outcome("diverge", UnitV, env)
         [] OTHER ->
              LET vars == PConstruct("tuple", <<loop.bpat, loop.pat>>)
              IN NextIteration(loop, i,
                   EvalUnder(vars, DataV("tuple", <<acc, IntV(i)>>),
                             loop.sub[2], test.env))

EvalLoop(loop, env) ==
    LET inputs == EvalAll((IF loop.kind = "ForLoop" THEN <<loop.sub[1]>>
                                                    ELSE <<Literal(0)>>)
                          \o (IF HasState(loop) THEN <<loop.sub[3]>> ELSE <<Unit>>),
                          env, <<>>)
    IN IF inputs.k # "val" THEN inputs
       ELSE Iterate(loop @@ [bound |-> inputs.v[1].n], 0, inputs.v[2], inputs.env)

EvalMatch(e, env) ==
    LET s == Eval(e.sub[1], env)
        fitting == {i \in DOMAIN e.pats : Fits(e.pats[i], s.v)}
        i == CHOOSE j \in fitting : \A k \in fitting : j <= k
    IN CASE s.k # "val" -> s
         [] s.k = "val" /\ fitting = {} -> Stuck(s.env)
         [] OTHER -> EvalUnder(e.pats[i], s.v, e.sub[i + 1], s.env)

EvalIf(e, env) ==
    LET c == Eval(e.sub[1], env)
    IN CASE c.k # "val" -> c
         [] c.v.n # 0 -> Eval(e.sub[2], c.env)
         [] Len(e.sub) = 3 -> Eval(e.sub[3], c.env)
         [] OTHER -> Outcome("val", UnitV, c.env)

EvalLet(e, env) ==
    LET r == Eval(e.sub[1], env)
    IN IF r.k # "val" THEN r ELSE EvalUnder(e.lhs, r.v, e.sub[2], r.env)

Eval(e, env) ==
    CASE e.e = "Literal" -> Outcome("val", IntV(e.n), env)
      [] e.e = "LocalVar" ->
            IF e.var \in DOMAIN env THEN Outcome("val", env[e.var], env)
                                    ELSE Stuck(env)
      [] e.e = "Let" -> EvalLet(e, env)
      [] e.e = "If" -> EvalIf(e, env)
      [] e.e = "Match" -> EvalMatch(e, env)
      [] e.e \in {"Loop", "Fold"} -> EvalLoop(e, env)
      [] OTHER ->
            LET r == EvalAll(e.sub, env, <<>>)
            IN CASE r.k # "val" -> r
                 [] e.e = "App" -> Apply(e.f, r.v, r.env)
                 [] e.e = "Construct" ->
                      Outcome("val", DataV(e.ctor, r.v), r.env)
                 [] e.e = "Assign" ->
                      IF e.var \notin DOMAIN env THEN Stuck(env)
                      ELSE Outcome("val", UnitV, [r.env EXCEPT ![e.var] = r.v[1]])
                 [] e.e = "Return" -> Outcome("ret", r.v[1], r.env)
                 \* break carries a value, then the state if there is one
                 [] e.e = "Break" -> Outcome("brk", Last(r.v), r.env)
                 [] e.e = "Continue" ->
                      Outcome("cont", IF r.v = <<>> THEN UnitV ELSE r.v[1], r.env)

\* What calling a function with that body comes to: a return is its result.
Meaning(e, env) ==
    LET r == Eval(e, env)
    IN CASE r.k \in {"val", "ret"} -> [k |-> "result", v |-> r.v]
         [] r.k = "panic" -> [k |-> "panic", v |-> r.v]
         [] OTHER -> [k |-> r.k, v |-> UnitV]
=============================================================================
