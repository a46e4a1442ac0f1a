----------------------------- MODULE SideEffects -----------------------------
(***************************************************************************)
(* Side_effect_utils.Hoist: every operand that has an effect becomes a     *)
(* statement `let hoist = operand`, so that the phases after it find       *)
(* assignments, returns and breaks in statement position only.             *)
(***************************************************************************)
EXTENDS HaxAst, FiniteSets

\* SideEffects.t: the free variables read and written, and in cf which of
\* "return", "continue" and "break" may happen.
Zero == [reads |-> {}, writes |-> {}, cf |-> {}]
Plus(a, b) == [reads |-> a.reads \cup b.reads, writes |-> a.writes \cup b.writes,
               cf |-> a.cf \cup b.cf]
PlusAll(effects) == FoldLeft(Plus, Zero, effects)

WithoutVars(effects, vars) ==
    [effects EXCEPT !.reads = @ \ vars, !.writes = @ \ vars]

ReadsOnly(a) == a.cf = {} /\ a.writes = {}

\* Faulty variant of Commute: only the writes are compared.
WritesCommute(a, b) == a.writes \cap b.writes = {}

Commute(a, b) ==
    IF a.cf = {} /\ b.cf = {}
    THEN /\ a.writes \cap (b.writes \cup b.reads) = {}
         /\ b.writes \cap (a.writes \cup a.reads) = {}
    ELSE ReadsOnly(a) \/ ReadsOnly(b)

\* The result of a visit: the expression left in place, the bindings to put
\* before it, all its effects, and a fresh name.
Hoisted(e, lbs, effects, at) ==
    [e |-> e, lbs |-> lbs, effects |-> effects, fresh |-> "hoist" \o at]
Materialize(h) == MakeLets(h.lbs, h.e)

\* HoistSeq.many, from the last operand to the first: an operand stays in place
\* if it only reads and commutes with the operands after it.
Many(hs) ==
    FoldRight(
      LAMBDA h, rest :
        LET stays == ReadsOnly(h.effects) /\ Commute(h.effects, rest.effects)
            bound == IF stays THEN <<>>
                     ELSE <<Binding(PBinding(h.fresh), h.e)>>
        IN [es |-> <<IF stays THEN h.e ELSE LocalVar(h.fresh)>> \o rest.es,
            lbs |-> h.lbs \o bound \o rest.lbs,
            effects |-> Plus(h.effects, rest.effects)],
      hs, [es |-> <<>>, lbs |-> <<>>, effects |-> Zero])

\* The effect of a constructor itself, its subexpressions apart.
OwnEffect(e) ==
    CASE e.e = "LocalVar" -> [Zero EXCEPT !.reads = {e.var}]
      [] e.e = "Assign" -> [Zero EXCEPT !.writes = {e.var}]
      [] e.e = "Return" -> [Zero EXCEPT !.cf = {"return"}]
      [] e.e = "Break" -> [Zero EXCEPT !.cf = {"break"}]
      [] e.e = "Continue" -> [Zero EXCEPT !.cf = {"continue"}]
      [] OTHER -> Zero

\* Which subexpressions are evaluated before the construct decides anything;
\* the others are its bodies.
Inputs(e) == CASE e.e \in {"If", "Match"} -> {1}
               [] e.e = "Loop" -> DOMAIN e.sub \ {2}
               [] OTHER -> DOMAIN e.sub

\* What of the effects of body i is seen from outside: variables bound by an
\* arm are not, and a loop handles `continue` and `break`.
BodyEffects(e, i, effects) ==
    CASE e.e = "Match" -> WithoutVars(effects, PatVars(e.pats[i - 1]))
      [] e.e = "Loop" -> [effects EXCEPT !.cf = @ \ {"continue", "break"}]
      [] OTHER -> effects

\* collect_and_hoist_effects_object#visit_expr; `at` tells subexpressions apart.
RECURSIVE HoistExpr(_, _)
HoistExpr(e, at) ==
    LET visit == Strict([i \in DOMAIN e.sub |->
                           HoistExpr(e.sub[i], at \o ToString(i))])
        inputs == Inputs(e)
        ops == Many(FoldLeftDomain(LAMBDA hs, i : IF i \in inputs
                                                  THEN Append(hs, visit[i]) ELSE hs,
                                   <<>>, e.sub))
        sub == Strict([i \in DOMAIN e.sub |->
                         IF i \in inputs
                         THEN ops.es[Cardinality(inputs \cap 1 .. i)]
                         ELSE Materialize(visit[i])])
        seen == Strict([i \in DOMAIN e.sub |->
                          IF i \in inputs THEN Zero
                          ELSE BodyEffects(e, i, visit[i].effects)])
    IN IF e.e = "Let"
       THEN Hoisted(visit[2].e,
                    visit[1].lbs \o <<Binding(e.lhs, visit[1].e)>> \o visit[2].lbs,
                    Plus(visit[1].effects, visit[2].effects), at)
       ELSE Hoisted([e EXCEPT !.sub = sub], ops.lbs,
                    PlusAll(<<ops.effects, OwnEffect(e)>> \o seen), at)

\* collect_and_hoist_effects
HoistSideEffects(e) == Materialize(HoistExpr(e, ""))
Effects(e) == HoistExpr(e, "").effects
=============================================================================
