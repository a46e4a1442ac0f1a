---------------------------- MODULE LocalMutation ----------------------------
(***************************************************************************)
(* phase_local_mutation.ml: assignments become new bindings of the same    *)
(* names, and every expression that assigns returns the new values.        *)
(***************************************************************************)
EXTENDS SideEffects

\* Instructions.t: the variables whose values the expression returns in front
\* of its own, those a loop carries, and whether its own value is dropped.
Instructions(vars, loop, drop) ==
    [expr_level |-> vars, loop_level |-> loop, drop_expr |-> drop]

\* The variables alone, or with the value.
WithVars(s, vars, value) == IF s.drop_expr THEN vars ELSE Tuple(<<vars, value>>)

\* The variables a loop carries: in the order its context wants if these are
\* the ones.
Carried(loop, s) ==
    LET mutated == FreeAssigned(loop)
    IN IF mutated = ToSet(s.expr_level) THEN s.expr_level ELSE ToList(mutated)

RECURSIVE Dexpr(_, _)

\* `let lhs = rhs; body`, where rhs also returns what it assigns.
DLet(e, s) ==
    LET rhs == e.sub[1]
        drop == e.lhs = PWild
        vars == ToList(FreeAssigned(rhs))
        lhs == CASE vars = <<>> -> e.lhs
                 [] vars # <<>> /\ drop -> PTupleOfVars(vars)
                 [] OTHER -> PTuple(<<PTupleOfVars(vars), e.lhs>>)
    IN Let(lhs, Dexpr(rhs, Instructions(vars, s.loop_level, drop)),
           Dexpr(e.sub[2], s))

\* `let lhs = (x = value); body`
DLetAssign(e, s) ==
    LET x == e.sub[1].var
        value == Dexpr(e.sub[1].sub[1], Instructions(<<>>, s.loop_level, FALSE))
    IN IF e.lhs = PWild
       THEN Let(PBinding(x), value, Dexpr(e.sub[2], s))
       ELSE Let(PTuple(<<e.lhs, PBinding(x)>>), Tuple(<<Unit, value>>),
                Dexpr(e.sub[2], s))

DAssign(e, s) ==
    LET value == Dexpr(e.sub[1], Instructions(<<>>, s.loop_level, FALSE))
        vars == Tuple(Strict([i \in DOMAIN s.expr_level |->
                                IF s.expr_level[i] = e.var THEN value
                                ELSE LocalVar(s.expr_level[i])]))
    IN WithVars(s, vars, Unit)

DLoop(e, s) ==
    LET carried == Carried(e, s)
        inner == Instructions(<<>>, carried, FALSE)
        it == Dexpr(e.sub[1], inner)
        body == Dexpr(e.sub[2], Instructions(carried, carried, TRUE))
        loop == IF carried = <<>> THEN [e EXCEPT !.sub = <<it, body>>]
                ELSE [e EXCEPT !.bpat = PTupleOfVars(carried),
                               !.sub = <<it, body, TupleOfVars(carried)>>]
        reorder == carried # s.expr_level /\ s.expr_level # <<>>
    IN WithVars(s, IF reorder THEN Let(PTupleOfVars(carried), loop,
                                       TupleOfVars(s.expr_level))
                   ELSE loop,
                Unit)

\* Any other expression: it assigns nothing, the variables are as they were.
DPure(e, s) ==
    LET f == [e EXCEPT !.sub = Strict([i \in DOMAIN e.sub |->
                 Dexpr(e.sub[i], Instructions(<<>>, s.loop_level, FALSE))])]
        vars == TupleOfVars(s.expr_level)
    IN CASE s.expr_level = <<>> -> f
         [] s.expr_level # <<>> /\ s.drop_expr ->
              IF ReadsOnly(Effects(f)) THEN vars ELSE Let(PWild, f, vars)
         [] OTHER -> WithVars(s, vars, f)

Dexpr(e, s) ==
    LET operand(i) == Dexpr(e.sub[i], Instructions(<<>>, s.loop_level, FALSE))
        carried == TupleOfVars(s.loop_level)
    IN CASE e.e = "Let" /\ e.sub[1].e = "Assign" -> DLetAssign(e, s)
         [] e.e = "Let" -> DLet(e, s)
         [] e.e = "Assign" -> DAssign(e, s)
         [] e.e = "If" ->
              IfElse(operand(1), Dexpr(e.sub[2], s),
                     Dexpr(IF Len(e.sub) = 3 THEN e.sub[3] ELSE Unit, s))
         [] e.e = "Match" ->
              Match(operand(1), e.pats,
                    Strict([i \in DOMAIN e.pats |-> Dexpr(e.sub[i + 1], s)]))
         [] e.e = "Break" -> [e EXCEPT !.sub = <<Dexpr(e.sub[1], s), carried>>]
         [] e.e = "Continue" -> [e EXCEPT !.sub = <<carried>>]
         [] e.e = "Return" -> Return(operand(1))
         [] e.e = "Loop" -> DLoop(e, s)
         [] OTHER -> DPure(e, s)

\* dexpr_unwrapped
MutationToBindings(e) == Dexpr(e, Instructions(<<>>, <<>>, FALSE))
=============================================================================
