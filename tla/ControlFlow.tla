----------------------------- MODULE ControlFlow -----------------------------
(***************************************************************************)
(* The phases that remove `return`, `break` and `continue`:                *)
(* Simplify_match_return, Rewrite_control_flow,                            *)
(* Drop_return_break_continue and Functionalize_loops.                     *)
(***************************************************************************)
EXTENDS HaxAst

Jumps == {"Return", "Break", "Continue"}

-----------------------------------------------------------------------------
\* phase_simplify_match_return.ml

RECURSIVE InlineInPat(_, _, _)
InlineInPat(p, x, lhs) ==
    CASE p.p = "PWild" -> p
      [] p.p = "PBinding" -> IF p.var = x THEN lhs ELSE p
      [] p.p = "PConstruct" ->
            [p EXCEPT !.ps = [i \in DOMAIN p.ps |-> InlineInPat(p.ps[i], x, lhs)]]

\* let lhs = match s { p => a, q => return r }; body
IsReturningMatch(e) ==
    /\ e.e = "Let" /\ e.sub[1].e = "Match"
    /\ Len(e.sub[1].pats) = 2 /\ e.sub[1].sub[3].e = "Return"

\* match s { p => let lhs = a; body, q => return r }
InlineMatch(e) ==
    LET m == e.sub[1]
        p == m.pats[1]
        a == m.sub[2]
        produces == a.e = "LocalVar" /\ a.var \in PatVars(p)
    IN Match(m.sub[1],
             <<IF produces THEN InlineInPat(p, a.var, e.lhs) ELSE p, m.pats[2]>>,
             <<IF produces THEN e.sub[2] ELSE Let(e.lhs, a, e.sub[2]), m.sub[3]>>)

RECURSIVE SimplifyMatchReturn(_)
SimplifyMatchReturn(e) ==
    LET f == IF IsReturningMatch(e) THEN InlineMatch(e) ELSE e
    IN [f EXCEPT !.sub = Strict([i \in DOMAIN f.sub |-> SimplifyMatchReturn(f.sub[i])])]

-----------------------------------------------------------------------------
\* phase_rewrite_control_flow.ml

\* has_cf: may it return, or break or continue if these count?
RECURSIVE HasCf(_, _)
HasCf(e, break_continue) ==
    \/ e.e = "Return"
    \/ e.e \in {"Break", "Continue"} /\ break_continue
    \/ \E s \in Subs(e) : HasCf(s, break_continue)

\* Faulty variant of IsJumping: in a loop as out of it, only returns count.
IsReturning(rhs, in_loop) ==
    \/ rhs.e \in {"If", "Match", "Loop"} /\ HasCf(rhs, FALSE)
    \/ rhs.e \in Jumps

\* Is a statement one whose continuation has to be moved?
IsJumping(rhs, in_loop) ==
    \/ rhs.e \in {"If", "Match"} /\ HasCf(rhs, in_loop)
    \/ rhs.e = "Loop" /\ HasCf(rhs, FALSE)
    \/ rhs.e \in Jumps

\* inline_in_branch: the statements after `let p = branch`, after the branch.
InlineInBranch(branch, p, after, final) ==
    LET value == Final(branch)
        useless == \/ p = PWild /\ value = Unit
                   \/ p.p = "PBinding" /\ value.e = "LocalVar" /\ value.var = p.var
        bound == IF useless THEN <<>> ELSE <<Binding(p, value)>>
    IN MakeLets(LetBindings(branch) \o bound \o after, final)

\* loop_return_type: is there a witness of a return whose type is not unit?  The
\* visitor keeps none of the others.  A unit that a program returns is `Unit`.
RECURSIVE ReturnsValue(_)
ReturnsValue(e) == IF e.e = "Return" THEN e.sub[1] # Unit
                                     ELSE \E s \in Subs(e) : ReturnsValue(s)

RECURSIVE RewriteControlFlow(_, _)

\* loop_with_return: a match on what the loop ended with, before what follows.
\* Without a witness, what the loop returned is not returned again.
LoopWithReturn(loop, after, final, p, in_loop) ==
    LET ret == LocalVar("ret") IN
    Match(loop,
          <<PConstruct("Break", <<PBinding("ret")>>), PConstruct("Continue", <<p>>)>>,
          <<IF ReturnsValue(loop) THEN Return(ret) ELSE ret,
            RewriteControlFlow(MakeLets(after, final), in_loop)>>)

RewriteLoop(loop) ==
    [loop EXCEPT !.sub[2] = RewriteControlFlow(loop.sub[2], TRUE)]

\* A sequence of statements, of which number i is the first one that jumps.
RewriteFrom(stmts, i, final, in_loop) ==
    LET before == SubSeq(stmts, 1, i - 1)
        after == SubSeq(stmts, i + 1, Len(stmts))
        rhs == stmts[i].rhs
        p == stmts[i].lhs
        inlined(branch) == InlineInBranch(branch, p, after, final)
        branches == IF rhs.e = "If" /\ Len(rhs.sub) = 2
                    THEN <<inlined(rhs.sub[2]), MakeLets(after, final)>>
                    ELSE Strict([j \in 1 .. Len(rhs.sub) - 1 |-> inlined(rhs.sub[j + 1])])
    IN CASE rhs.e = "Loop" ->
              MakeLets(before,
                       LoopWithReturn(RewriteLoop(rhs), after, final, p, in_loop))
         [] rhs.e \in {"If", "Match"} ->
              RewriteControlFlow(
                MakeLets(before, [rhs EXCEPT !.sub = <<rhs.sub[1]>> \o branches]),
                in_loop)
         [] rhs.e \in Jumps -> RewriteControlFlow(MakeLets(before, rhs), in_loop)

RewriteLet(e, in_loop) ==
    LET stmts == LetBindings(e)
        jumping == {i \in DOMAIN stmts : IsJumping(stmts[i].rhs, in_loop)}
        first == CHOOSE i \in jumping : \A j \in jumping : i <= j
    IN IF jumping # {} THEN RewriteFrom(stmts, first, Final(e), in_loop)
       ELSE MakeLets(Strict([i \in DOMAIN stmts |->
                        Binding(stmts[i].lhs,
                                RewriteControlFlow(stmts[i].rhs, in_loop))]),
                     RewriteControlFlow(Final(e), in_loop))

RewriteControlFlow(e, in_loop) ==
    CASE ~HasCf(e, TRUE) -> e
      [] e.e = "Loop" /\ HasCf(e.sub[2], FALSE) ->
            LoopWithReturn(RewriteLoop(e), <<>>, LocalVar("loop_res"),
                           PBinding("loop_res"), in_loop)
      [] e.e = "Loop" -> RewriteLoop(e)
      [] e.e = "Let" -> RewriteLet(e, in_loop)
      [] OTHER ->
            [e EXCEPT !.sub = Strict([i \in DOMAIN e.sub |->
                                        RewriteControlFlow(e.sub[i], in_loop)])]

-----------------------------------------------------------------------------
\* phase_drop_return_break_continue.ml

\* has_return: does the body of a loop return, and does it break that loop?
RECURSIVE HasReturn(_)
HasReturn(e) ==
    CASE e.e = "Return" -> [return |-> TRUE, break |-> FALSE]
      [] e.e = "Break" -> [return |-> FALSE, break |-> TRUE]
      [] e.e = "Loop" -> [HasReturn(e.sub[2]) EXCEPT !.break = FALSE]
      [] OTHER -> [return |-> \E s \in Subs(e) : HasReturn(s).return,
                   break |-> \E s \in Subs(e) : HasReturn(s).break]

Outside == [loop |-> FALSE, return |-> FALSE, break |-> FALSE]
Inside(info) == [loop |-> TRUE, return |-> info.return, break |-> info.break]

\* expr_Constructor_CF (ast_builder.ml)
BreakCF(e) == Construct("Break", <<e>>)
ContinueCF(e) == Construct("Continue", <<e>>)
ReturnInLoop(e) == BreakCF(BreakCF(e))
BreakLoop(e, acc, info) ==
    LET pair == Tuple(<<e, acc>>)
    IN BreakCF(IF info.return THEN ContinueCF(pair) ELSE pair)

\* visitor: called on expressions in exit position only.
RECURSIVE ExitExpr(_, _)
ExitExpr(e, info) ==
    CASE e.e = "Let" -> [e EXCEPT !.sub[2] = ExitExpr(@, info)]
      [] e.e \in {"If", "Match"} ->
            [e EXCEPT !.sub = Strict([i \in DOMAIN e.sub |->
                                        IF i = 1 THEN e.sub[1]
                                        ELSE ExitExpr(e.sub[i], info)])]
      [] e.e = "Return" -> IF info.loop THEN ReturnInLoop(e.sub[1]) ELSE e.sub[1]
      [] e.e = "Break" /\ info.loop /\ Len(e.sub) = 2 ->
            BreakLoop(e.sub[1], e.sub[2], info)
      [] e.e = "Continue" /\ info.loop /\ Len(e.sub) = 1 ->
            IF info.return \/ info.break THEN ContinueCF(e.sub[1]) ELSE e.sub[1]
      [] OTHER -> IF info.return \/ info.break THEN ContinueCF(e) ELSE e

CfKind(info) == CASE info.return -> "BreakOrReturn"
                  [] ~info.return /\ info.break -> "BreakOnly"
                  [] OTHER -> "None"

\* dexpr: the loops, inside out of the exit positions of their bodies.
RECURSIVE DropLoops(_)
DropLoops(e) ==
    IF e.e = "Loop"
    THEN LET info == HasReturn(e.sub[2])
             body == ExitExpr(e.sub[2], Inside(info))
             f == [e EXCEPT !.sub[2] = body, !.cf = CfKind(info)]
         IN [f EXCEPT !.sub = Strict([i \in DOMAIN f.sub |-> DropLoops(f.sub[i])])]
    ELSE [e EXCEPT !.sub = Strict([i \in DOMAIN e.sub |-> DropLoops(e.sub[i])])]

DropReturnBreakContinue(e) == DropLoops(ExitExpr(e, Outside))

\* "Return/Break/Continue are expected to be gone as this point"
JumpsAreGone(e) == ~HasCf(e, TRUE)

-----------------------------------------------------------------------------
\* phase_functionalize_loops.ml

IsFoldable(loop) ==
    /\ loop.kind \in {"ForLoop", "WhileLoop"}
    /\ HasState(loop) \/ loop.cf = "BreakOrReturn"

RECURSIVE Functionalizable(_)
Functionalizable(e) ==
    /\ e.e = "Loop" => IsFoldable(e)
    /\ \A s \in Subs(e) : Functionalizable(s)

\* Without a state, the accumulator is a unit.
RECURSIVE FunctionalizeLoops(_)
FunctionalizeLoops(e) ==
    LET sub == Strict([i \in DOMAIN e.sub |-> FunctionalizeLoops(e.sub[i])])
    IN IF e.e # "Loop" THEN [e EXCEPT !.sub = sub]
       ELSE [e EXCEPT !.e = "Fold",
                      !.sub = IF HasState(e) THEN sub ELSE Append(sub, Unit)]
=============================================================================
