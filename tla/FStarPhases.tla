----------------------------- MODULE FStarPhases -----------------------------
(***************************************************************************)
(* The phases of the F* backend that make an imperative function body      *)
(* functional, in the order fstar_backend.ml lists them.  A phase either   *)
(* rewrites the body or raises, and then the phases after it do not run.   *)
(***************************************************************************)
EXTENDS LocalMutation, ControlFlow, HaxMeaning

CONSTANTS Programs,   \* function bodies
          Arguments   \* environments they are called in

VARIABLES program,    \* the body as it was imported
          expr,       \* the body as the phases made it
          phase,      \* the last phase that ran
          error       \* what a phase raised, or "none"

vars == <<program, expr, phase, error>>

Init == /\ program \in Programs
        /\ expr = program
        /\ phase = "Trivialize_assign_lhs"
        /\ error = "none"

\* The phase `name`, after the phase `previous`.
Phase(previous, name, result) ==
    /\ phase = previous /\ error = "none"
    /\ phase' = name
    /\ expr' = result
    /\ UNCHANGED <<program, error>>

Hoist == Phase("Trivialize_assign_lhs", "Hoist", HoistSideEffects(expr))

\* The bodies have no disjunctive patterns: Hoist_disjunctive_patterns is left
\* out.
Simplify_match_return ==
    Phase("Hoist", "Simplify_match_return", SimplifyMatchReturn(expr))

Local_mutation ==
    Phase("Simplify_match_return", "Local_mutation", MutationToBindings(expr))

Rewrite_control_flow ==
    Phase("Local_mutation", "Rewrite_control_flow",
           RewriteControlFlow(expr, FALSE))

Drop_return_break_continue ==
    /\ phase = "Rewrite_control_flow" /\ error = "none"
    /\ phase' = "Drop_return_break_continue"
    /\ expr' = DropReturnBreakContinue(expr)
    /\ error' = IF JumpsAreGone(expr') THEN "none" ELSE "AssertionFailure"
    /\ UNCHANGED program

Functionalize_loops ==
    /\ phase = "Drop_return_break_continue" /\ error = "none"
    /\ phase' = "Functionalize_loops"
    /\ IF Functionalizable(expr)
       THEN expr' = FunctionalizeLoops(expr) /\ UNCHANGED error
       ELSE error' = "Unimplemented" /\ UNCHANGED expr
    /\ UNCHANGED program

\* The expression, or the error, goes to the printer.
Done == /\ phase = "Functionalize_loops" \/ error # "none"
        /\ UNCHANGED vars

Next == \/ Hoist \/ Simplify_match_return \/ Local_mutation
        \/ Rewrite_control_flow \/ Drop_return_break_continue
        \/ Functionalize_loops \/ Done

Spec == Init /\ [][Next]_vars

-----------------------------------------------------------------------------
RECURSIVE SubExprs(_)
SubExprs(e) == {e} \cup UNION {SubExprs(s) : s \in Subs(e)}

\* The one way to write a jump that does not survive: `return;` in a loop in a
\* loop of a unit function.  Rewrite_control_flow has no witness for what the
\* inner loop returned, and leaves the value where the outer loop continues.
ReturnsUnitFromNestedLoop(body) ==
    \E l \in SubExprs(body) : l.e = "Loop" /\
      \E m \in SubExprs(l.sub[2]) : m.e = "Loop" /\ Return(Unit) \in SubExprs(m)

SameMeaning == \A env \in Arguments : Meaning(expr, env) = Meaning(program, env)

\* Whatever the arguments, a body means after each phase what it meant in the
\* source: the same result or panic of the function, or both diverge.  Between
\* Rewrite_control_flow and Drop_return_break_continue loops are typed as
\* ControlFlow but do not return it yet, so that the body has no meaning.
MeaningKept ==
    error = "none" /\ phase # "Rewrite_control_flow" =>
      \/ SameMeaning
      \/ /\ phase \in {"Drop_return_break_continue", "Functionalize_loops"}
         /\ ReturnsUnitFromNestedLoop(program)

\* "Inside loops it rewrites `return`, `break` and `continue` as their equivalent
\* in terms of the `ControlFlow` wrapper" (phase_drop_return_break_continue.mli):
\* what is left of the jumps ends what they ended.
JumpsHaveAnEquivalent ==
    error = "none" /\ phase = "Drop_return_break_continue" => SameMeaning

\* The only jumps that Rewrite_control_flow leaves behind are the breaks and
\* continues of a loop that another loop, one that may return, comes after.
\* Everything else it brings to exit positions.
OnlyEarlierLoopsFail ==
    error = "AssertionFailure" =>
      \E e \in SubExprs(program) :
        LET stmts == LetBindings(e)
        IN \E i, j \in DOMAIN stmts :
             /\ i < j
             /\ \E l \in SubExprs(stmts[i].rhs) : l.e = "Loop" /\ HasCf(l, TRUE)
             /\ \E l \in SubExprs(stmts[j].rhs) : l.e = "Loop" /\ HasCf(l, FALSE)

\* A loop assigns a variable that it does not declare.
AssignsOuter(l) ==
    \E a \in SubExprs(l) :
      /\ a.e = "Assign"
      /\ \A b \in SubExprs(l) : b.e = "Let" => a.var \notin PatVars(b.lhs)

\* Every loop that assigns a variable from outside of it has a state, whatever
\* encloses it, and is translated unless it is a `loop`.
OnlyIdleLoopsRefused ==
    error = "Unimplemented" =>
      \E l \in SubExprs(program) :
        l.e = "Loop" /\ (l.kind = "UnconditionalLoop" \/ ~AssignsOuter(l))

\* A phase refuses a body for these two reasons only.
FailuresAreExplained == OnlyEarlierLoopsFail /\ OnlyIdleLoopsRefused

\* "Support for control flow (`return`, `break` and `continue`) in loops":
\* the phases reject no program by a failed assertion of their own.
NoAssertionFailure == error # "AssertionFailure"
=============================================================================
