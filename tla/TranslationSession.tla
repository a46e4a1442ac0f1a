------------------------- MODULE TranslationSession -------------------------
(***************************************************************************)
(* What one session of the engine promises to the caller of run_engine     *)
(* (cli/subcommands/src/cargo_hax.rs): the engine computes, at most once,  *)
(* a sequence of outputs (diagnostics, files, debug data); cargo-hax acts  *)
(* on them one at a time and in that order; run_engine returns normally    *)
(* only when it has acted on every one of them.  A session may fail at any *)
(* time, but it does not stay undecided.                                   *)
(***************************************************************************)
EXTENDS Naturals, Sequences

CONSTANT Output       \* the outputs an engine may compute

VARIABLES computed,   \* has the engine computed its outputs?
          result,     \* the outputs it computed
          delivered,  \* the outputs cargo-hax has acted on
          outcome     \* "running", "ok" or "failed"

vars == <<computed, result, delivered, outcome>>

Init ==
    /\ computed = FALSE
    /\ result = <<>>
    /\ delivered = <<>>
    /\ outcome = "running"

\* The engine has translated everything it was given.
Compute ==
    /\ ~computed
    /\ computed' = TRUE
    /\ result' \in Seq(Output)
    /\ UNCHANGED <<delivered, outcome>>

\* cargo-hax acts on the next output.
Deliver ==
    /\ outcome = "running"
    /\ Len(delivered) < Len(result)
    /\ delivered' = Append(delivered, result[Len(delivered) + 1])
    /\ UNCHANGED <<computed, result, outcome>>

\* run_engine returns to its caller.
Return ==
    /\ outcome = "running"
    /\ computed
    /\ delivered = result
    /\ outcome' = "ok"
    /\ UNCHANGED <<computed, result, delivered>>

\* cargo-hax reports a failure of the engine, or fails itself, perhaps after
\* having acted on one more output.
Fail ==
    /\ outcome = "running"
    /\ outcome' = "failed"
    /\ \/ UNCHANGED delivered
       \/ /\ Len(delivered) < Len(result)
          /\ delivered' = Append(delivered, result[Len(delivered) + 1])
    /\ UNCHANGED <<computed, result>>

Next == Compute \/ Deliver \/ Return \/ Fail

Spec == Init /\ [][Next]_vars /\ WF_vars(Return \/ Fail)
=============================================================================
