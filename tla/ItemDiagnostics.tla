--------------------------- MODULE ItemDiagnostics --------------------------
(***************************************************************************)
(* How one run of the engine (`run`, engine/bin/lib.ml) attributes errors  *)
(* to the items of the crate, and what `--stats` then makes of them.       *)
(*                                                                         *)
(* The engine keeps three global references.  `Span.owner_id_list` names   *)
(* the items met so far and `Span.state_owner_hint` the item every new     *)
(* span is attributed to; `Diagnostics.Core.state` accumulates errors.     *)
(* The import of an item runs under `with_owner_hint` and under `capture`, *)
(* an error is reported and then raised as an exception which some         *)
(* enclosing handler turns into an error node.  Only the items selected    *)
(* after the import are declared to cargo-hax, and only their import       *)
(* errors are reported again.                                              *)
(***************************************************************************)
EXTENDS Integers, Sequences, SequencesExt, FiniteSets

CONSTANTS N,          \* items 1 .. N of the crate, in the order of the input
          Kinds,      \* what may be wrong with an item
          MaxYield,   \* AST items made from one item: 0 .. MaxYield
          MaxReports, \* bound on the errors of the import of one item
          MaxState    \* bound on the errors when a phase adds one

ASSUME CountAssumption == N \in Nat \ {0}
ASSUME YieldAssumption == MaxYield \in Nat \ {0}
ASSUME ReportsAssumption == MaxReports \in Nat /\ MaxState \in Nat

VARIABLES
    at,                \* "items", "import", "phases", "done"
    current,           \* the item being imported, or the last one that was
    owner_id_list,     \* Span.owner_id_list: the latest owner comes first
    state_owner_hint,  \* Span.state_owner_hint, an id or NoHint
    previous_hint,     \* `previous` in with_owner_hint
    state,             \* Diagnostics.Core.state
    previous_state,    \* `previous_state` in capture
    items,             \* the AST items imported so far, then those selected
    reports,           \* what capture returned for each item
    declared,          \* the owners sent in ItemProcessed
    outcome            \* "running", "ok", "fatal", "crashed"

vars == <<at, current, owner_id_list, state_owner_hint, previous_hint, state,
          previous_state, items, reports, declared, outcome>>

Crate   == 1 .. N
NoOwner == 0       \* None, where an owner is expected
NoHint  == -1      \* None, where an owner id is expected

\* `about` is what is wrong, `owner` what the diagnostic says.
Diagnostics == [about : Crate, kind : Kinds, owner : Crate \cup {NoOwner}]

\* An AST item: the item it comes from, the owner hint of its span, and
\* whether an error node stands for it or for a part of it.
AstItems == [item : Crate, n : 1 .. MaxYield, hint : -1 .. N - 1,
             failed : BOOLEAN]

Init ==
    /\ at = "items" /\ current = 0
    /\ owner_id_list = <<>> /\ state_owner_hint = NoHint
    /\ previous_hint = NoHint
    /\ state = <<>> /\ previous_state = <<>>
    /\ items = {} /\ reports = [i \in Crate |-> {}]
    /\ declared = {} /\ outcome = "running"

-----------------------------------------------------------------------------
(* Owners *)

\* Faulty variant of FreshOwnerId: the length once the owner is in the list.
LengthAfter == Len(owner_id_list) + 1

\* fresh_owner_id: the new id is the length of the list before the new owner
\* is put in front of it.
FreshOwnerId == Len(owner_id_list)

\* owner_hint: List.nth counts from the front of the list.
OwnerHint(id) ==
    IF id = NoHint THEN NoOwner
    ELSE IF id + 1 \in 1 .. Len(owner_id_list) THEN owner_id_list[id + 1]
    ELSE NoOwner

\* The owner `fresh_owner_id` gave the id to.
OwnerOf(id) == owner_id_list[Len(owner_id_list) - id]

\* SpanFreeError.raise reports without an owner.
SpanFree(i, kind) == [about |-> i, kind |-> kind, owner |-> NoOwner]

-----------------------------------------------------------------------------
(* Import of the items, one after the other *)

\* import_item enters capture, c_item enters with_owner_hint.
ImportItem ==
    /\ at = "items" /\ current < N
    /\ current' = current + 1
    /\ previous_state' = state /\ state' = <<>>
    /\ previous_hint' = state_owner_hint
    /\ state_owner_hint' = FreshOwnerId
    /\ owner_id_list' = <<current'>> \o owner_id_list
    /\ at' = "import"
    /\ UNCHANGED <<items, reports, declared, outcome>>

\* c_expr reports an error and goes on with a failure expression.
ExprError ==
    /\ at = "import" /\ Len(state) < MaxReports
    /\ \E k \in Kinds : state' = Append(state, SpanFree(current, k))
    /\ UNCHANGED <<at, current, owner_id_list, state_owner_hint, previous_hint,
                   previous_state, items, reports, declared, outcome>>

\* Faulty variant of Captured: the previous state is not restored.
CapturedForGood(S) ==
    /\ items' = items \cup S
    /\ state' = state
    /\ at' = "items"

\* The exit of `capture`, for an item made of the AST items S.
Captured(S) ==
    /\ items' = items \cup S
    /\ state' = previous_state
    /\ at' = "items"

\* Faulty variant of FinishItem: the hint of the item stays.
FinishKeepingHint ==
    /\ at = "import"
    /\ reports' = [reports EXCEPT ![current] = ToSet(state)]
    /\ \E y \in 0 .. MaxYield :
         Captured([item : {current}, n : 1 .. y, hint : {state_owner_hint},
                   failed : {state # <<>>}])
    /\ UNCHANGED <<current, owner_id_list, state_owner_hint, previous_hint,
                   previous_state, declared, outcome>>

\* c_item_unwrapped returns and with_owner_hint restores the hint.
FinishItem ==
    /\ at = "import"
    /\ reports' = [reports EXCEPT ![current] = ToSet(state)]
    /\ \E y \in 0 .. MaxYield :
         Captured([item : {current}, n : 1 .. y, hint : {state_owner_hint},
                   failed : {state # <<>>}])
    /\ state_owner_hint' = previous_hint
    /\ UNCHANGED <<current, owner_id_list, previous_hint, previous_state,
                   declared, outcome>>

\* An error escapes c_item_unwrapped: with_owner_hint does not restore the
\* hint, so that the span of the error item still carries it.
FailItem ==
    /\ at = "import" /\ Len(state) < MaxReports
    /\ \E k \in Kinds :
         reports' = [reports EXCEPT ![current] =
                        ToSet(state) \cup {SpanFree(current, k)}]
    /\ Captured([item : {current}, n : {1}, hint : {state_owner_hint},
                 failed : {TRUE}])
    /\ UNCHANGED <<current, owner_id_list, state_owner_hint, previous_hint,
                   previous_state, declared, outcome>>

-----------------------------------------------------------------------------
(* Selection: import_thir_items, once every item is imported *)

ItemProcessed(S) == {OwnerHint(x.hint) : x \in S} \ {NoOwner}

\* The errors of the selected items, deduplicated and sorted.
ReportsOf(S) == SetToSeq(UNION {reports[x.item] : x \in S})

\* Some of the AST items are kept: those the inclusion clauses name with the
\* items they need, except those an attribute excludes.
Select ==
    /\ at = "items" /\ current = N
    /\ \E S \in SUBSET items :
         /\ items' = S
         /\ declared' = ItemProcessed(S)
         /\ state' = state \o ReportsOf(S)
    /\ at' = "phases"
    /\ UNCHANGED <<current, owner_id_list, state_owner_hint, previous_hint,
                   previous_state, reports, outcome>>

-----------------------------------------------------------------------------
(* The phases and the backend *)

\* Faulty variant of PhaseError: only the error node is made.
SilentPhaseError ==
    /\ at = "phases" /\ Len(state) < MaxState
    /\ \E x \in items :
         items' = (items \ {x}) \cup {[x EXCEPT !.failed = TRUE]}
    /\ UNCHANGED <<at, current, owner_id_list, state_owner_hint, previous_hint,
                   state, previous_state, reports, declared, outcome>>

\* dexpr or ditem turn a reported error into an error node; the item keeps
\* its span.
PhaseError ==
    /\ at = "phases" /\ Len(state) < MaxState
    /\ \E x \in items, k \in Kinds :
         /\ state' = Append(state, SpanFree(x.item, k))
         /\ items' = (items \ {x}) \cup {[x EXCEPT !.failed = TRUE]}
    /\ UNCHANGED <<at, current, owner_id_list, state_owner_hint, previous_hint,
                   previous_state, reports, declared, outcome>>

\* The Rust printer, asked for the last AST of an item, reports with an owner
\* and prints something anyway.
PrintError ==
    /\ at = "phases" /\ Len(state) < MaxState
    /\ \E x \in items, k \in Kinds :
         state' = Append(state, [about |-> x.item, kind |-> k,
                                 owner |-> OwnerHint(x.hint)])
    /\ UNCHANGED <<at, current, owner_id_list, state_owner_hint, previous_hint,
                   previous_state, items, reports, declared, outcome>>

\* Diagnostics.failure, about an item, on a span of that item or on a dummy
\* span, which takes the hint of the moment.  `try_` ends the run.
Failure ==
    /\ at = "phases"
    /\ \E x \in items, k \in Kinds : \E h \in {x.hint, state_owner_hint} :
         state' = Append(state, [about |-> x.item, kind |-> k,
                                 owner |-> OwnerHint(h)])
    /\ at' = "done" /\ outcome' = "fatal"
    /\ UNCHANGED <<current, owner_id_list, state_owner_hint, previous_hint,
                   previous_state, items, reports, declared>>

\* The items are printed. The filters of type aliases and of `late_skip` items
\* before that are left out: they take items away and report nothing.
Finish ==
    /\ at = "phases"
    /\ at' = "done" /\ outcome' = "ok"
    /\ UNCHANGED <<current, owner_id_list, state_owner_hint, previous_hint,
                   state, previous_state, items, reports, declared>>

\* Any other exception, among them a SpanFreeError nobody catches.
Crash ==
    /\ at # "done"
    /\ at' = "done" /\ outcome' = "crashed"
    /\ UNCHANGED <<current, owner_id_list, state_owner_hint, previous_hint,
                   state, previous_state, items, reports, declared>>

Terminated == at = "done" /\ UNCHANGED vars

Next == \/ ImportItem \/ ExprError \/ FinishItem \/ FailItem
        \/ Select \/ PhaseError \/ PrintError \/ Failure \/ Finish \/ Crash \/ Terminated

Spec == Init /\ [][Next]_vars

-----------------------------------------------------------------------------
(* Properties *)

TypeOK ==
    /\ at \in {"items", "import", "phases", "done"}
    /\ current \in 0 .. N
    /\ owner_id_list \in Seq(Crate)
    /\ state_owner_hint \in -1 .. N - 1 /\ previous_hint \in -1 .. N - 1
    /\ state \in Seq(Diagnostics) /\ previous_state \in Seq(Diagnostics)
    /\ items \subseteq AstItems
    /\ reports \in [Crate -> SUBSET Diagnostics]
    /\ declared \subseteq Crate
    /\ outcome \in {"running", "ok", "fatal", "crashed"}

Identifies(id, i) == id \in 0 .. Len(owner_id_list) - 1 /\ OwnerOf(id) = i

\* The id in the span of an AST item always denotes the item it was made
\* from, although the list that gives ids their meaning grows at the front
\* and an error that escapes leaves the reference as it is.
HintNamesItem ==
    /\ at = "import" => Identifies(state_owner_hint, current)
    /\ \A x \in items : Identifies(x.hint, x.item)

\* with_owner_hint is not exception safe.  Between two imports, and in all
\* the phases, the reference is therefore either empty or names an item whose
\* import failed: dummy spans never blame an item that was imported well.
StaleHintIsFailure ==
    at \in {"items", "phases"} /\ state_owner_hint # NoHint =>
        \E i \in Crate : Identifies(state_owner_hint, i) /\ reports[i] # {}

\* The user never reads an error about an item that was not selected: the
\* errors of the import stay aside until the selection is known.
NoForeignReports ==
    /\ at = "items" => state = <<>>
    /\ at \in {"phases", "done"} /\ outcome # "crashed" =>
        \A j \in 1 .. Len(state) : \E x \in items : x.item = state[j].about

\* No error node reaches the output without an error being reported about its
\* item, wherever between the import and the backend it was made.
NoSilentError ==
    outcome # "crashed" /\ at \in {"phases", "done"} =>
        \A x \in items : x.failed =>
            \E j \in 1 .. Len(state) : state[j].about = x.item

-----------------------------------------------------------------------------
(* What the documentation says *)

Selected == {x.item : x \in items}

\* ItemProcessed, hax-types/src/engine_api.rs: "Declares a list of items that
\* will be processed by the engine".
DeclaredAreSelected == at \in {"phases", "done"} /\ outcome # "crashed" =>
                           declared = Selected
=============================================================================
